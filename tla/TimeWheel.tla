------------------------------- MODULE TimeWheel -------------------------------
(***************************************************************************)
(* The timer of the README: one inner and four outer wheels of lists of    *)
(* timers.  main.cpp line 15 has its #include in a comment.                *)
(*                                                                         *)
(* A call that dereferences a null pointer does not return.  A slot is a   *)
(* wheel and an index, an index outside of the array a slot of its own:    *)
(* what is written there is what is read there.  Not kept: the address and *)
(* callback of a timer, and all_wheel_slot and cur_slot[1..4], which only  *)
(* matter to lists that moved between wheels.  (Line 156 also reads        *)
(* mods[-1], and may divide by it; add_timer returns from neither.)        *)
(***************************************************************************)
EXTENDS Integers

CONSTANTS Timers,   \* tw_timer objects that the caller made
          Null

inwheel  == 256
outwheel == 64

(* 256, 256*64, 256*64^2, 256*64^3, 256*64^4, where ^ is exclusive or. *)
mods == [i \in 0 .. 4 |-> IF i = 0 THEN inwheel ELSE IF i = 1 THEN inwheel * outwheel
                          ELSE inwheel * outwheel + i]

(* lo<t<hi compares the result of lo<t, which is 0 or 1, with hi. *)
Between(lo, t, hi) == (IF lo < t THEN 1 ELSE 0) < hi

locate_wheel(timeout) ==
  IF Between(0, timeout, mods[0] + 1) THEN 1
  ELSE IF Between(mods[0], timeout, mods[1] + 1) THEN 2
  ELSE IF Between(mods[1], timeout, mods[2] + 1) THEN 3
  ELSE IF Between(mods[2], timeout, mods[3] + 1) THEN 4
  ELSE IF Between(mods[3], timeout, mods[4] + 1) THEN 5 ELSE 0

------------------------------------------------------------------------------
VARIABLES
  wheel,      \* the slots, the timers' links, cur_slot[0]; up: no call crashed
  returned    \* how many calls came back

vars == <<wheel, returned>>

Slots == {"inwheel_slot", "alloutwheel"} \X Int \X Int
Slot(id, s) == IF id = 1 THEN <<"inwheel_slot", 0, s>> ELSE <<"alloutwheel", id, s>>

(* A timer of the caller's: the constructor does not set time_wheelID. *)
New == [next : {Null}, prev : {Null}, time_slot : Int, time_wheelID : Int]

Unused(timer) == [slots |-> [p \in Slots |-> Null], timer |-> timer, cur |-> 0, up |-> TRUE]

Init == (\E timer \in [Timers -> New] : wheel = Unused(timer)) /\ returned = 0

Down(w) == [w EXCEPT !.up = FALSE]

(* inwheel_add, outwheel_add: the condition, with = for ==, empties the     *)
(* slot and is false.                                                       *)
Add(w, t, id, s) ==
  LET cleared == [w EXCEPT !.slots[Slot(id, s)] = Null]
      head == cleared.slots[Slot(id, s)]
      tmp == w.timer[head].next
  IN IF head = Null \/ tmp = Null THEN Down(cleared)
     ELSE [cleared EXCEPT !.timer[t].time_slot = s, !.timer[t].next = tmp, !.timer[t].prev = head,
                          !.timer[tmp].prev = t, !.timer[head].next = t]

(* t is the local variable of the call. *)
add_timer(w, t, timeout) ==
  LET id == locate_wheel(timeout)
      unit == CASE id = 1 -> 1
                [] id = 2 -> inwheel
                [] id = 3 -> inwheel * outwheel
                [] id = 4 -> inwheel * outwheel * outwheel
                [] OTHER  -> inwheel * outwheel * outwheel * outwheel
  IN IF id = 0 THEN w ELSE Add(w, t, id, timeout \div unit)

del_timer_from_wheellist(w, t) ==
  LET prev == w.timer[t].prev
      next == w.timer[t].next
      home == Slot(w.timer[t].time_wheelID, w.timer[t].time_slot)
  IN IF prev = Null /\ next = Null THEN Down([w EXCEPT !.slots[home] = Null])
     ELSE IF prev = Null THEN [w EXCEPT !.slots[home] = next, !.timer[next].prev = Null]
     ELSE IF next = Null THEN [w EXCEPT !.timer[prev].next = Null]
     ELSE [w EXCEPT !.timer[prev].next = next, !.timer[next].prev = prev]

update_timer(w, t, timeout) ==
  LET without == del_timer_from_wheellist(w, t)
  IN IF without.up THEN add_timer(without, t, timeout) ELSE without

(* The loop tests the timer before it takes the next: it ends on null. *)
delete_timerlist(w, head) ==
  IF head = Null \/ w.timer[head].prev = Null THEN Down(w) ELSE w

(* Reads time_wheelID of an empty list, and adds the first timer of another *)
(* to its wheel again and again.                                            *)
move_timerlist(w) == Down(w)

tick(w) ==
  LET cleared == delete_timerlist(w, w.slots[Slot(1, w.cur)])
  IN IF ~cleared.up THEN cleared
     ELSE IF w.cur < inwheel THEN [cleared EXCEPT !.cur = w.cur + 1]
     ELSE move_timerlist(cleared)

Call(w) ==
  /\ wheel.up
  /\ wheel' = w
  /\ returned' = IF w.up THEN returned + 1 ELSE returned

AddTimer    == \E t \in Timers, timeout \in Int : Call(add_timer(wheel, t, timeout))
DelTimer    == \E t \in Timers : Call(del_timer_from_wheellist(wheel, t))
UpdateTimer == \E t \in Timers, timeout \in Int : Call(update_timer(wheel, t, timeout))
Tick        == Call(tick(wheel))

Next == AddTimer \/ DelTimer \/ UpdateTimer \/ Tick

Spec == Init /\ [][Next]_vars

------------------------------------------------------------------------------
(* No call ever returns: the first tick, insertion, removal or update of a  *)
(* wheel kills the program.                                                 *)
NoCallReturns == returned = 0

(* Until it does, no slot of any wheel has held a timer.                    *)
NothingStored == wheel.up => \A p \in Slots : wheel.slots[p] = Null
==============================================================================
