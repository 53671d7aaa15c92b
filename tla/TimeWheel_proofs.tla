--------------------------- MODULE TimeWheel_proofs ----------------------------
(***************************************************************************)
(* What TLAPS proves of the time wheel, for any timers and timeouts: it    *)
(* always chooses the inner wheel, and no call of it returns.  The         *)
(* invariant is that a wheel whose calls did not crash is an unused one.   *)
(***************************************************************************)
EXTENDS TimeWheel, TLAPS

(* The four outer wheels are never chosen, whatever the timeout: of the     *)
(* chained comparisons of line 159 on, the first is always true.            *)
THEOREM OnlyTheInnerWheel == \A timeout \in Int : locate_wheel(timeout) = 1
BY DEF locate_wheel, Between, mods, inwheel

(* A wheel that was not used yet. *)
Fresh == \E timer \in [Timers -> New] : wheel = Unused(timer)

Untouched == (wheel.up => Fresh) /\ NoCallReturns

(* Every slot of a new wheel is null, and the caller's timers are in none.  *)
LEMMA NewWheel ==
  ASSUME NEW timer \in [Timers -> New]
  PROVE  LET w == Unused(timer)
         IN /\ w.cur = 0 /\ w.up = TRUE
            /\ \A id, s \in Int : Slot(id, s) \in Slots /\ w.slots[Slot(id, s)] = Null
            /\ \A t \in Timers : /\ w.timer[t].prev = Null /\ w.timer[t].next = Null
                                 /\ w.timer[t].time_slot \in Int /\ w.timer[t].time_wheelID \in Int
<1>1. \A id, s \in Int : Slot(id, s) \in Slots
  BY DEF Slot, Slots
<1> QED
  BY <1>1 DEF Unused, New

(* Every call on a new wheel crashes.                                       *)
LEMMA CallsCrash ==
  ASSUME NEW timer \in [Timers -> New], NEW t \in Timers, NEW timeout \in Int
  PROVE  LET w == Unused(timer)
         IN /\ add_timer(w, t, timeout).up = FALSE
            /\ del_timer_from_wheellist(w, t).up = FALSE
            /\ update_timer(w, t, timeout).up = FALSE
<1> DEFINE w == Unused(timer)
<1>1. Down(w).up = FALSE
  BY DEF Down, Unused
<1>2. ASSUME NEW p \in Slots
      PROVE  /\ [w EXCEPT !.slots[p] = Null].slots[p] = Null
             /\ Down([w EXCEPT !.slots[p] = Null]).up = FALSE
  BY DEF Unused, Down
<1>3. add_timer(w, t, timeout).up = FALSE
  <2>1. locate_wheel(timeout) = 1
    BY OnlyTheInnerWheel
  <2>2. add_timer(w, t, timeout) = Add(w, t, 1, timeout \div 1)
    BY <2>1 DEF add_timer
  <2>3. Slot(1, timeout \div 1) \in Slots
    BY DEF Slot, Slots
  <2> HIDE DEF w
  <2> QED
    BY <1>2, <2>2, <2>3 DEF Add
<1>4. del_timer_from_wheellist(w, t).up = FALSE
  <2>1. /\ w.timer[t].prev = Null /\ w.timer[t].next = Null
        /\ Slot(w.timer[t].time_wheelID, w.timer[t].time_slot) \in Slots
    BY NewWheel
  <2> HIDE DEF w
  <2> QED
    BY <1>2, <2>1 DEF del_timer_from_wheellist
<1>5. update_timer(w, t, timeout).up = FALSE
  BY <1>4 DEF update_timer
<1> QED
  BY <1>3, <1>4, <1>5

(* So does the first tick.                                                  *)
LEMMA TickCrashes ==
  ASSUME NEW timer \in [Timers -> New]
  PROVE  tick(Unused(timer)).up = FALSE
<1> DEFINE w == Unused(timer)
<1>1. Down(w).up = FALSE
  BY DEF Down, Unused
<1>2. w.cur = 0 /\ Slot(1, 0) \in Slots
  BY DEF Unused, Slot, Slots
<1>3. w.slots[Slot(1, w.cur)] = Null
  BY <1>2 DEF Unused
<1> HIDE DEF w
<1>4. delete_timerlist(w, w.slots[Slot(1, w.cur)]) = Down(w)
  BY <1>3 DEF delete_timerlist
<1>5. tick(w).up = FALSE
  BY <1>1, <1>4 DEF tick
<1> QED
  BY <1>5 DEF w

(* The invariant.                                                           *)
LEMMA Invariance == Spec => []Untouched
<1>1. Init => Untouched
  BY DEF Init, Untouched, Fresh, NoCallReturns
<1>2. Untouched /\ [Next]_vars => Untouched'
  <2> SUFFICES ASSUME Untouched, [Next]_vars PROVE Untouched'
    OBVIOUS
  <2>1. ASSUME wheel'.up = FALSE, returned' = IF wheel'.up THEN returned + 1 ELSE returned
        PROVE  Untouched'
    BY <2>1 DEF Untouched, NoCallReturns
  <2>2. CASE Next
    <3>1. wheel.up /\ returned' = IF wheel'.up THEN returned + 1 ELSE returned
      BY <2>2 DEF Next, AddTimer, DelTimer, UpdateTimer, Tick, Call
    <3>2. PICK timer \in [Timers -> New] : wheel = Unused(timer)
      BY <3>1 DEF Untouched, Fresh
    <3>3. CASE AddTimer
      BY <2>1, <3>1, <3>2, <3>3, CallsCrash DEF AddTimer, Call
    <3>4. CASE DelTimer
      <4>1. 0 \in Int
        OBVIOUS
      <4> QED
        BY <2>1, <3>1, <3>2, <3>4, <4>1, CallsCrash DEF DelTimer, Call
    <3>5. CASE UpdateTimer
      BY <2>1, <3>1, <3>2, <3>5, CallsCrash DEF UpdateTimer, Call
    <3>6. CASE Tick
      BY <2>1, <3>1, <3>2, <3>6, TickCrashes DEF Tick, Call
    <3> QED
      BY <2>2, <3>3, <3>4, <3>5, <3>6 DEF Next
  <2>3. CASE UNCHANGED vars
    BY <2>3 DEF vars, Untouched, Fresh, NoCallReturns
  <2> QED
    BY <2>2, <2>3
<1> QED
  BY <1>1, <1>2, PTL DEF Spec

(* No call of a time wheel returns, for any timers and timeouts.            *)
THEOREM TimersNeverWork == Spec => []NoCallReturns
<1>1. Untouched => NoCallReturns
  BY DEF Untouched
<1> QED
  BY <1>1, Invariance, PTL

(* No slot of a wheel ever holds a timer.                                   *)
THEOREM WheelsStayEmpty == Spec => []NothingStored
<1>1. Untouched => NothingStored
  BY DEF Untouched, Fresh, NothingStored, Unused
<1> QED
  BY <1>1, Invariance, PTL
==============================================================================
