------------------------------ MODULE FifoQueue ------------------------------
(***************************************************************************)
(* What the request queue promises its callers: a FIFO channel whose       *)
(* operations are atomic.  ThreadsafeQueue (the mutex and the condition    *)
(* variable of threadsafe_queue.h) is shown to implement it, and WebServer *)
(* uses it for the thread pool's queue.                                    *)
(***************************************************************************)
EXTENDS Sequences

CONSTANTS Items,     \* what is queued
          Takers,    \* the threads that take from the queue
          NoItem     \* "nothing": a null result

VARIABLES queue,     \* the items accepted and not yet delivered, oldest first
          got        \* got[t]: what the last operation of taker t returned

vars == <<queue, got>>

Results == Items \cup {NoItem, "empty", "nonempty"}

Init == /\ queue = <<>>
        /\ got = [t \in Takers |-> NoItem]

Push(v) == /\ queue' = Append(queue, v)
           /\ UNCHANGED got

(* The oldest item leaves the queue and is delivered to one taker. *)
Take(t) == /\ queue # <<>>
           /\ queue' = Tail(queue)
           /\ got' = [got EXCEPT ![t] = Head(queue)]

(* A taker may be turned away only when there is nothing to take. *)
Miss(t) == /\ queue = <<>>
           /\ got' = [got EXCEPT ![t] = NoItem]
           /\ UNCHANGED queue

(* A taker asks whether there is something to take. *)
Ask(t) == /\ got' = [got EXCEPT ![t] = IF queue = <<>> THEN "empty" ELSE "nonempty"]
          /\ UNCHANGED queue

Next == \/ \E v \in Items : Push(v)
        \/ \E t \in Takers : Take(t) \/ Miss(t) \/ Ask(t)

Spec == Init /\ [][Next]_vars
==============================================================================
