--------------------------- MODULE ThreadsafeQueue ---------------------------
(***************************************************************************)
(* threadsafe_queue<T>: one mutex, one std::queue and one condition        *)
(* variable.  Every member function runs under the mutex, so an action is  *)
(* what a thread does between two points where another thread can be       *)
(* scheduled: taking the mutex, the body, notify_one, releasing it.        *)
(*                                                                         *)
(* Bounds: every item of Items is pushed at most once.                     *)
(***************************************************************************)
EXTENDS Sequences, FiniteSets, Integers

CONSTANTS Items,        \* the values pushed, each by one call of push
          Producers,    \* threads that call push
          Consumers,    \* threads that call the other member functions
          Calls,        \* the member functions the consumers call
          AllocMayFail, \* can std::make_shared throw bad_alloc?
          NoItem,       \* a null result
          NoThread      \* the mutex is free

Threads == Producers \cup Consumers

(* The two overloads of wait_and_pop and the two of try_pop differ in how  *)
(* they return the item: into a reference, or in a new shared_ptr whose    *)
(* allocation may throw before the item is popped.                         *)
Blocking  == {"wait_and_pop", "wait_and_pop_ptr"}
Allocating == {"wait_and_pop_ptr", "try_pop_ptr"}
TryPops   == {"try_pop", "try_pop_ptr"}
AllCalls  == Blocking \cup TryPops \cup {"empty"}

ASSUME QueueAssumption ==
  /\ IsFiniteSet(Producers) /\ IsFiniteSet(Consumers)
  /\ Producers \cap Consumers = {}
  /\ NoThread \notin Threads
  /\ NoItem \notin Items
  /\ Calls \subseteq AllCalls
  /\ AllocMayFail \in BOOLEAN

VARIABLES mut,         \* the holder of the mutex, or NoThread
          data_queue,  \* std::queue<T>
          pc,          \* where each thread is
          call,        \* the member function each thread is executing
          arg,         \* push's new_value
          got,         \* the result of each consumer's last call
          fresh        \* the items nobody has pushed yet

vars == <<mut, data_queue, pc, call, arg, got, fresh>>

Labels == {"idle", "lock", "body", "notify", "unlock", "wait", "relock"}

(* The threads blocked in data_cond.wait. *)
waiting == {t \in Threads : pc[t] = "wait"}

Results == Items \cup {NoItem, "empty", "nonempty"}

TypeOK ==
  /\ mut \in Threads \cup {NoThread}
  /\ data_queue \in Seq(Items)
  /\ pc \in [Threads -> Labels]
  /\ call \in [Threads -> AllCalls \cup {"push"}]
  /\ arg \in [Producers -> Items \cup {NoItem}]
  /\ got \in [Consumers -> Results]
  /\ fresh \in SUBSET Items

Init ==
  /\ mut = NoThread
  /\ data_queue = <<>>
  /\ pc = [t \in Threads |-> "idle"]
  /\ call = [t \in Threads |-> IF t \in Producers THEN "push" ELSE "empty"]
  /\ arg = [p \in Producers |-> NoItem]
  /\ got = [c \in Consumers |-> NoItem]
  /\ fresh = Items

Goto(t, from, to) == /\ pc[t] = from
                     /\ pc' = [pc EXCEPT ![t] = to]

------------------------------------------------------------------------------
(* Calls *)

CallPush(p, v) ==
  /\ v \in fresh
  /\ Goto(p, "idle", "lock")
  /\ arg' = [arg EXCEPT ![p] = v]
  /\ fresh' = fresh \ {v}
  /\ UNCHANGED <<mut, data_queue, call, got>>

CallPop(c, f) ==
  /\ Goto(c, "idle", "lock")
  /\ call' = [call EXCEPT ![c] = f]
  /\ UNCHANGED <<mut, data_queue, arg, got, fresh>>

------------------------------------------------------------------------------
(* The mutex *)

Lock(t) ==
  /\ mut = NoThread
  /\ Goto(t, "lock", "body")
  /\ mut' = t
  /\ UNCHANGED <<data_queue, call, arg, got, fresh>>

Unlock(t) ==
  /\ Goto(t, "unlock", "idle")
  /\ mut' = NoThread
  /\ UNCHANGED <<data_queue, call, arg, got, fresh>>

------------------------------------------------------------------------------
(* push *)

PushItem(p) ==
  /\ Goto(p, "body", "notify")
  /\ data_queue' = Append(data_queue, arg[p])
  /\ UNCHANGED <<mut, call, arg, got, fresh>>

(* Mutant: push notifies only when the queue was empty before it. *)
NotifyWhenEmpty(p) ==
  /\ pc[p] = "notify"
  /\ \/ /\ waiting = {} \/ Len(data_queue) > 1
        /\ pc' = [pc EXCEPT ![p] = "unlock"]
     \/ \E w \in waiting : /\ Len(data_queue) = 1
                          /\ pc' = [pc EXCEPT ![p] = "unlock", ![w] = "relock"]
  /\ UNCHANGED <<mut, data_queue, call, arg, got, fresh>>

(* Mutant: push forgets to notify. *)
NotifyForgotten(p) ==
  /\ Goto(p, "notify", "unlock")
  /\ UNCHANGED <<mut, data_queue, call, arg, got, fresh>>

(* notify_one wakes one blocked thread, if there is one. *)
NotifyOne(p) ==
  /\ pc[p] = "notify"
  /\ \/ /\ waiting = {}
        /\ pc' = [pc EXCEPT ![p] = "unlock"]
     \/ \E w \in waiting : pc' = [pc EXCEPT ![p] = "unlock", ![w] = "relock"]
  /\ UNCHANGED <<mut, data_queue, call, arg, got, fresh>>

------------------------------------------------------------------------------
(* wait_and_pop, try_pop and empty *)

(* Mutant: wait without the predicate, so that a woken thread takes the     *)
(* front of a queue that may be empty.                                      *)
PopUnchecked(c) ==
  /\ call[c] \in Blocking \cup TryPops
  /\ Goto(c, "body", "unlock")
  /\ got' = [got EXCEPT ![c] = IF data_queue = <<>> THEN "garbage" ELSE Head(data_queue)]
  /\ data_queue' = IF data_queue = <<>> THEN <<>> ELSE Tail(data_queue)
  /\ UNCHANGED <<mut, call, arg, fresh>>

Pop(c) ==
  /\ call[c] \in Blocking \cup TryPops
  /\ data_queue # <<>>
  /\ Goto(c, "body", "unlock")
  /\ got' = [got EXCEPT ![c] = Head(data_queue)]
  /\ data_queue' = Tail(data_queue)
  /\ UNCHANGED <<mut, call, arg, fresh>>

(* Mutant: the item is popped before make_shared. *)
PopThrowsLate(c) ==
  /\ AllocMayFail
  /\ call[c] \in Allocating
  /\ data_queue # <<>>
  /\ Goto(c, "body", "unlock")
  /\ data_queue' = Tail(data_queue)
  /\ UNCHANGED <<mut, call, arg, got, fresh>>

(* make_shared throws before data_queue.pop: the lock is released on the   *)
(* way out and the item stays.                                             *)
PopThrows(c) ==
  /\ AllocMayFail
  /\ call[c] \in Allocating
  /\ data_queue # <<>>
  /\ Goto(c, "body", "unlock")
  /\ UNCHANGED <<mut, data_queue, call, arg, got, fresh>>

(* data_cond.wait: releasing the mutex and blocking are one step. *)
Wait(c) ==
  /\ call[c] \in Blocking
  /\ data_queue = <<>>
  /\ Goto(c, "body", "wait")
  /\ mut' = NoThread
  /\ UNCHANGED <<data_queue, call, arg, got, fresh>>

(* A condition variable may wake a thread that nobody notified. *)
SpuriousWakeup(c) ==
  /\ Goto(c, "wait", "relock")
  /\ UNCHANGED <<mut, data_queue, call, arg, got, fresh>>

(* A woken thread takes the mutex again and re-evaluates the predicate. *)
Relock(c) ==
  /\ mut = NoThread
  /\ Goto(c, "relock", "body")
  /\ mut' = c
  /\ UNCHANGED <<data_queue, call, arg, got, fresh>>

TryPopMisses(c) ==
  /\ call[c] \in TryPops
  /\ data_queue = <<>>
  /\ Goto(c, "body", "unlock")
  /\ got' = [got EXCEPT ![c] = NoItem]
  /\ UNCHANGED <<mut, data_queue, call, arg, fresh>>

Empty(c) ==
  /\ call[c] = "empty"
  /\ Goto(c, "body", "unlock")
  /\ got' = [got EXCEPT ![c] = IF data_queue = <<>> THEN "empty" ELSE "nonempty"]
  /\ UNCHANGED <<mut, data_queue, call, arg, fresh>>

------------------------------------------------------------------------------
PushSteps(p) == Lock(p) \/ PushItem(p) \/ NotifyOne(p) \/ Unlock(p)

PopSteps(c) == \/ Lock(c) \/ Relock(c) \/ Unlock(c)
               \/ Pop(c) \/ PopThrows(c) \/ Wait(c) \/ TryPopMisses(c) \/ Empty(c)

Next == \/ \E p \in Producers : PushSteps(p) \/ \E v \in Items : CallPush(p, v)
        \/ \E c \in Consumers : \/ PopSteps(c)
                                \/ SpuriousWakeup(c)
                                \/ \E f \in Calls : CallPop(c, f)

Spec == Init /\ [][Next]_vars

(* A thread inside a member function keeps running (the scheduler is weakly *)
(* fair), and the consumers are the pool's workers, which loop on           *)
(* wait_and_pop: a consumer that returned calls again.  Nobody is obliged   *)
(* to push and no wakeup is spurious by obligation.                         *)
Fairness == /\ \A p \in Producers : WF_vars(PushSteps(p))
            /\ \A c \in Consumers : WF_vars(PopSteps(c) \/ \E f \in Calls : CallPop(c, f))

FairSpec == Spec /\ Fairness

------------------------------------------------------------------------------
(* Properties *)

(* The queue's members are touched by the holder of the mutex only: a       *)
(* thread in the body of a member function (lines 33-72) holds mut.         *)
InCritical(t) == pc[t] \in {"body", "notify", "unlock"}
MutexHeld == \A t \in Threads : InCritical(t) <=> mut = t

Awake == {c \in Consumers : pc[c] = "relock" \/ (pc[c] = "body" /\ call[c] \in Blocking)}
Notifying == {p \in Producers : pc[p] = "notify"}

(* No lost wakeup (push notifies under the mutex, wait re-checks under it): *)
(* while a consumer sleeps, every queued item has an awake thread of its    *)
(* own that will see to it, a woken consumer or a push about to notify.     *)
NoLostWakeup ==
  waiting # {} => Len(data_queue) <= Cardinality(Awake) + Cardinality(Notifying)

(* With exceptions too, a wakeup is lost in one way only: make_shared fails *)
(* in the blocking overload, and the consumer that was notified leaves with *)
(* its notification and without the item (threadsafe_queue.h lines 44-51).  *)
LostByThrowOnly ==
  [][NoLostWakeup => \/ NoLostWakeup'
                     \/ \E c \in Consumers : PopThrows(c) /\ call[c] \in Blocking]_vars

(* The queue as its callers see it: nothing is lost, duplicated or          *)
(* reordered, and try_pop and empty tell the truth.                         *)
Fifo == INSTANCE FifoQueue WITH queue <- data_queue, Takers <- Consumers
ImplementsFifo == Fifo!Spec

(* Every accepted request is eventually taken by a worker (thread_pool.h    *)
(* lines 84-92 loop on wait_and_pop).                                       *)
Queued(v) == \E i \in DOMAIN data_queue : data_queue[i] = v
EveryItemTaken == \A v \in Items : Queued(v) ~> \E c \in Consumers : got[c] = v
==============================================================================
