------------------------ MODULE ThreadsafeQueue_proofs ------------------------
(***************************************************************************)
(* What TLAPS proves of threadsafe_queue for any numbers of producers,     *)
(* consumers and items: the types, mutual exclusion, and that the queue    *)
(* implements an atomic FIFO channel; and that no wakeup is lost, as long  *)
(* as no allocation fails between a notification and the pop it is for.    *)
(***************************************************************************)
EXTENDS ThreadsafeQueue, FiniteSetTheorems, TLAPS

(* A producer between its call and the body of push carries an item. *)
ArgReady == \A p \in Producers : pc[p] \in {"lock", "body"} => arg[p] \in Items

(* The induction carries the types, the pending arguments and the mutex. *)
IInv == TypeOK /\ ArgReady /\ MutexHeld

(* The queue starts empty, unlocked and with everybody idle. *)
LEMMA InitInv == Init => IInv
BY QueueAssumption
   DEF Init, IInv, TypeOK, ArgReady, MutexHeld, InCritical, Threads, Labels,
       AllCalls, Blocking, TryPops, Results

(* Types: no item is invented.  push's body is the one place where a value  *)
(* enters data_queue, and ArgReady says it is an item there.                *)
LEMMA NextTypeOK == TypeOK /\ ArgReady /\ [Next]_vars => TypeOK'
<1> SUFFICES ASSUME TypeOK, ArgReady, [Next]_vars PROVE TypeOK'
  OBVIOUS
<1> USE DEF TypeOK, Goto, Labels, Threads, Results
<1>1. ASSUME NEW p \in Producers, NEW v \in Items, CallPush(p, v) PROVE TypeOK'
  BY <1>1 DEF CallPush
<1>2. ASSUME NEW c \in Consumers, NEW f \in Calls, CallPop(c, f) PROVE TypeOK'
  BY <1>2, QueueAssumption DEF CallPop
<1>3. ASSUME NEW t \in Threads, Lock(t) \/ Unlock(t) PROVE TypeOK'
  BY <1>3 DEF Lock, Unlock
<1>4. ASSUME NEW p \in Producers, PushItem(p) PROVE TypeOK'
  BY <1>4 DEF PushItem, ArgReady
<1>5. ASSUME NEW p \in Producers, NotifyOne(p) PROVE TypeOK'
  BY <1>5 DEF NotifyOne, waiting
<1>6. ASSUME NEW c \in Consumers, Pop(c) PROVE TypeOK'
  BY <1>6 DEF Pop
<1>7. ASSUME NEW c \in Consumers,
             \/ PopThrows(c) \/ Wait(c) \/ SpuriousWakeup(c) \/ Relock(c)
             \/ TryPopMisses(c) \/ Empty(c)
      PROVE TypeOK'
  BY <1>7 DEF PopThrows, Wait, SpuriousWakeup, Relock, TryPopMisses, Empty
<1>8. CASE UNCHANGED vars
  BY <1>8 DEF vars
<1> QED
  BY <1>1, <1>2, <1>3, <1>4, <1>5, <1>6, <1>7, <1>8 DEF Next, PushSteps, PopSteps

(* Only the producer itself moves between its call and push's body. *)
LEMMA NextArgReady == TypeOK /\ ArgReady /\ [Next]_vars => ArgReady'
<1> SUFFICES ASSUME TypeOK, ArgReady, [Next]_vars PROVE ArgReady'
  OBVIOUS
<1> USE QueueAssumption DEF TypeOK, ArgReady, Goto, Threads
<1>1. ASSUME NEW p \in Producers, NEW v \in Items, CallPush(p, v) PROVE ArgReady'
  BY <1>1 DEF CallPush
<1>2. ASSUME NEW c \in Consumers, NEW f \in Calls, CallPop(c, f) PROVE ArgReady'
  BY <1>2 DEF CallPop
<1>3. ASSUME NEW t \in Threads, Lock(t) \/ Unlock(t) PROVE ArgReady'
  BY <1>3 DEF Lock, Unlock
<1>4. ASSUME NEW p \in Producers, PushItem(p) \/ NotifyOne(p) PROVE ArgReady'
  BY <1>4 DEF PushItem, NotifyOne, waiting
<1>5. ASSUME NEW c \in Consumers,
             \/ Pop(c) \/ PopThrows(c) \/ Wait(c) \/ SpuriousWakeup(c) \/ Relock(c)
             \/ TryPopMisses(c) \/ Empty(c)
      PROVE ArgReady'
  BY <1>5 DEF Pop, PopThrows, Wait, SpuriousWakeup, Relock, TryPopMisses, Empty
<1>6. CASE UNCHANGED vars
  BY <1>6 DEF vars
<1> QED
  BY <1>1, <1>2, <1>3, <1>4, <1>5, <1>6 DEF Next, PushSteps, PopSteps

(* Mutual exclusion: the mutex is taken only when nobody is inside, and     *)
(* wait gives it up in the step in which the thread blocks.                 *)
LEMMA NextMutexHeld == TypeOK /\ MutexHeld /\ [Next]_vars => MutexHeld'
<1> SUFFICES ASSUME TypeOK, MutexHeld, [Next]_vars PROVE MutexHeld'
  OBVIOUS
<1> USE QueueAssumption DEF TypeOK, MutexHeld, InCritical, Goto, Threads
<1>1. ASSUME NEW t \in Threads, Lock(t) \/ Unlock(t) PROVE MutexHeld'
  BY <1>1 DEF Lock, Unlock
<1>2. ASSUME NEW c \in Consumers, Wait(c) \/ Relock(c) \/ SpuriousWakeup(c) PROVE MutexHeld'
  BY <1>2 DEF Wait, Relock, SpuriousWakeup
<1>3. ASSUME NEW p \in Producers, NotifyOne(p) PROVE MutexHeld'
  BY <1>3 DEF NotifyOne, waiting
<1>4. ASSUME NEW p \in Producers, PushItem(p) PROVE MutexHeld'
  BY <1>4 DEF PushItem
<1>5. ASSUME NEW c \in Consumers, Pop(c) \/ PopThrows(c) \/ TryPopMisses(c) \/ Empty(c)
      PROVE MutexHeld'
  BY <1>5 DEF Pop, PopThrows, TryPopMisses, Empty
<1>6. ASSUME NEW p \in Producers, NEW v \in Items, CallPush(p, v) PROVE MutexHeld'
  BY <1>6 DEF CallPush
<1>7. ASSUME NEW c \in Consumers, NEW f \in Calls, CallPop(c, f) PROVE MutexHeld'
  BY <1>7 DEF CallPop
<1>8. CASE UNCHANGED vars
  BY <1>8 DEF vars
<1> QED
  BY <1>1, <1>2, <1>3, <1>4, <1>5, <1>6, <1>7, <1>8 DEF Next, PushSteps, PopSteps

(* The inductive invariant holds in every reachable state. *)
LEMMA Invariance == Spec => []IInv
<1>1. IInv /\ [Next]_vars => IInv'
  BY NextTypeOK, NextArgReady, NextMutexHeld DEF IInv
<1> QED
  BY InitInv, <1>1, PTL DEF Spec

(* Every value in data_queue is one that some caller pushed, and every      *)
(* variable keeps its type (threadsafe_queue.h lines 17-75).                *)
THEOREM QueueTypes == Spec => []TypeOK
BY Invariance, PTL DEF IInv

(* At most one thread is inside a member function, and it holds mut.        *)
THEOREM MutualExclusion == Spec => []MutexHeld
BY Invariance, PTL DEF IInv

(* threadsafe_queue implements the atomic FIFO channel: PushItem is the     *)
(* channel's Push, Pop its Take, TryPopMisses its Miss, Empty its Ask, and  *)
(* every other step leaves the channel as it was.                           *)
THEOREM Refinement == Spec => ImplementsFifo
<1>1. Init => Fifo!Init
  BY DEF Init, Fifo!Init
<1>2. ASSUME IInv, [Next]_vars PROVE [Fifo!Next]_(Fifo!vars)
  <2> USE DEF Goto, Fifo!vars
  <2>1. ASSUME NEW p \in Producers, PushItem(p) PROVE Fifo!Next
    <3>1. arg[p] \in Items
      BY <1>2, <2>1 DEF IInv, ArgReady, PushItem
    <3>2. Fifo!Push(arg[p])
      BY <2>1 DEF PushItem, Fifo!Push
    <3> QED
      BY <3>1, <3>2 DEF Fifo!Next
  <2>2. ASSUME NEW c \in Consumers, Pop(c) PROVE Fifo!Next
    <3>1. Fifo!Take(c)
      BY <2>2 DEF Pop, Fifo!Take
    <3> QED
      BY <3>1 DEF Fifo!Next
  <2>3. ASSUME NEW c \in Consumers, TryPopMisses(c) PROVE Fifo!Next
    <3>1. Fifo!Miss(c)
      BY <2>3 DEF TryPopMisses, Fifo!Miss
    <3> QED
      BY <3>1 DEF Fifo!Next
  <2>4. ASSUME NEW c \in Consumers, Empty(c) PROVE Fifo!Next
    <3>1. Fifo!Ask(c)
      BY <2>4 DEF Empty, Fifo!Ask
    <3> QED
      BY <3>1 DEF Fifo!Next
  <2>5. ASSUME NEW t \in Threads, Lock(t) \/ Unlock(t) PROVE UNCHANGED Fifo!vars
    BY <2>5 DEF Lock, Unlock
  <2>6. ASSUME NEW p \in Producers, NotifyOne(p) PROVE UNCHANGED Fifo!vars
    BY <2>6 DEF NotifyOne
  <2>7. ASSUME NEW c \in Consumers, PopThrows(c) \/ Wait(c) \/ Relock(c) \/ SpuriousWakeup(c)
        PROVE UNCHANGED Fifo!vars
    BY <2>7 DEF PopThrows, Wait, Relock, SpuriousWakeup
  <2>8. ASSUME NEW p \in Producers, NEW v \in Items, CallPush(p, v) PROVE UNCHANGED Fifo!vars
    BY <2>8 DEF CallPush
  <2>9. ASSUME NEW c \in Consumers, NEW f \in Calls, CallPop(c, f) PROVE UNCHANGED Fifo!vars
    BY <2>9 DEF CallPop
  <2>10. CASE UNCHANGED vars
    BY <2>10 DEF vars
  <2> QED
    BY <1>2, <2>1, <2>2, <2>3, <2>4, <2>5, <2>6, <2>7, <2>8, <2>9, <2>10
       DEF Next, PushSteps, PopSteps, Threads
<1> QED
  BY Invariance, <1>1, <1>2, PTL DEF Spec, ImplementsFifo, Fifo!Spec
------------------------------------------------------------------------------
(* Lost wakeups *)

(* A blocking pop never throws.  It may if it allocates its result: the     *)
(* exception then consumes a notification and leaves the item.              *)
NoThrow == AllocMayFail => "wait_and_pop_ptr" \notin Calls

(* Only a consumer in wait_and_pop waits, and only push notifies. *)
Roles ==
  /\ \A c \in Consumers : /\ call[c] \in Calls \cup {"empty"}
                          /\ pc[c] \in {"wait", "relock"} => call[c] \in Blocking
                          /\ pc[c] # "notify"
  /\ \A p \in Producers : pc[p] \notin {"wait", "relock"}

(* Roles is kept by every step. *)
LEMMA NextRoles == TypeOK /\ Roles /\ [Next]_vars => Roles'
<1> SUFFICES ASSUME TypeOK, Roles, [Next]_vars PROVE Roles'
  OBVIOUS
<1> USE QueueAssumption DEF TypeOK, Roles, Goto, Threads
<1>1. ASSUME NEW p \in Producers, NEW v \in Items, CallPush(p, v) PROVE Roles'
  BY <1>1 DEF CallPush
<1>2. ASSUME NEW c \in Consumers, NEW f \in Calls, CallPop(c, f) PROVE Roles'
  BY <1>2 DEF CallPop
<1>3. ASSUME NEW t \in Threads, Lock(t) \/ Unlock(t) PROVE Roles'
  BY <1>3 DEF Lock, Unlock
<1>4. ASSUME NEW p \in Producers, PushItem(p) PROVE Roles'
  BY <1>4 DEF PushItem
<1>5. ASSUME NEW p \in Producers, NotifyOne(p) PROVE Roles'
  BY <1>5 DEF NotifyOne, waiting
<1>6. ASSUME NEW c \in Consumers,
             \/ Pop(c) \/ PopThrows(c) \/ Wait(c) \/ SpuriousWakeup(c) \/ Relock(c)
             \/ TryPopMisses(c) \/ Empty(c)
      PROVE Roles'
  BY <1>6 DEF Pop, PopThrows, Wait, SpuriousWakeup, Relock, TryPopMisses, Empty
<1>7. CASE UNCHANGED vars
  BY <1>7 DEF vars
<1> QED
  BY <1>1, <1>2, <1>3, <1>4, <1>5, <1>6, <1>7 DEF Next, PushSteps, PopSteps

(* The counts that NoLostWakeup compares are finite, in both states. *)
LEMMA Counts ==
  /\ IsFiniteSet(Awake) /\ IsFiniteSet(Notifying)
  /\ IsFiniteSet(Awake') /\ IsFiniteSet(Notifying')
  /\ Cardinality(Awake) \in Nat /\ Cardinality(Notifying) \in Nat
  /\ Cardinality(Awake') \in Nat /\ Cardinality(Notifying') \in Nat
<1>1. /\ Awake \subseteq Consumers /\ Awake' \subseteq Consumers
      /\ Notifying \subseteq Producers /\ Notifying' \subseteq Producers
  BY DEF Awake, Notifying
<1> QED
  BY <1>1, QueueAssumption, FS_Subset, FS_CardinalityType

(* A push adds an item and a pending notification; the notification becomes *)
(* an awake consumer; an awake consumer takes one item, or leaves without   *)
(* it when make_shared fails.                                               *)
LEMMA NextNoLostWakeup ==
  ASSUME TypeOK, Roles, NoLostWakeup, [Next]_vars,
         \A c \in Consumers : ~(PopThrows(c) /\ call[c] \in Blocking)
  PROVE  NoLostWakeup'
<1> SUFFICES ASSUME waiting' # {}
             PROVE  Len(data_queue)' <= Cardinality(Awake)' + Cardinality(Notifying)'
  BY DEF NoLostWakeup
<1> USE QueueAssumption DEF TypeOK, Roles, Goto, Threads, Awake, Notifying, waiting
<1>0. waiting # {} => Len(data_queue) <= Cardinality(Awake) + Cardinality(Notifying)
  BY DEF NoLostWakeup
<1> DEFINE Bound == Len(data_queue)' <= Cardinality(Awake)' + Cardinality(Notifying)'
<1> HIDE DEF Bound
<1>k. ASSUME waiting # {}, Len(data_queue)' = Len(data_queue),
             Awake \subseteq Awake', Notifying \subseteq Notifying'
      PROVE  Bound
  <2>1. Cardinality(Awake) <= Cardinality(Awake')
    BY <1>k, Counts, FS_Subset
  <2>2. Cardinality(Notifying) <= Cardinality(Notifying')
    BY <1>k, Counts, FS_Subset
  <2>3. Len(data_queue) \in Nat
    BY DEF TypeOK
  <2> HIDE DEF Awake, Notifying, waiting
  <2> QED
    BY <1>0, <1>k, <2>1, <2>2, <2>3, Counts DEF Bound
<1>1. ASSUME NEW p \in Producers, NEW v \in Items, CallPush(p, v) PROVE Bound
  BY <1>1, <1>k DEF CallPush
<1>2. ASSUME NEW c \in Consumers, NEW f \in Calls, CallPop(c, f) PROVE Bound
  BY <1>2, <1>k DEF CallPop
<1>3. ASSUME NEW t \in Threads, Lock(t) \/ Unlock(t) PROVE Bound
  BY <1>3, <1>k DEF Lock, Unlock
<1>4. ASSUME NEW p \in Producers, PushItem(p) PROVE Bound
  <2>1. /\ waiting # {} /\ Awake' = Awake
        /\ Notifying' = Notifying \cup {p} /\ p \notin Notifying
        /\ Len(data_queue)' = Len(data_queue) + 1 /\ Len(data_queue) \in Nat
    BY <1>4 DEF PushItem
  <2> HIDE DEF Awake, Notifying, waiting
  <2>2. Cardinality(Notifying') = Cardinality(Notifying) + 1
    BY <2>1, Counts, FS_AddElement
  <2> QED
    BY <1>0, <2>1, <2>2, Counts DEF Bound
<1>5. ASSUME NEW p \in Producers, NotifyOne(p) PROVE Bound
  <2>1. waiting # {}
    BY <1>5 DEF NotifyOne
  <2>2. PICK w \in waiting : pc' = [pc EXCEPT ![p] = "unlock", ![w] = "relock"]
    BY <1>5, <2>1 DEF NotifyOne
  <2>3. w \in Consumers /\ w \notin Awake /\ p \in Notifying
    BY <1>5, <2>2 DEF NotifyOne
  <2>4. /\ Awake' = Awake \cup {w} /\ Notifying' = Notifying \ {p}
        /\ Len(data_queue)' = Len(data_queue) /\ Len(data_queue) \in Nat
    BY <1>5, <2>2, <2>3 DEF NotifyOne
  <2> HIDE DEF Awake, Notifying, waiting
  <2>5. Cardinality(Awake') = Cardinality(Awake) + 1
    BY <2>3, <2>4, Counts, FS_AddElement
  <2>6. Cardinality(Notifying') = Cardinality(Notifying) - 1
    BY <2>3, <2>4, Counts, FS_RemoveElement
  <2> QED
    BY <1>0, <2>1, <2>4, <2>5, <2>6, Counts DEF Bound
<1>6. ASSUME NEW c \in Consumers, Pop(c) PROVE Bound
  <2>1. /\ waiting # {} /\ Notifying' = Notifying
        /\ Len(data_queue)' = Len(data_queue) - 1 /\ Len(data_queue) \in Nat
        /\ Awake' = Awake \ {c}
    BY <1>6 DEF Pop, Blocking, TryPops
  <2> HIDE DEF Awake, Notifying, waiting
  <2>2. CASE c \in Awake
    <3>1. Cardinality(Awake') = Cardinality(Awake) - 1
      BY <2>1, <2>2, Counts, FS_RemoveElement
    <3> QED
      BY <1>0, <2>1, <3>1, Counts DEF Bound
  <2>3. CASE c \notin Awake
    <3>1. Awake' = Awake
      BY <2>1, <2>3
    <3>2. Cardinality(Awake') = Cardinality(Awake)
      BY <3>1
    <3> QED
      BY <1>0, <2>1, <3>2, Counts DEF Bound
  <2> QED
    BY <2>2, <2>3
<1>7. ASSUME NEW c \in Consumers, PopThrows(c) PROVE Bound
  <2>1. call[c] \notin Blocking
    BY <1>7
  <2> QED
    BY <1>7, <1>k, <2>1 DEF PopThrows
<1>8. ASSUME NEW c \in Consumers, Wait(c) PROVE Bound
  <2>1. Len(data_queue)' = 0
    BY <1>8 DEF Wait
  <2> HIDE DEF Awake, Notifying, waiting
  <2> QED
    BY <2>1, Counts DEF Bound
<1>9. ASSUME NEW c \in Consumers, SpuriousWakeup(c) \/ Relock(c) PROVE Bound
  BY <1>9, <1>k DEF SpuriousWakeup, Relock
<1>10. ASSUME NEW c \in Consumers, TryPopMisses(c) \/ Empty(c) PROVE Bound
  BY <1>10, <1>k DEF TryPopMisses, Empty, TryPops, Blocking
<1>11. CASE UNCHANGED vars
  BY <1>11, <1>k DEF vars, Bound
<1> QED
  BY <1>1, <1>2, <1>3, <1>4, <1>5, <1>6, <1>7, <1>8, <1>9, <1>10, <1>11
     DEF Next, PushSteps, PopSteps, Bound

(* Who waits and who notifies, in every state.                              *)
LEMMA RolesKept == Spec => [](IInv /\ Roles)
<1>1. Init => Roles
  BY QueueAssumption DEF Init, Roles, Threads
<1>2. IInv /\ Roles /\ [Next]_vars => (IInv /\ Roles)'
  BY NextTypeOK, NextArgReady, NextMutexHeld, NextRoles DEF IInv
<1> QED
  BY <1>1, <1>2, InitInv, PTL DEF Spec

(* Whatever is allocated and wherever it fails, a wakeup is lost in one way *)
(* only: make_shared throws in the blocking overload (threadsafe_queue.h    *)
(* lines 44-51).                                                            *)
THEOREM OneWayToLose == Spec => LostByThrowOnly
<1>1. IInv /\ Roles /\ [Next]_vars =>
        [NoLostWakeup => \/ NoLostWakeup'
                         \/ \E c \in Consumers : PopThrows(c) /\ call[c] \in Blocking]_vars
  BY NextNoLostWakeup DEF IInv
<1> QED
  BY <1>1, RolesKept, PTL DEF Spec, LostByThrowOnly

(* Without such a failure no wakeup is lost: while a consumer sleeps, the   *)
(* queue holds no more items than there are awake consumers and pushes      *)
(* about to notify (threadsafe_queue.h lines 31-43; the pool's overload     *)
(* allocates nothing, thread_pool.h line 89).                               *)
THEOREM WakeupsKept == ASSUME NoThrow PROVE Spec => []NoLostWakeup
<1>1. Init => NoLostWakeup
  BY DEF Init, NoLostWakeup, waiting, Threads
<1>2. IInv /\ Roles /\ NoLostWakeup /\ [Next]_vars => NoLostWakeup'
  <2> SUFFICES ASSUME IInv, Roles, NoLostWakeup, [Next]_vars PROVE NoLostWakeup'
    OBVIOUS
  <2>1. ASSUME NEW c \in Consumers, PopThrows(c) PROVE call[c] \notin Blocking
    BY <2>1, QueueAssumption DEF PopThrows, NoThrow, Roles, Allocating, Blocking
  <2> QED
    BY <2>1, NextNoLostWakeup DEF IInv
<1> QED
  BY <1>1, <1>2, RolesKept, PTL DEF Spec
==============================================================================
