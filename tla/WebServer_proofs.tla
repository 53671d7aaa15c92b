--------------------------- MODULE WebServer_proofs ---------------------------
(***************************************************************************)
(* What TLAPS proves of the engine for any numbers of clients, workers and *)
(* descriptors: the types, whatever the services answer; and, as long as   *)
(* no worker closes a connection, that every connection has one owner,     *)
(* that none is forgotten and that m_user_count is exact.                  *)
(***************************************************************************)
EXTENDS WebServer, SequenceTheorems, FiniteSetTheorems, TLAPS

(* process_write never returns false, so that close_conn runs on the main   *)
(* thread only.                                                             *)
NoRefuse == "refuse" \notin Outcomes

------------------------------------------------------------------------------
(* Types *)

(* The main thread has a connection in hand whenever it is past dispatch. *)
MainBusy == pc[Main] \notin {"wait", "dispatch"} => cur \in Slots

Typed == TypeOK /\ MainBusy

(* Init has the types. *)
LEMMA InitTypes == Init => Typed
BY ServerAssumption
   DEF Init, Typed, TypeOK, MainBusy, Slots, NoSlot, Threads, MainLabels, CloseLabels, WorkerLabels

(* Arming a descriptor keeps the types of the epoll set. *)
LEMMA ArmTypes ==
  ASSUME TypeOK, NEW f \in Fds, NEW ev \in {"in", "out"}, Arm(f, ev)
  PROVE  interest' \in [Fds -> {"none", "off", "in", "out"}] /\ ready' \subseteq Fds \cup {Listen}
BY DEF TypeOK, Arm

(* So does modfd, which arms the object's m_sockfd or nothing. *)
LEMMA ModfdTypes ==
  ASSUME TypeOK, NEW s \in Slots \cup {NoSlot}, NEW ev \in {"in", "out"}, Modfd(s, ev)
  PROVE  interest' \in [Fds -> {"none", "off", "in", "out"}] /\ ready' \subseteq Fds \cup {Listen}
<1>1. CASE sockfd[s] \in Fds /\ interest[sockfd[s]] # "none"
  BY <1>1, ArmTypes DEF Modfd
<1>2. CASE ~(sockfd[s] \in Fds /\ interest[sockfd[s]] # "none")
  BY <1>2 DEF Modfd, TypeOK
<1> QED
  BY <1>1, <1>2

(* recv takes no more than there is and no more than fits. *)
LEMMA PiecesBound ==
  ASSUME TypeOK, NEW s \in Slots
  PROVE  /\ Pieces(s) \in Nat
         /\ readIdx[s] + Pieces(s) \in 0 .. BufferSize
         /\ \A c \in Clients : PeerOf(s) = c => rx[c] - Pieces(s) \in 0 .. rx[c]
<1>1. readIdx[s] \in 0 .. BufferSize /\ BufferSize \in Nat
  BY ServerAssumption DEF TypeOK, Slots
<1>2. CASE PeerOf(s) = NoClient
  BY <1>1, <1>2, ServerAssumption DEF Pieces
<1>3. CASE PeerOf(s) # NoClient
  <2>1. PeerOf(s) \in Clients
    BY <1>3 DEF TypeOK, PeerOf
  <2>2. rx[PeerOf(s)] \in Nat
    BY <2>1, ServerAssumption DEF TypeOK
  <2>3. Pieces(s) = IF rx[PeerOf(s)] <= BufferSize - readIdx[s] THEN rx[PeerOf(s)]
                    ELSE BufferSize - readIdx[s]
    BY <1>3 DEF Pieces
  <2> QED
    BY <1>1, <2>2, <2>3
<1> QED
  BY <1>2, <1>3

(* close(2) of a descriptor keeps the types of the kernel's state. *)
LEMMA CloseFileTypes ==
  ASSUME TypeOK, NEW f, CloseFile(f)
  PROVE  /\ peer' \in [Clients -> {"new", "pending", "open", "closed"}]
         /\ file' \in [Fds -> Clients \cup {NoClient}]
         /\ interest' \in [Fds -> {"none", "off", "in", "out"}]
         /\ ready' \subseteq Fds \cup {Listen}
<1>1. peer' \in [Clients -> {"new", "pending", "open", "closed"}]
  BY DEF TypeOK, CloseFile
<1>2. file' \in [Fds -> Clients \cup {NoClient}]
  BY DEF TypeOK, CloseFile
<1>3. interest' \in [Fds -> {"none", "off", "in", "out"}] /\ ready' \subseteq Fds \cup {Listen}
  BY DEF TypeOK, CloseFile
<1> QED
  BY <1>1, <1>2, <1>3

(* What the clients do keeps the types. *)
LEMMA ClientTypes ==
  ASSUME Typed, NEW c \in Clients, ClientStep(c)
  PROVE  Typed'
<1> USE ServerAssumption DEF Typed, TypeOK, MainBusy, conns
<1>1. CASE Connect(c)
  BY <1>1 DEF Connect
<1>2. CASE Send(c)
  <2>1. rx[c] \in 0 .. Window /\ Window \in Nat /\ rx[c] < Window
    BY <1>2 DEF Send
  <2>2. rx[c] + 1 \in 0 .. Window
    BY <2>1
  <2>3. ready' \subseteq Fds \cup {Listen}
    BY <1>2 DEF Send, Wake
  <2> QED
    BY <1>2, <2>2, <2>3 DEF Send
<1>3. CASE HangUp(c)
  BY <1>3 DEF HangUp, Connected, Wake
<1> QED
  BY <1>1, <1>2, <1>3 DEF ClientStep

(* close_conn keeps the types, on either thread. *)
LEMMA CloseTypes ==
  ASSUME Typed, NEW t \in Threads, CloseConn(t)
  PROVE  Typed'
<1> USE ServerAssumption
    DEF Typed, TypeOK, MainBusy, Goto, At, kernel, conns, ReleaseCur, ClosedNext, AfterEvent,
        MainLabels, CloseLabels, WorkerLabels, Slots, NoSlot
<1>1. CASE CloseSkip(t)
  BY <1>1 DEF CloseSkip
<1>2. CASE CloseRemove(t)
  <2>1. /\ peer' \in [Clients -> {"new", "pending", "open", "closed"}]
        /\ file' \in [Fds -> Clients \cup {NoClient}]
        /\ interest' \in [Fds -> {"none", "off", "in", "out"}]
        /\ ready' \subseteq Fds \cup {Listen}
    <3>1. CASE sockfd[Slot(t)] \in Fds
      BY <1>2, <3>1, CloseFileTypes DEF CloseRemove
    <3>2. CASE sockfd[Slot(t)] \notin Fds
      BY <1>2, <3>2 DEF CloseRemove
    <3> QED
      BY <3>1, <3>2
  <2> QED
    BY <1>2, <2>1 DEF CloseRemove
<1>3. CASE CloseForget(t)
  <2>1. sockfd' \in [Slots -> Fds \cup {-1, 0}]
    BY <1>3 DEF CloseForget
  <2>2. pc' \in [Threads -> MainLabels \cup CloseLabels \cup WorkerLabels] /\ MainBusy'
    BY <1>3 DEF CloseForget
  <2> QED
    BY <1>3, <2>1, <2>2 DEF CloseForget
<1>4. CASE DecLoad(t)
  <2>1. reg' \in [Threads -> Int]
    BY <1>4 DEF DecLoad
  <2>2. pc' \in [Threads -> MainLabels \cup CloseLabels \cup WorkerLabels] /\ MainBusy'
    BY <1>4 DEF DecLoad
  <2> QED
    BY <1>4, <2>1, <2>2 DEF DecLoad
<1>5. CASE DecStore(t)
  <2>1. userCount' \in Int
    BY <1>5 DEF DecStore
  <2>2. pc' \in [Threads -> MainLabels \cup CloseLabels \cup WorkerLabels]
    BY <1>5 DEF DecStore
  <2>3. cur' \in Slots \cup {NoSlot} /\ MainBusy'
    BY <1>5, <2>2 DEF DecStore, Threads
  <2> QED
    BY <1>5, <2>1, <2>2, <2>3 DEF DecStore
<1> QED
  BY <1>1, <1>2, <1>3, <1>4, <1>5 DEF CloseConn

(* The main thread's steps keep the types. *)
LEMMA MainTypes == ASSUME Typed, MainStep PROVE Typed'
<1> USE ServerAssumption
    DEF Typed, TypeOK, MainBusy, Goto, At, kernel, conns, AfterEvent, EventDone, Dispatch,
        MainLabels, CloseLabels, WorkerLabels, Slots, NoSlot, Threads
<1>1. CASE EpollWait
  <2>1. /\ batch' \subseteq [fd : Fds \cup {Listen}, ev : {"in", "out", "hup"}]
        /\ interest' \in [Fds -> {"none", "off", "in", "out"}]
        /\ ready' = {}
    BY <1>1 DEF EpollWait, Revents
  <2> QED
    BY <1>1, <2>1 DEF EpollWait
<1>2. ASSUME NEW e \in batch, Accept(e) PROVE Typed'
  <2>1. Head(backlog) \in Clients /\ Tail(backlog) \in Seq(Clients)
    BY <1>2 DEF Accept
  <2>2. PICK f \in FreeFds : /\ file' = [file EXCEPT ![f] = Head(backlog)]
                             /\ cur' = f
    BY <1>2 DEF Accept
  <2>3. file' \in [Fds -> Clients \cup {NoClient}] /\ cur' \in Slots
    BY <2>1, <2>2 DEF FreeFds
  <2>4. /\ peer' \in [Clients -> {"new", "pending", "open", "closed"}]
        /\ pc' \in [Threads -> MainLabels \cup CloseLabels \cup WorkerLabels]
    BY <1>2, <2>1 DEF Accept
  <2> QED
    BY <1>2, <2>1, <2>3, <2>4 DEF Accept
<1>3. ASSUME NEW e \in batch, AcceptFails(e) PROVE Typed'
  BY <1>3 DEF AcceptFails
<1>4. ASSUME NEW e \in batch, OnHangUp(e) PROVE Typed'
  BY <1>4 DEF OnHangUp
<1>5. ASSUME NEW e \in batch, OnReadable(e) PROVE Typed'
  <2>1. e.fd \in Slots
    BY <1>5 DEF OnReadable
  <2>2. readIdx' \in [Slots -> 0 .. BufferSize]
    BY <1>5, <2>1, PiecesBound DEF OnReadable, Receive
  <2>3. rx' \in [Clients -> 0 .. Window] /\ \A c \in Clients : rx'[c] <= rx[c]
    <3>1. rx' = [c \in Clients |-> IF PeerOf(e.fd) = c THEN rx[c] - Pieces(e.fd) ELSE rx[c]]
      BY <1>5 DEF OnReadable, Receive
    <3>2. \A c \in Clients : rx[c] \in 0 .. Window
      OBVIOUS
    <3>3. \A c \in Clients : PeerOf(e.fd) = c => rx[c] - Pieces(e.fd) \in 0 .. rx[c]
      BY <2>1, PiecesBound
    <3>4. \A c \in Clients : rx'[c] \in 0 .. Window /\ rx'[c] <= rx[c]
      <4> HIDE DEF Typed, TypeOK, MainBusy
      <4> QED
        BY <3>1, <3>2, <3>3, ServerAssumption
    <3> QED
      BY <3>1, <3>4
  <2>4. queue' \in Seq(Slots) /\ request' = request
    <3>1. CASE Requests!Push(e.fd)
      BY <3>1, <2>1 DEF Requests!Push
    <3>2. CASE UNCHANGED <<queue, request>>
      BY <3>2
    <3> QED
      BY <1>5, <3>1, <3>2 DEF OnReadable
  <2>5. cur' \in Slots \cup {NoSlot} /\ pc' \in [Threads -> MainLabels \cup CloseLabels \cup WorkerLabels]
    BY <1>5, <2>1 DEF OnReadable
  <2>6. batch' \subseteq batch /\ UNCHANGED <<up, peer, hup, backlog, file, interest, ready,
                                               sockfd, userCount, reg>>
    BY <1>5 DEF OnReadable
  <2>7. MainBusy'
    BY <1>5, <2>1 DEF OnReadable
  <2>8. TypeOK'
    BY <2>2, <2>3, <2>4, <2>5, <2>6
  <2> QED
    BY <2>7, <2>8
<1>6. ASSUME NEW e \in batch, OnWritable(e) PROVE Typed'
  <2>1. e.fd \in Slots
    BY <1>6 DEF OnWritable
  <2>2. interest' \in [Fds -> {"none", "off", "in", "out"}] /\ ready' \subseteq Fds \cup {Listen}
    BY <1>6, <2>1, ModfdTypes DEF OnWritable
  <2> QED
    <3>1. readIdx' \in [Slots -> 0 .. BufferSize]
      BY <1>6, <2>1 DEF OnWritable
    <3>2. pc' \in [Threads -> MainLabels \cup CloseLabels \cup WorkerLabels] /\ MainBusy'
      BY <1>6 DEF OnWritable
    <3>3. batch' \subseteq batch /\ UNCHANGED <<up, peer, rx, hup, backlog, file, sockfd,
                                                 userCount, queue, request, cur, reg>>
      BY <1>6 DEF OnWritable
    <3> QED
      BY <2>2, <3>1, <3>2, <3>3
<1>7. CASE RejectBusy
  BY <1>7, CloseFileTypes DEF RejectBusy
<1>8. CASE InitConn
  BY <1>8 DEF InitConn
<1>9. CASE AddFd
  <2>1. interest' \in [Fds -> {"none", "off", "in", "out"}] /\ ready' \subseteq Fds \cup {Listen}
    BY <1>9, ArmTypes DEF AddFd
  <2> QED
    BY <1>9, <2>1 DEF AddFd
<1>10. CASE IncLoad
  BY <1>10 DEF IncLoad
<1>11. CASE IncStore
  <2>1. reg[Main] + 1 \in Int /\ 0 \in 0 .. BufferSize
    OBVIOUS
  <2> QED
    BY <1>11, <2>1 DEF IncStore
<1>12. CASE CloseConn(Main)
  BY <1>12, CloseTypes
<1>13. CASE OutOfUsers
  BY <1>13 DEF OutOfUsers
<1> QED
  BY <1>1, <1>2, <1>3, <1>4, <1>5, <1>6, <1>7, <1>8, <1>9, <1>10, <1>11, <1>12, <1>13 DEF MainStep

(* And so do the workers'. *)
LEMMA WorkerTypes ==
  ASSUME Typed, NEW w \in Workers, WorkerStep(w) PROVE Typed'
<1> USE ServerAssumption
    DEF Typed, TypeOK, MainBusy, Goto, At, kernel, conns, MainLabels, CloseLabels, WorkerLabels, Slots,
        NoSlot, Threads
<1>1. CASE PopRequest(w)
  <2>1. Head(queue) \in Slots /\ Tail(queue) \in Seq(Slots)
    BY <1>1 DEF PopRequest, Requests!Take
  <2> QED
    BY <1>1, <2>1 DEF PopRequest, Requests!Take
<1>2. CASE Process(w)
  BY <1>2 DEF Process
<1>3. CASE Rearm(w)
  <2>1. interest' \in [Fds -> {"none", "off", "in", "out"}] /\ ready' \subseteq Fds \cup {Listen}
    BY <1>3, ModfdTypes DEF Rearm
  <2> QED
    BY <1>3, <2>1 DEF Rearm
<1>4. CASE CloseConn(w)
  BY <1>4, CloseTypes
<1> QED
  BY <1>1, <1>2, <1>3, <1>4 DEF WorkerStep

(* Every step keeps the types. *)
LEMMA NextTypes == ASSUME Typed, [Next]_vars PROVE Typed'
<1>1. CASE UNCHANGED vars
  BY <1>1 DEF vars, kernel, conns, Typed, TypeOK, MainBusy
<1> QED
  BY <1>1, ClientTypes, MainTypes, WorkerTypes DEF Next

(* Every variable keeps its type, whatever the services answer; among them, *)
(* m_read_idx never passes READ_BUFFER_SIZE (http_conn.cpp lines 126-153).  *)
THEOREM ServerTypes == Spec => []TypeOK
<1>1. Typed /\ [Next]_vars => Typed'
  BY NextTypes
<1> QED
  BY InitTypes, <1>1, PTL DEF Spec, Typed

------------------------------------------------------------------------------
(* Ownership *)

(* Where the threads are decides what they hold. *)
Stations ==
  /\ pc[Main] \in MainLabels \cup CloseLabels
  /\ cur = NoSlot <=> pc[Main] \in {"wait", "dispatch"}
  /\ pc[Main] = "wait" => batch = {}
  /\ \A w \in Workers : /\ pc[w] \in {"idle", "process", "rearm_in", "rearm_out"}
                        /\ request[w] = NoSlot <=> pc[w] = "idle"

(* A slot sits at most once in the pool, and has at most one event. *)
Once ==
  /\ \A i, j \in DOMAIN queue : queue[i] = queue[j] => i = j
  /\ \A v, w \in Workers : request[v] = request[w] /\ request[v] # NoSlot => v = w
  /\ \A w \in Workers : ~Queued(request[w])
  /\ \A d, e \in batch : d.fd = e.fd => d = e

(* A descriptor that nobody has in hand is free, armed, reported or in the  *)
(* pool: exactly one of them, and if not free its object names it.          *)
AtRest(f) ==
  /\ file[f] = NoClient => interest[f] = "none"
  /\ InPool(f) \/ Reported(f) => file[f] # NoClient /\ interest[f] = "off"
  /\ ~(InPool(f) /\ Reported(f))
  /\ file[f] # NoClient => /\ sockfd[f] = f /\ interest[f] # "none"
                           /\ interest[f] = "off" => InPool(f) \/ Reported(f)

(* The one the main thread has in hand is neither reported nor in the pool. *)
InHand(f) ==
  /\ ~InPool(f) /\ ~Reported(f)
  /\ pc[Main] \in {"admit", "addfd"} => file[f] # NoClient /\ interest[f] = "none"
  /\ pc[Main] \in {"inc_load", "inc_store"} => file[f] # NoClient /\ Armed(f)
  /\ pc[Main] = "close" => file[f] # NoClient /\ interest[f] = "off"
  /\ pc[Main] \in {"addfd", "inc_load", "inc_store", "close", "forget"} => sockfd[f] = f
  /\ pc[Main] \in {"forget", "dec_load", "dec_store"} => file[f] = NoClient /\ interest[f] = "none"

Placed == \A f \in Fds : IF cur = f THEN InHand(f) ELSE AtRest(f)

Owned == Stations /\ Once /\ Placed

(* The two properties that the runs check follow. *)
LEMMA OwnedSuffices == TypeOK /\ Owned => OneOwner /\ NoOrphan
<1> SUFFICES ASSUME TypeOK, Owned PROVE OneOwner /\ NoOrphan
  OBVIOUS
<1>1. OneOwner
  BY DEF Owned, Once, Placed, AtRest, InHand, OneOwner, OnMain, Armed, Slots
<1>2. NoOrphan
  BY DEF Owned, Placed, AtRest, NoOrphan, OnMain, Armed, TypeOK
<1> QED
  BY <1>1, <1>2

(* No descriptor is owned at the start. *)
LEMMA InitOwned == Init => Owned
<1> SUFFICES ASSUME Init PROVE Owned
  OBVIOUS
<1>1. Stations
  BY ServerAssumption DEF Init, Stations, MainLabels, Threads
<1>2. Once
  BY DEF Init, Once, Queued
<1>3. \A f \in Fds : ~InPool(f) /\ ~Reported(f) /\ cur # f
  BY ServerAssumption DEF Init, InPool, Queued, Reported, NoSlot
<1>4. Placed
  BY <1>3 DEF Init, Placed, AtRest
<1> QED
  BY <1>1, <1>2, <1>4 DEF Owned

(* append puts one more slot into the pool. *)
LEMMA PushFacts ==
  ASSUME TypeOK, NEW s \in Slots, Requests!Push(s)
  PROVE  /\ \A x : Queued(x)' <=> Queued(x) \/ x = s
         /\ ~Queued(s) /\ (\A i, j \in DOMAIN queue : queue[i] = queue[j] => i = j)
              => \A i, j \in DOMAIN queue' : queue'[i] = queue'[j] => i = j
<1>1. queue' = Append(queue, s) /\ queue \in Seq(Slots)
  BY DEF Requests!Push, TypeOK
<1>2. /\ Len(queue) \in Nat /\ DOMAIN queue = 1 .. Len(queue)
      /\ DOMAIN queue' = 1 .. (Len(queue) + 1)
      /\ \A i \in 1 .. Len(queue) : queue'[i] = queue[i]
      /\ queue'[Len(queue) + 1] = s
  BY <1>1
<1>3. \A x : Queued(x)' <=> Queued(x) \/ x = s
  BY <1>2 DEF Queued
<1>4. ASSUME ~Queued(s), \A i, j \in DOMAIN queue : queue[i] = queue[j] => i = j,
             NEW i \in DOMAIN queue', NEW j \in DOMAIN queue', queue'[i] = queue'[j]
      PROVE  i = j
  BY <1>2, <1>4 DEF Queued
<1> QED
  BY <1>3, <1>4

(* wait_and_pop takes one slot out of the queue. *)
LEMMA TakeFacts ==
  ASSUME TypeOK, NEW w \in Workers, Requests!Take(w)
  PROVE  /\ Queued(Head(queue)) /\ Head(queue) \in Slots
         /\ request' = [request EXCEPT ![w] = Head(queue)]
         /\ (\A i, j \in DOMAIN queue : queue[i] = queue[j] => i = j)
              => /\ \A i, j \in DOMAIN queue' : queue'[i] = queue'[j] => i = j
                 /\ \A x : Queued(x)' <=> Queued(x) /\ x # Head(queue)
<1>1. /\ queue # <<>> /\ queue' = Tail(queue) /\ queue \in Seq(Slots)
      /\ request' = [request EXCEPT ![w] = Head(queue)]
  BY DEF Requests!Take, TypeOK
<1>2. /\ Len(queue) \in Nat \ {0} /\ DOMAIN queue = 1 .. Len(queue)
      /\ DOMAIN queue' = 1 .. (Len(queue) - 1)
      /\ \A i \in 1 .. (Len(queue) - 1) : queue'[i] = queue[i + 1]
      /\ Head(queue) = queue[1] /\ Head(queue) \in Slots
  BY <1>1
<1>3. Queued(Head(queue))
  BY <1>2 DEF Queued
<1>4. ASSUME \A i, j \in DOMAIN queue : queue[i] = queue[j] => i = j
      PROVE  /\ \A i, j \in DOMAIN queue' : queue'[i] = queue'[j] => i = j
             /\ \A x : Queued(x)' <=> Queued(x) /\ x # Head(queue)
  <2>1. \A i, j \in DOMAIN queue' : queue'[i] = queue'[j] => i = j
    <3> SUFFICES ASSUME NEW i \in DOMAIN queue', NEW j \in DOMAIN queue', queue'[i] = queue'[j]
                 PROVE  i = j
      OBVIOUS
    <3>1. i + 1 \in DOMAIN queue /\ j + 1 \in DOMAIN queue /\ queue[i + 1] = queue[j + 1]
      BY <1>2
    <3> QED
      BY <3>1, <1>2, <1>4
  <2>2. ASSUME NEW x, Queued(x)' PROVE Queued(x) /\ x # Head(queue)
    <3>1. PICK i \in DOMAIN queue' : queue'[i] = x
      BY <2>2 DEF Queued
    <3>2. i + 1 \in DOMAIN queue /\ queue[i + 1] = x /\ i + 1 # 1 /\ 1 \in DOMAIN queue
      BY <3>1, <1>2
    <3> QED
      BY <3>2, <1>2, <1>4 DEF Queued
  <2>3. ASSUME NEW x, Queued(x), x # Head(queue) PROVE Queued(x)'
    <3>1. PICK i \in DOMAIN queue : queue[i] = x
      BY <2>3 DEF Queued
    <3>2. i - 1 \in DOMAIN queue' /\ queue'[i - 1] = x
      BY <3>1, <2>3, <1>2
    <3> QED
      BY <3>2 DEF Queued
  <2> QED
    BY <2>1, <2>2, <2>3
<1> QED
  BY <1>1, <1>2, <1>3, <1>4
(* Steps that leave the queue and the workers alone leave the pool alone. *)
LEMMA PoolFrame ==
  ASSUME queue' = queue, request' = request
  PROVE  \A x : (Queued(x)' <=> Queued(x)) /\ (InPool(x)' <=> InPool(x))
BY DEF Queued, InPool

(* Steps that leave the batch alone report nothing. *)
LEMMA BatchFrame == ASSUME batch' = batch PROVE \A x : Reported(x)' <=> Reported(x)
BY DEF Reported

(* Handling an event takes its descriptor's only event out of the batch. *)
LEMMA DispatchFacts ==
  ASSUME Once, NEW e, Dispatch(e)
  PROVE  /\ e \in batch /\ Reported(e.fd) /\ pc[Main] = "dispatch"
         /\ \A x : Reported(x)' <=> Reported(x) /\ x # e.fd
         /\ \A c, d \in batch' : c.fd = d.fd => c = d
BY DEF Once, Dispatch, At, Reported

(* The clients own nothing. *)
LEMMA ClientOwned ==
  ASSUME TypeOK, Owned, NEW c \in Clients, ClientStep(c) PROVE Owned'
<1>1. UNCHANGED <<file, interest, batch, sockfd, queue, request, cur, pc>>
  BY DEF ClientStep, Connect, Send, HangUp, conns
<1>2. Stations' /\ Once'
  BY <1>1, PoolFrame DEF Owned, Stations, Once
<1>3. Placed'
  BY <1>1, PoolFrame, BatchFrame DEF Owned, Placed, AtRest, InHand, Armed
<1> QED
  BY <1>2, <1>3 DEF Owned

(* epoll_wait reports armed descriptors and disarms them (EPOLLONESHOT). *)
LEMMA EpollOwned == ASSUME TypeOK, Owned, EpollWait PROVE Owned'
<1> DEFINE events == {[fd |-> f, ev |-> Revents(f, interest[f])] :
                        f \in {g \in ready \cap Fds : Revents(g, interest[g]) # "none"}}
                     \cup {[fd |-> l, ev |-> "in"] : l \in ready \cap {Listen}}
<1>1. /\ batch' = events /\ batch = {} /\ cur = NoSlot /\ pc[Main] = "wait"
      /\ pc' = [pc EXCEPT ![Main] = "dispatch"]
      /\ interest' = [f \in Fds |-> IF \E e \in events : e.fd = f THEN "off" ELSE interest[f]]
      /\ UNCHANGED <<file, sockfd, queue, request, cur>>
  BY DEF EpollWait, Goto, At, conns, Owned, Stations
<1>2. \A d, e \in events : d.fd = e.fd => d = e
  BY ServerAssumption
<1>3. ASSUME NEW f \in Fds, \E e \in events : e.fd = f
      PROVE  interest[f] \in {"in", "out"} /\ file[f] # NoClient
  BY <1>3, ServerAssumption DEF Revents
<1> HIDE DEF events
<1>4. \A f \in Fds : Reported(f)' <=> \E e \in events : e.fd = f
  BY <1>1 DEF Reported
<1>5. \A f \in Fds : (InPool(f)' <=> InPool(f)) /\ ~Reported(f) /\ cur # f
  BY <1>1, PoolFrame, ServerAssumption DEF Reported, NoSlot
<1>6. Stations'
  BY <1>1, ServerAssumption DEF Owned, Stations, TypeOK, Threads, MainLabels
<1>7. Once'
  BY <1>1, <1>2, PoolFrame DEF Owned, Once
<1>8. ASSUME NEW f \in Fds PROVE AtRest(f)' /\ cur' # f
  <2>1. AtRest(f)
    BY <1>5 DEF Owned, Placed
  <2> QED
    BY <1>1, <1>3, <1>4, <1>5, <2>1 DEF AtRest
<1> QED
  BY <1>6, <1>7, <1>8 DEF Owned, Placed

(* A new connection's descriptor was free, so nobody owned it. *)
LEMMA AcceptOwned == ASSUME TypeOK, Owned, NEW e \in batch, Accept(e) PROVE Owned'
<1>1. PICK f \in FreeFds : file' = [file EXCEPT ![f] = Head(backlog)] /\ cur' = f
  BY DEF Accept
<1>2. /\ Dispatch(e) /\ pc[Main] = "dispatch" /\ cur = NoSlot /\ e.fd = Listen
      /\ pc' = [pc EXCEPT ![Main] = "admit"]
      /\ Head(backlog) \in Clients /\ f \in Fds /\ file[f] = NoClient
      /\ UNCHANGED <<interest, sockfd, queue, request>>
  BY <1>1 DEF Accept, Dispatch, At, Owned, Stations, conns, FreeFds, TypeOK
<1>3. \A g \in Fds : (InPool(g)' <=> InPool(g)) /\ (Reported(g)' <=> Reported(g)) /\ AtRest(g)
  BY <1>2, PoolFrame, DispatchFacts, ServerAssumption DEF Owned, Placed, NoSlot
<1>4. Stations'
  BY <1>1, <1>2, ServerAssumption DEF Owned, Stations, TypeOK, Threads, MainLabels, NoSlot
<1>5. Once'
  BY <1>2, PoolFrame, DispatchFacts DEF Owned, Once
<1>6. InHand(f)'
  BY <1>1, <1>2, <1>3, ServerAssumption DEF AtRest, InHand, TypeOK, Threads
<1>7. ASSUME NEW g \in Fds, g # f PROVE AtRest(g)'
  BY <1>1, <1>2, <1>3, <1>7 DEF AtRest, TypeOK
<1> QED
  BY <1>1, <1>4, <1>5, <1>6, <1>7 DEF Owned, Placed

(* accept failed: the event is gone and nothing else happened. *)
LEMMA AcceptFailsOwned == ASSUME TypeOK, Owned, NEW e \in batch, AcceptFails(e) PROVE Owned'
<1>1. /\ Dispatch(e) /\ pc[Main] = "dispatch" /\ cur = NoSlot /\ e.fd = Listen
      /\ pc' = [pc EXCEPT ![Main] = IF batch' = {} THEN "wait" ELSE "dispatch"]
      /\ UNCHANGED <<file, interest, sockfd, queue, request, cur>>
  BY DEF AcceptFails, Dispatch, At, Owned, Stations, conns, kernel, EventDone, AfterEvent
<1>2. \A g \in Fds : (InPool(g)' <=> InPool(g)) /\ (Reported(g)' <=> Reported(g)) /\ AtRest(g) /\ cur # g
  BY <1>1, PoolFrame, DispatchFacts, ServerAssumption DEF Owned, Placed, NoSlot
<1>3. Stations'
  BY <1>1, ServerAssumption DEF Owned, Stations, TypeOK, Threads, MainLabels
<1>4. Once'
  BY <1>1, PoolFrame, DispatchFacts DEF Owned, Once
<1>5. \A g \in Fds : AtRest(g)' /\ cur' # g
  BY <1>1, <1>2 DEF AtRest
<1> QED
  BY <1>3, <1>4, <1>5 DEF Owned, Placed
(* What an event of a connection means: the main thread alone has it. *)
LEMMA EventFacts ==
  ASSUME TypeOK, Owned, NEW e, Dispatch(e), e.fd # Listen
  PROVE  /\ e.fd \in Fds /\ cur = NoSlot /\ AtRest(e.fd) /\ Reported(e.fd) /\ ~InPool(e.fd)
         /\ file[e.fd] # NoClient /\ interest[e.fd] = "off" /\ sockfd[e.fd] = e.fd
         /\ \A g \in Fds : cur # g /\ AtRest(g)
<1>1. e.fd \in Fds /\ cur = NoSlot /\ Reported(e.fd)
  BY DispatchFacts DEF TypeOK, Owned, Stations
<1>2. \A g \in Fds : cur # g /\ AtRest(g)
  BY <1>1, ServerAssumption DEF Owned, Placed, NoSlot
<1> QED
  BY <1>1, <1>2 DEF AtRest

(* A hang-up is handed to close_conn. *)
LEMMA HangUpOwned == ASSUME TypeOK, Owned, NEW e \in batch, OnHangUp(e) PROVE Owned'
<1>1. /\ Dispatch(e) /\ e.fd # Listen /\ cur' = e.fd /\ pc' = [pc EXCEPT ![Main] = "close"]
      /\ UNCHANGED <<file, interest, sockfd, queue, request>>
  BY DEF OnHangUp, conns, kernel
<1>2. \A g \in Fds : (InPool(g)' <=> InPool(g)) /\ (Reported(g)' <=> Reported(g) /\ g # e.fd)
  BY <1>1, PoolFrame, DispatchFacts DEF Owned
<1>3. Stations'
  BY <1>1, EventFacts, DispatchFacts, ServerAssumption
     DEF Owned, Stations, TypeOK, Threads, CloseLabels, NoSlot
<1>4. Once'
  BY <1>1, PoolFrame, DispatchFacts DEF Owned, Once
<1>5. InHand(e.fd)'
  BY <1>1, <1>2, EventFacts, ServerAssumption DEF InHand, TypeOK, Threads
<1>6. ASSUME NEW g \in Fds, g # e.fd PROVE AtRest(g)'
  BY <1>1, <1>2, <1>6, EventFacts DEF AtRest
<1> QED
  BY <1>1, <1>3, <1>4, <1>5, <1>6 DEF Owned, Placed

(* A readable connection goes to the pool, or to close_conn. *)
LEMMA ReadableOwned == ASSUME TypeOK, Owned, NEW e \in batch, OnReadable(e) PROVE Owned'
<1>1. /\ Dispatch(e) /\ e.fd # Listen
      /\ UNCHANGED <<file, interest, sockfd>>
  BY DEF OnReadable
<1>2. CASE /\ Requests!Push(e.fd) /\ cur' = cur
           /\ pc' = [pc EXCEPT ![Main] = IF batch' = {} THEN "wait" ELSE "dispatch"]
  <2>1. request' = request /\ \A x : Queued(x)' <=> Queued(x) \/ x = e.fd
    BY <1>1, <1>2, EventFacts, PushFacts DEF Requests!Push, Slots
  <2>2. \A x : InPool(x)' <=> InPool(x) \/ x = e.fd
    BY <2>1 DEF InPool
  <2>3. \A g \in Fds : Reported(g)' <=> Reported(g) /\ g # e.fd
    BY <1>1, DispatchFacts DEF Owned
  <2>4. Stations'
    BY <1>1, <1>2, <2>1, EventFacts, DispatchFacts, ServerAssumption
       DEF Owned, Stations, TypeOK, Threads, MainLabels
  <2>5. \A i, j \in DOMAIN queue' : queue'[i] = queue'[j] => i = j
    BY <1>1, <1>2, EventFacts, PushFacts DEF Owned, Once, InPool, Slots
  <2>6. \A w \in Workers : ~Queued(request[w])'
    BY <1>1, <2>1, EventFacts DEF Owned, Once, InPool
  <2>7. Once'
    BY <1>1, <2>1, <2>5, <2>6, DispatchFacts DEF Owned, Once
  <2>8. ASSUME NEW g \in Fds PROVE AtRest(g)' /\ cur' # g
    BY <1>1, <1>2, <2>2, <2>3, EventFacts DEF AtRest
  <2> QED
    BY <2>4, <2>7, <2>8 DEF Owned, Placed
<1>3. CASE /\ cur' = e.fd /\ pc' = [pc EXCEPT ![Main] = "close"]
           /\ UNCHANGED <<queue, request>>
  <2>1. \A g \in Fds : (InPool(g)' <=> InPool(g)) /\ (Reported(g)' <=> Reported(g) /\ g # e.fd)
    BY <1>1, <1>3, PoolFrame, DispatchFacts DEF Owned
  <2>2. Stations'
    BY <1>1, <1>3, EventFacts, DispatchFacts, ServerAssumption
       DEF Owned, Stations, TypeOK, Threads, CloseLabels, NoSlot
  <2>3. Once'
    BY <1>1, <1>3, PoolFrame, DispatchFacts DEF Owned, Once
  <2>4. InHand(e.fd)'
    BY <1>1, <1>3, <2>1, EventFacts, ServerAssumption DEF InHand, TypeOK, Threads
  <2>5. ASSUME NEW g \in Fds, g # e.fd PROVE AtRest(g)'
    BY <1>1, <1>3, <2>1, <2>5, EventFacts DEF AtRest
  <2> QED
    BY <1>3, <2>2, <2>3, <2>4, <2>5 DEF Owned, Placed
<1> QED
  BY <1>2, <1>3 DEF OnReadable, EventDone, AfterEvent

(* A writable connection is armed for reading again. *)
LEMMA WritableOwned == ASSUME TypeOK, Owned, NEW e \in batch, OnWritable(e) PROVE Owned'
<1>1. /\ Dispatch(e) /\ e.fd # Listen /\ Modfd(e.fd, "in")
      /\ pc' = [pc EXCEPT ![Main] = IF batch' = {} THEN "wait" ELSE "dispatch"]
      /\ UNCHANGED <<file, sockfd, queue, request, cur>>
  BY DEF OnWritable, EventDone, AfterEvent
<1>2. interest' = [interest EXCEPT ![e.fd] = "in"]
  BY <1>1, EventFacts DEF Modfd, Arm
<1>3. \A g \in Fds : (InPool(g)' <=> InPool(g)) /\ (Reported(g)' <=> Reported(g) /\ g # e.fd)
  BY <1>1, PoolFrame, DispatchFacts DEF Owned
<1>4. Stations'
  BY <1>1, EventFacts, DispatchFacts, ServerAssumption
     DEF Owned, Stations, TypeOK, Threads, MainLabels
<1>5. Once'
  BY <1>1, PoolFrame, DispatchFacts DEF Owned, Once
<1>6. ASSUME NEW g \in Fds PROVE AtRest(g)' /\ cur' # g
  BY <1>1, <1>2, <1>3, EventFacts DEF AtRest, TypeOK
<1> QED
  BY <1>4, <1>5, <1>6 DEF Owned, Placed
(* The connection in hand is one of the descriptors. *)
LEMMA HandFacts ==
  ASSUME TypeOK, Owned, pc[Main] \notin {"wait", "dispatch"}
  PROVE  /\ cur \in Fds /\ InHand(cur)
         /\ \A g \in Fds : g # cur => AtRest(g)
BY DEF TypeOK, Owned, Stations, Placed, Slots

(* Steps that advance the connection in hand without releasing it. *)
LEMMA AdvanceOwned ==
  ASSUME TypeOK, Owned, pc[Main] \notin {"wait", "dispatch"},
         NEW to \in MainLabels \cup CloseLabels, to \notin {"wait", "dispatch"},
         pc' = [pc EXCEPT ![Main] = to],
         UNCHANGED <<batch, queue, request, cur>>,
         \A g \in Fds : g # cur => UNCHANGED <<file[g], interest[g], sockfd[g]>>,
         InHand(cur)'
  PROVE  Owned'
<1>1. Stations'
  BY HandFacts, ServerAssumption DEF Owned, Stations, TypeOK, Threads
<1>2. Once'
  BY PoolFrame DEF Owned, Once
<1>3. ASSUME NEW g \in Fds, g # cur PROVE AtRest(g)'
  BY <1>3, HandFacts, PoolFrame, BatchFrame DEF AtRest
<1> QED
  BY <1>1, <1>2, <1>3 DEF Owned, Placed

(* Steps that release it. *)
LEMMA ReleaseOwned ==
  ASSUME TypeOK, Owned, pc[Main] \notin {"wait", "dispatch"}, NEW f \in Fds, f = cur,
         pc' = [pc EXCEPT ![Main] = IF batch = {} THEN "wait" ELSE "dispatch"],
         cur' = NoSlot,
         UNCHANGED <<batch, queue, request>>,
         \A g \in Fds : g # cur => UNCHANGED <<file[g], interest[g], sockfd[g]>>,
         AtRest(f)'
  PROVE  Owned'
<1>1. Stations'
  BY ServerAssumption DEF Owned, Stations, TypeOK, Threads, MainLabels
<1>2. Once'
  BY PoolFrame DEF Owned, Once
<1>3. ASSUME NEW g \in Fds, g # cur PROVE AtRest(g)'
  BY <1>3, HandFacts, PoolFrame, BatchFrame DEF AtRest
<1>4. \A g \in Fds : cur' # g
  BY ServerAssumption DEF NoSlot
<1> QED
  BY <1>1, <1>2, <1>3, <1>4 DEF Owned, Placed

(* The main thread's steps on the connection it has in hand. *)
LEMMA HandOwned ==
  ASSUME TypeOK, Owned, RejectBusy \/ InitConn \/ AddFd \/ IncLoad \/ IncStore
  PROVE  Owned'
<1>0. pc[Main] \notin {"wait", "dispatch"} /\ \A x : (InPool(x)' <=> InPool(x)) /\ (Reported(x)' <=> Reported(x))
  BY PoolFrame, BatchFrame DEF RejectBusy, InitConn, AddFd, IncLoad, IncStore, Goto, At
<1> USE <1>0, HandFacts, ServerAssumption DEF Goto, At, conns, kernel, MainLabels, InHand, Slots, Threads
<1>f. PICK f \in Fds : f = cur
  OBVIOUS
<1>1. CASE RejectBusy
  <2>1. file' = [file EXCEPT ![cur] = NoClient] /\ interest' = [interest EXCEPT ![cur] = "none"]
    BY <1>1 DEF RejectBusy, CloseFile
  <2>2. AtRest(f)'
    BY <1>f, <1>1, <2>1 DEF RejectBusy, AtRest, TypeOK
  <2> QED
    BY <1>f, <1>1, <2>1, <2>2, ReleaseOwned DEF RejectBusy, AfterEvent, TypeOK
<1>2. CASE InitConn
  <2>1. InHand(cur)'
    BY <1>2 DEF InitConn, TypeOK
  <2> QED
    BY <1>2, <2>1, AdvanceOwned DEF InitConn, TypeOK
<1>3. CASE AddFd
  <2>1. interest' = [interest EXCEPT ![cur] = "in"]
    BY <1>3 DEF AddFd, Arm
  <2>2. InHand(cur)'
    BY <1>3, <2>1 DEF AddFd, TypeOK, Armed
  <2> QED
    BY <1>3, <2>1, <2>2, AdvanceOwned DEF AddFd, TypeOK
<1>4. CASE IncLoad
  <2>1. InHand(cur)'
    BY <1>4 DEF IncLoad, TypeOK, Armed
  <2> QED
    BY <1>4, <2>1, AdvanceOwned DEF IncLoad
<1>5. CASE IncStore
  <2>1. AtRest(f)'
    BY <1>f, <1>5 DEF IncStore, TypeOK, AtRest, Armed
  <2> QED
    BY <1>f, <1>5, <2>1, ReleaseOwned DEF IncStore, AfterEvent
<1> QED
  BY <1>1, <1>2, <1>3, <1>4, <1>5

(* close_conn on the main thread frees a descriptor that only it owns. *)
LEMMA CloseOwned == ASSUME TypeOK, Owned, CloseConn(Main) PROVE Owned'
<1>0. pc[Main] \notin {"wait", "dispatch"} /\ \A x : (InPool(x)' <=> InPool(x)) /\ (Reported(x)' <=> Reported(x))
  BY PoolFrame, BatchFrame
     DEF CloseConn, CloseSkip, CloseRemove, CloseForget, DecLoad, DecStore, Goto, At
<1> USE <1>0, HandFacts, ServerAssumption
    DEF Goto, At, conns, kernel, CloseLabels, InHand, Slots, Threads, Slot, ReleaseCur, ClosedNext
<1>f. PICK f \in Fds : f = cur
  OBVIOUS
<1>1. CASE CloseSkip(Main)
  BY <1>1 DEF CloseSkip
<1>2. CASE CloseRemove(Main)
  <2>1. file' = [file EXCEPT ![cur] = NoClient] /\ interest' = [interest EXCEPT ![cur] = "none"]
    BY <1>2 DEF CloseRemove, CloseFile
  <2>2. InHand(cur)'
    BY <1>2, <2>1 DEF CloseRemove, TypeOK
  <2> QED
    BY <1>2, <2>1, <2>2, AdvanceOwned DEF CloseRemove, TypeOK
<1>3. CASE CloseForget(Main)
  <2>1. InHand(cur)'
    BY <1>3 DEF CloseForget, TypeOK
  <2> QED
    BY <1>3, <2>1, AdvanceOwned DEF CloseForget, TypeOK
<1>4. CASE DecLoad(Main)
  <2>1. InHand(cur)'
    BY <1>4 DEF DecLoad, TypeOK
  <2> QED
    BY <1>4, <2>1, AdvanceOwned DEF DecLoad
<1>5. CASE DecStore(Main)
  <2>1. AtRest(f)'
    BY <1>f, <1>5 DEF DecStore, TypeOK, AtRest
  <2> QED
    BY <1>f, <1>5, <2>1, ReleaseOwned DEF DecStore, AfterEvent
<1> QED
  BY <1>1, <1>2, <1>3, <1>4, <1>5 DEF CloseConn

(* The workers: a slot moves from the queue to a worker and, by modfd, back *)
(* to the main thread's side.                                               *)
LEMMA WorkerOwned ==
  ASSUME NoRefuse, TypeOK, Owned, NEW w \in Workers, WorkerStep(w) PROVE Owned'
<1>0. pc[w] \in {"idle", "process", "rearm_in", "rearm_out"} /\ w # Main /\ w \in Threads
  BY ServerAssumption DEF Owned, Stations, Threads
<1>1. CASE PopRequest(w)
  <2> DEFINE s == Head(queue)
  <2>1. /\ Requests!Take(w) /\ pc[w] = "idle" /\ pc' = [pc EXCEPT ![w] = "process"]
        /\ request[w] = NoSlot
        /\ UNCHANGED <<file, interest, batch, sockfd, cur>>
    BY <1>1 DEF PopRequest, Goto, At, kernel, conns, Owned, Stations
  <2>2. /\ Queued(s) /\ s \in Slots /\ s # NoSlot /\ request' = [request EXCEPT ![w] = s]
        /\ \A i, j \in DOMAIN queue' : queue'[i] = queue'[j] => i = j
        /\ \A x : Queued(x)' <=> Queued(x) /\ x # s
    BY <2>1, TakeFacts, ServerAssumption DEF Owned, Once, Slots, NoSlot
  <2> HIDE DEF s
  <2>3. \A g \in Fds : (InPool(g)' <=> InPool(g)) /\ (Reported(g)' <=> Reported(g))
    BY <2>1, <2>2, BatchFrame, ServerAssumption DEF InPool, TypeOK, NoSlot
  <2>4. Stations'
    BY <1>0, <2>1, <2>2, ServerAssumption DEF Owned, Stations, TypeOK
  <2>5. \A v \in Workers : request[v] # s
    BY <2>2 DEF Owned, Once
  <2>6. Once'
    BY <2>1, <2>2, <2>5 DEF Owned, Once, TypeOK
  <2>7. Placed'
    BY <1>0, <2>1, <2>3 DEF Owned, Placed, AtRest, InHand, Armed, TypeOK
  <2> QED
    BY <2>4, <2>6, <2>7 DEF Owned
<1>2. CASE Process(w)
  <2>1. /\ UNCHANGED <<file, interest, batch, sockfd, queue, request, cur>>
        /\ pc[w] = "process"
        /\ \E l \in {"process", "rearm_in", "rearm_out"} : pc' = [pc EXCEPT ![w] = l]
    BY <1>0, <1>2 DEF Process, Goto, At, kernel, conns, NoRefuse, TypeOK
  <2>2. Stations'
    <3>1. PICK l \in {"process", "rearm_in", "rearm_out"} : pc' = [pc EXCEPT ![w] = l]
      BY <2>1
    <3> QED
      BY <1>0, <2>1, <3>1, ServerAssumption DEF Owned, Stations, TypeOK
  <2>3. Once'
    BY <2>1, PoolFrame DEF Owned, Once
  <2>4. pc'[Main] = pc[Main]
    BY <1>0, <2>1 DEF TypeOK
  <2>5. Placed'
    BY <2>1, <2>4, PoolFrame, BatchFrame DEF Owned, Placed, AtRest, InHand, Armed
  <2> QED
    BY <2>2, <2>3, <2>5 DEF Owned
<1>3. CASE Rearm(w)
  <2> DEFINE s == request[w]
  <2>1. /\ pc[w] \in {"rearm_in", "rearm_out"} /\ pc' = [pc EXCEPT ![w] = "idle"]
        /\ request' = [request EXCEPT ![w] = NoSlot]
        /\ UNCHANGED <<file, batch, sockfd, queue, cur>>
        /\ \E ev \in {"in", "out"} : Modfd(s, ev)
    BY <1>3 DEF Rearm, Goto, At, conns
  <2>2. s \in Fds /\ InPool(s) /\ s # NoSlot
    BY <2>1, ServerAssumption DEF Owned, Stations, TypeOK, Slots, InPool
  <2>3. cur # s /\ AtRest(s)
    BY <2>2 DEF Owned, Placed, InHand
  <2>4. PICK ev \in {"in", "out"} : interest' = [interest EXCEPT ![s] = ev]
    BY <2>1, <2>2, <2>3 DEF Modfd, Arm, AtRest
  <2>5. \A g \in Fds : (InPool(g)' <=> InPool(g) /\ g # s) /\ (Reported(g)' <=> Reported(g))
    <3>1. \A x : (Queued(x)' <=> Queued(x)) /\ (Reported(x)' <=> Reported(x))
      BY <2>1, BatchFrame DEF Queued
    <3>2. ~Queued(s) /\ \A v \in Workers : v # w => request[v] # s
      BY <2>2 DEF Owned, Once
    <3> QED
      BY <2>1, <2>2, <3>1, <3>2, ServerAssumption DEF InPool, TypeOK, NoSlot
  <2>6. Stations'
    BY <1>0, <2>1, ServerAssumption DEF Owned, Stations, TypeOK
  <2>7. Once'
    <3>1. \A x : Queued(x)' <=> Queued(x)
      BY <2>1 DEF Queued
    <3>2. ~Queued(NoSlot)
      BY ServerAssumption DEF Queued, TypeOK, NoSlot, Slots
    <3> QED
      BY <2>1, <3>1, <3>2 DEF Owned, Once, TypeOK
  <2>8. pc'[Main] = pc[Main]
    BY <1>0, <2>1 DEF TypeOK
  <2>9. ASSUME NEW g \in Fds, cur # g PROVE AtRest(g)'
    <3>1. AtRest(g)
      BY <2>9 DEF Owned, Placed
    <3> QED
      BY <2>1, <2>2, <2>3, <2>4, <2>5, <3>1 DEF AtRest, TypeOK
  <2>10. ASSUME NEW g \in Fds, cur = g PROVE InHand(g)'
    <3>1. InHand(g) /\ g # s
      BY <2>3, <2>10 DEF Owned, Placed
    <3> QED
      BY <2>1, <2>4, <2>5, <2>8, <3>1 DEF InHand, Armed, TypeOK
  <2> QED
    BY <2>1, <2>6, <2>7, <2>9, <2>10 DEF Owned, Placed
<1>4. CASE CloseConn(w)
  BY <1>0, <1>4 DEF CloseConn, CloseSkip, CloseRemove, CloseForget, DecLoad, DecStore, Goto, At
<1> QED
  BY <1>1, <1>2, <1>3, <1>4 DEF WorkerStep

(* Owned is inductive together with the types. *)
LEMMA OwnedInvariant == ASSUME NoRefuse PROVE Spec => [](Typed /\ Owned)
<1>1. Init => Typed /\ Owned
  BY InitTypes, InitOwned
<1>2. Typed /\ Owned /\ [Next]_vars => Typed' /\ Owned'
  <2> SUFFICES ASSUME Typed, Owned, [Next]_vars PROVE Typed' /\ Owned'
    OBVIOUS
  <2>1. Typed' /\ TypeOK
    BY NextTypes DEF Typed
  <2>2. ASSUME MainStep, ~OutOfUsers PROVE Owned'
    BY <2>1, <2>2, EpollOwned, AcceptOwned, AcceptFailsOwned, HangUpOwned, ReadableOwned,
       WritableOwned, HandOwned, CloseOwned DEF MainStep
  <2>3. CASE OutOfUsers \/ UNCHANGED vars
    <3>1. UNCHANGED <<file, interest, batch, sockfd, queue, request, cur, pc>>
      BY <2>3 DEF OutOfUsers, vars, kernel, conns
    <3>2. Stations' /\ Once'
      BY <3>1, PoolFrame DEF Owned, Stations, Once
    <3>3. Placed'
      BY <3>1, PoolFrame, BatchFrame DEF Owned, Placed, AtRest, InHand, Armed
    <3> QED
      BY <2>1, <3>2, <3>3 DEF Owned
  <2> QED
    BY <2>1, <2>2, <2>3, ClientOwned, WorkerOwned DEF Next
<1> QED
  BY <1>1, <1>2, PTL DEF Spec

(* A connection has one owner at a time, so that no two threads ever work   *)
(* on one http_conn, provided that the services never make process_write    *)
(* fail (http_conn.cpp line 406 closes the connection on the worker).       *)
THEOREM SingleOwner == ASSUME NoRefuse PROVE Spec => []OneOwner
BY OwnedInvariant, OwnedSuffices, PTL DEF Typed

(* Under the same condition no open connection is forgotten. *)
THEOREM NoConnectionForgotten == ASSUME NoRefuse PROVE Spec => []NoOrphan
BY OwnedInvariant, OwnedSuffices, PTL DEF Typed
------------------------------------------------------------------------------
(* The count of users *)

(* m_user_count lags behind the descriptors while the main thread is in     *)
(* init or close_conn, by one, and the value it loaded is still current.    *)
Lag == IF pc[Main] \in {"admit", "addfd", "inc_load", "inc_store"} THEN -1
       ELSE IF pc[Main] \in {"forget", "dec_load", "dec_store"} THEN 1 ELSE 0

Counted == /\ userCount = Cardinality(OpenFds) + Lag
           /\ pc[Main] \in {"inc_store", "dec_store"} => reg[Main] = userCount

(* There are finitely many descriptors to count. *)
LEMMA OpenFinite ==
  /\ IsFiniteSet(OpenFds) /\ Cardinality(OpenFds) \in Nat
  /\ IsFiniteSet(OpenFds') /\ Cardinality(OpenFds') \in Nat
<1>1. OpenFds \subseteq Fds /\ OpenFds' \subseteq Fds
  BY DEF OpenFds
<1> QED
  BY <1>1, ServerAssumption, FS_Subset, FS_CardinalityType

(* A descriptor opened or closed changes the number of open ones by one. *)
LEMMA OpenOne ==
  ASSUME TypeOK, NEW f \in Fds, NEW c \in Clients, file[f] = NoClient,
         file' = [file EXCEPT ![f] = c]
  PROVE  Cardinality(OpenFds') = Cardinality(OpenFds) + 1
<1>1. OpenFds' = OpenFds \cup {f} /\ f \notin OpenFds
  BY ServerAssumption DEF OpenFds, TypeOK
<1> QED
  BY <1>1, OpenFinite, FS_AddElement

(* See OpenOne. *)
LEMMA CloseOne ==
  ASSUME TypeOK, NEW f \in Fds, file[f] # NoClient, file' = [file EXCEPT ![f] = NoClient]
  PROVE  Cardinality(OpenFds') = Cardinality(OpenFds) - 1
<1>1. OpenFds' = OpenFds \ {f} /\ f \in OpenFds
  BY DEF OpenFds, TypeOK
<1> QED
  BY <1>1, OpenFinite, FS_RemoveElement

(* Steps that neither open, close nor count leave the balance as it is. *)
LEMMA CountFrame ==
  ASSUME Counted, file' = file, userCount' = userCount, Lag' = Lag,
         pc'[Main] \in {"inc_store", "dec_store"} => pc'[Main] = pc[Main] /\ reg' = reg
  PROVE  Counted'
<1>1. OpenFds' = OpenFds
  BY DEF OpenFds
<1> QED
  BY <1>1 DEF Counted

(* The main thread counts what it opens and closes. *)
LEMMA MainCounted == ASSUME TypeOK, Owned, Counted, MainStep, ~OutOfUsers PROVE Counted'
<1> USE ServerAssumption, OpenFinite DEF Goto, At, Threads, conns, kernel, AfterEvent
<1>0. Main \in DOMAIN pc /\ userCount \in Int /\ Lag \in Int
  BY DEF TypeOK, Lag
<1>1. CASE EpollWait
  <2>1. Lag' = Lag /\ pc'[Main] = "dispatch" /\ UNCHANGED <<file, userCount>>
    BY <1>0, <1>1 DEF EpollWait, Lag
  <2> QED
    BY <2>1, CountFrame
<1>2. ASSUME NEW e \in batch, Accept(e) PROVE Counted'
  <2>1. PICK f \in FreeFds : file' = [file EXCEPT ![f] = Head(backlog)]
    BY <1>2 DEF Accept
  <2>2. /\ Head(backlog) \in Clients /\ pc[Main] = "dispatch" /\ pc'[Main] = "admit"
        /\ userCount' = userCount
    BY <1>0, <1>2 DEF Accept, Dispatch, TypeOK
  <2>3. Cardinality(OpenFds') = Cardinality(OpenFds) + 1
    BY <2>1, <2>2, OpenOne DEF FreeFds
  <2>4. Lag = 0 /\ Lag' = -1
    BY <2>2 DEF Lag
  <2> QED
    BY <1>0, <2>2, <2>3, <2>4 DEF Counted
<1>3. ASSUME NEW e \in batch, \/ AcceptFails(e) \/ OnHangUp(e) \/ OnReadable(e) \/ OnWritable(e)
      PROVE Counted'
  <2>1. pc[Main] = "dispatch" /\ pc'[Main] \in {"wait", "dispatch", "close"}
        /\ UNCHANGED <<file, userCount>>
    BY <1>0, <1>3 DEF AcceptFails, OnHangUp, OnReadable, OnWritable, Dispatch, EventDone
  <2>2. Lag' = Lag
    BY <2>1 DEF Lag
  <2> QED
    BY <2>1, <2>2, CountFrame
<1>4. CASE RejectBusy
  <2>1. /\ cur \in Fds /\ file[cur] # NoClient /\ pc[Main] = "admit"
        /\ pc'[Main] \in {"wait", "dispatch"} /\ userCount' = userCount
        /\ file' = [file EXCEPT ![cur] = NoClient]
    BY <1>0, <1>4, HandFacts DEF RejectBusy, CloseFile, InHand
  <2>2. Cardinality(OpenFds') = Cardinality(OpenFds) - 1
    BY <2>1, CloseOne
  <2>3. Lag = -1 /\ Lag' = 0
    BY <2>1 DEF Lag
  <2> QED
    BY <1>0, <2>1, <2>2, <2>3 DEF Counted
<1>5. CASE InitConn \/ AddFd
  <2>1. /\ pc[Main] \in {"admit", "addfd"} /\ pc'[Main] \in {"addfd", "inc_load"}
        /\ UNCHANGED <<file, userCount>>
    BY <1>0, <1>5 DEF InitConn, AddFd
  <2>2. Lag' = Lag
    BY <2>1 DEF Lag
  <2> QED
    BY <2>1, <2>2, CountFrame
<1>6. CASE IncLoad \/ DecLoad(Main)
  <2>1. /\ \/ pc[Main] = "inc_load" /\ pc'[Main] = "inc_store"
           \/ pc[Main] = "dec_load" /\ pc'[Main] = "dec_store"
        /\ reg'[Main] = userCount
        /\ UNCHANGED <<file, userCount>>
    BY <1>0, <1>6 DEF IncLoad, DecLoad, TypeOK
  <2>2. Lag' = Lag /\ OpenFds' = OpenFds
    BY <2>1 DEF Lag, OpenFds
  <2> QED
    BY <2>1, <2>2 DEF Counted
<1>7. CASE IncStore
  <2>1. /\ pc[Main] = "inc_store" /\ pc'[Main] \in {"wait", "dispatch"}
        /\ userCount' = userCount + 1 /\ file' = file
    BY <1>0, <1>7 DEF IncStore, Counted
  <2>2. Lag = -1 /\ Lag' = 0 /\ OpenFds' = OpenFds
    BY <2>1 DEF Lag, OpenFds
  <2> QED
    BY <1>0, <2>1, <2>2 DEF Counted
<1>8. CASE CloseSkip(Main) \/ CloseForget(Main)
  <2>1. /\ pc[Main] = "forget" /\ pc'[Main] = "dec_load"
        /\ UNCHANGED <<file, userCount>>
    BY <1>0, <1>8, HandFacts DEF CloseSkip, CloseForget, InHand, Slot
  <2>2. Lag' = Lag
    BY <2>1 DEF Lag
  <2> QED
    BY <2>1, <2>2, CountFrame
<1>9. CASE CloseRemove(Main)
  <2>1. /\ cur \in Fds /\ file[cur] # NoClient /\ pc[Main] = "close" /\ pc'[Main] = "forget"
        /\ userCount' = userCount /\ file' = [file EXCEPT ![cur] = NoClient]
    BY <1>0, <1>9, HandFacts DEF CloseRemove, CloseFile, InHand, Slot
  <2>2. Cardinality(OpenFds') = Cardinality(OpenFds) - 1
    BY <2>1, CloseOne
  <2>3. Lag = 0 /\ Lag' = 1
    BY <2>1 DEF Lag
  <2> QED
    BY <1>0, <2>1, <2>2, <2>3 DEF Counted
<1>10. CASE DecStore(Main)
  <2>1. /\ pc[Main] = "dec_store" /\ pc'[Main] \in {"wait", "dispatch"}
        /\ userCount' = userCount - 1 /\ file' = file
    BY <1>0, <1>10 DEF DecStore, Counted, ClosedNext
  <2>2. Lag = 1 /\ Lag' = 0 /\ OpenFds' = OpenFds
    BY <2>1 DEF Lag, OpenFds
  <2> QED
    BY <1>0, <2>1, <2>2 DEF Counted
<1> QED
  BY <1>1, <1>2, <1>3, <1>4, <1>5, <1>6, <1>7, <1>8, <1>9, <1>10 DEF MainStep, CloseConn

(* Nobody else opens, closes or counts. *)
LEMMA OthersCounted ==
  ASSUME NoRefuse, TypeOK, Owned, Counted,
         \/ \E c \in Clients : ClientStep(c)
         \/ \E w \in Workers : WorkerStep(w)
         \/ OutOfUsers \/ UNCHANGED vars
  PROVE  Counted'
<1> USE ServerAssumption DEF Goto, At, Threads, conns, kernel
<1>1. UNCHANGED <<file, userCount, reg>> /\ pc'[Main] = pc[Main]
  <2>1. ASSUME NEW c \in Clients, ClientStep(c)
        PROVE  UNCHANGED <<file, userCount, reg>> /\ pc'[Main] = pc[Main]
    BY <2>1 DEF ClientStep, Connect, Send, HangUp
  <2>2. ASSUME NEW w \in Workers, WorkerStep(w)
        PROVE  UNCHANGED <<file, userCount, reg>> /\ pc'[Main] = pc[Main]
    <3>1. pc[w] \notin CloseLabels
      BY DEF Owned, Stations, CloseLabels
    <3> QED
      BY <2>2, <3>1 DEF WorkerStep, PopRequest, Process, Rearm, TypeOK, CloseConn, CloseSkip,
                        CloseRemove, CloseForget, DecLoad, DecStore, CloseLabels
  <2> QED
    BY <2>1, <2>2 DEF OutOfUsers, vars
<1>2. Lag' = Lag
  BY <1>1 DEF Lag
<1> QED
  BY <1>1, <1>2, CountFrame

(* The balance holds in every state.                                        *)
LEMMA CountInvariant == ASSUME NoRefuse PROVE Spec => [](Typed /\ Owned /\ Counted)
<1>1. Init => Counted
  <2> SUFFICES ASSUME Init PROVE Counted
    OBVIOUS
  <2>1. OpenFds = {} /\ Lag = 0 /\ userCount = 0 /\ pc[Main] = "wait"
    BY DEF Init, OpenFds, Lag, Threads
  <2> QED
    BY <2>1, FS_EmptySet DEF Counted
<1>2. Typed /\ Owned /\ Counted /\ [Next]_vars => Counted'
  BY MainCounted, OthersCounted DEF Typed, Next
<1> QED
  BY <1>1, <1>2, OwnedInvariant, PTL DEF Spec

(* While only the main thread closes connections, m_user_count is exact     *)
(* whenever nobody is in the middle of changing it (http_conn.cpp lines     *)
(* 44-68).                                                                  *)
THEOREM CountIsExact == ASSUME NoRefuse PROVE Spec => []UserCountExact
<1>1. Typed /\ Counted => UserCountExact
  <2> SUFFICES ASSUME Typed, Counted, Steady PROVE userCount = Cardinality(OpenFds)
    BY DEF UserCountExact
  <2>1. Lag = 0
    BY DEF Steady, Lag, Threads
  <2> QED
    BY <2>1, OpenFinite DEF Counted
<1> QED
  BY <1>1, CountInvariant, PTL
==============================================================================
