------------------------- MODULE EngineObjects_proofs -------------------------
(***************************************************************************)
(* The engine keeps the contract of Exchange with every connection object, *)
(* as long as no worker closes a connection, and its queue is bounded by   *)
(* the open connections.                                                   *)
(*                                                                         *)
(* Ownership (Owned) is nearly enough.  What it does not say is that a     *)
(* descriptor reported for reading has something to read (HasData), which  *)
(* takes that no two descriptors are the same client's (Attached), and     *)
(* that addfd arms for reading (Fresh).                                    *)
(***************************************************************************)
EXTENDS WebServer_proofs

(* A client waits in the backlog once, or has one open descriptor. *)
Attached ==
  /\ \A i \in DOMAIN backlog : peer[backlog[i]] = "pending"
  /\ \A i, j \in DOMAIN backlog : backlog[i] = backlog[j] => i = j
  /\ \A f \in Fds : file[f] # NoClient => peer[file[f]] = "open"
  /\ \A f, g \in Fds : file[f] = file[g] /\ file[f] # NoClient => f = g

(* What epoll reported readable is still unread. *)
HasData == \A e \in batch : e.fd \in Fds /\ e.ev = "in" =>
                            file[e.fd] # NoClient /\ rx[file[e.fd]] > 0

(* A connection being admitted waits for its first request. *)
Fresh == pc[Main] \in {"inc_load", "inc_store"} => interest[cur] = "in"

Whole == Typed /\ Owned /\ Attached /\ HasData /\ Fresh

------------------------------------------------------------------------------
(* Whole is inductive *)

(* close(2) frees the descriptor of one client. *)
LEMMA CloseFileAttached ==
  ASSUME TypeOK, Attached, NEW f \in Fds, CloseFile(f), backlog' = backlog
  PROVE  Attached'
<1>1. /\ peer' = [c \in Clients |-> IF file[f] = c THEN "closed" ELSE peer[c]]
      /\ file' = [file EXCEPT ![f] = NoClient]
  BY DEF CloseFile
<1>2. ASSUME NEW i \in DOMAIN backlog PROVE peer'[backlog[i]] = "pending"
  <2>1. backlog[i] \in Clients
    BY <1>2 DEF TypeOK
  <2>2. peer[backlog[i]] = "pending" /\ file[f] # backlog[i]
    BY <1>2, <2>1, ServerAssumption DEF Attached
  <2> QED
    BY <1>1, <2>1, <2>2
<1>3. ASSUME NEW g \in Fds, file'[g] # NoClient PROVE g # f /\ file'[g] = file[g] /\ peer'[file[g]] = "open"
  <2>1. g # f /\ file'[g] = file[g] /\ file[g] \in Clients /\ file[g] # file[f] /\ peer[file[g]] = "open"
    BY <1>1, <1>3 DEF TypeOK, Attached
  <2> QED
    BY <1>1, <2>1
<1>4. \A i, j \in DOMAIN backlog' : backlog'[i] = backlog'[j] => i = j
  BY DEF Attached
<1>5. \A i \in DOMAIN backlog' : peer'[backlog'[i]] = "pending"
  BY <1>2
<1>6. \A g \in Fds : file'[g] # NoClient => peer'[file'[g]] = "open"
  BY <1>3
<1>7. \A g, h \in Fds : file'[g] = file'[h] /\ file'[g] # NoClient => g = h
  BY <1>3 DEF Attached
<1> QED
  BY <1>4, <1>5, <1>6, <1>7 DEF Attached

(* A client that connects was nowhere before. *)
LEMMA ConnectAttached ==
  ASSUME TypeOK, Attached, NEW c \in Clients, Connect(c) PROVE Attached'
<1>1. /\ peer[c] = "new" /\ peer' = [peer EXCEPT ![c] = "pending"]
      /\ backlog' = Append(backlog, c) /\ file' = file
  BY DEF Connect
<1>2. /\ Len(backlog) \in Nat /\ DOMAIN backlog = 1 .. Len(backlog)
      /\ DOMAIN backlog' = 1 .. (Len(backlog) + 1)
      /\ \A i \in 1 .. Len(backlog) : backlog'[i] = backlog[i] /\ backlog[i] \in Clients
      /\ backlog'[Len(backlog) + 1] = c
  BY <1>1 DEF TypeOK
<1>3. \A i \in 1 .. Len(backlog) : backlog[i] # c /\ peer[backlog[i]] = "pending"
  BY <1>1, <1>2 DEF Attached
<1>4. \A i \in DOMAIN backlog' : peer'[backlog'[i]] = "pending"
  BY <1>1, <1>2, <1>3 DEF TypeOK
<1>5. \A i, j \in DOMAIN backlog' : backlog'[i] = backlog'[j] => i = j
  BY <1>2, <1>3 DEF Attached
<1>6. \A f \in Fds : file[f] # NoClient => file[f] \in Clients /\ file[f] # c /\ peer'[file[f]] = "open"
  BY <1>1 DEF TypeOK, Attached
<1> QED
  BY <1>1, <1>4, <1>5, <1>6 DEF Attached

(* accept moves the oldest client from the backlog to a descriptor. *)
LEMMA AcceptAttached ==
  ASSUME TypeOK, Attached, NEW e \in batch, Accept(e) PROVE Attached'
<1> DEFINE c == Head(backlog)
<1>1. PICK f \in FreeFds : file' = [file EXCEPT ![f] = c]
  BY DEF Accept
<1>2. /\ peer' = [peer EXCEPT ![c] = "open"] /\ backlog' = Tail(backlog) /\ backlog # <<>>
      /\ backlog \in Seq(Clients) /\ f \in Fds /\ file[f] = NoClient
  BY DEF Accept, TypeOK, FreeFds
<1>3. /\ Len(backlog) \in Nat \ {0} /\ DOMAIN backlog = 1 .. Len(backlog)
      /\ DOMAIN backlog' = 1 .. (Len(backlog) - 1)
      /\ \A i \in 1 .. (Len(backlog) - 1) : backlog'[i] = backlog[i + 1] /\ i + 1 \in DOMAIN backlog
      /\ c = backlog[1] /\ 1 \in DOMAIN backlog
      /\ \A i \in DOMAIN backlog : backlog[i] \in Clients
  BY <1>2
<1> HIDE DEF c
<1>4. c \in Clients /\ peer[c] = "pending"
  BY <1>3 DEF Attached
<1>5. ASSUME NEW i \in DOMAIN backlog' PROVE peer'[backlog'[i]] = "pending"
  <2>1. i + 1 # 1 /\ i + 1 \in DOMAIN backlog /\ backlog'[i] = backlog[i + 1]
    BY <1>3
  <2>2. backlog[i + 1] # c
    BY <1>3, <2>1 DEF Attached
  <2>3. peer[backlog[i + 1]] = "pending" /\ backlog[i + 1] \in Clients
    BY <1>3, <2>1 DEF Attached
  <2> QED
    BY <1>2, <2>1, <2>2, <2>3 DEF TypeOK
<1>6. ASSUME NEW i \in DOMAIN backlog', NEW j \in DOMAIN backlog', backlog'[i] = backlog'[j]
      PROVE  i = j
  <2>1. /\ i + 1 \in DOMAIN backlog /\ j + 1 \in DOMAIN backlog
        /\ backlog[i + 1] = backlog[j + 1]
    BY <1>3, <1>6
  <2>2. i + 1 = j + 1
    BY <2>1 DEF Attached
  <2> QED
    BY <1>3, <2>2
<1>7. \A g \in Fds : file[g] # c
  BY <1>4, ServerAssumption DEF Attached
<1>8. ASSUME NEW g \in Fds, file'[g] # NoClient PROVE peer'[file'[g]] = "open"
  <2>1. CASE g = f
    BY <1>1, <1>2, <1>4, <2>1 DEF TypeOK
  <2>2. CASE g # f
    <3>1. file'[g] = file[g] /\ file[g] # c /\ peer[file[g]] = "open"
      BY <1>1, <1>7, <1>8, <2>2 DEF TypeOK, Attached
    <3> QED
      BY <1>2, <3>1 DEF TypeOK
  <2> QED
    BY <2>1, <2>2
<1>9. ASSUME NEW g \in Fds, NEW h \in Fds, file'[g] = file'[h], file'[g] # NoClient PROVE g = h
  BY <1>1, <1>2, <1>7, <1>9 DEF TypeOK, Attached
<1> QED
  BY <1>5, <1>6, <1>8, <1>9 DEF Attached

(* Nothing else connects, accepts or closes. *)
LEMMA AttachedStep ==
  ASSUME NoRefuse, TypeOK, Owned, Attached, [Next]_vars PROVE Attached'
<1>1. ASSUME UNCHANGED <<peer, backlog, file>> PROVE Attached'
  BY <1>1 DEF Attached
<1>2. ASSUME NEW c \in Clients, ClientStep(c) PROVE Attached'
  BY <1>1, <1>2, ConnectAttached DEF ClientStep, Send, HangUp
<1>3. ASSUME MainStep PROVE Attached'
  <2>1. CASE RejectBusy
    BY <2>1, HandFacts, CloseFileAttached DEF RejectBusy, At
  <2>2. CASE CloseRemove(Main)
    <3>1. CASE sockfd[cur] \in Fds
      BY <2>2, <3>1, CloseFileAttached DEF CloseRemove, Slot
    <3>2. CASE sockfd[cur] \notin Fds
      BY <1>1, <2>2, <3>2 DEF CloseRemove, Slot
    <3> QED
      BY <3>1, <3>2
  <2>3. CASE \/ EpollWait \/ OutOfUsers \/ InitConn \/ AddFd \/ IncLoad \/ IncStore
             \/ CloseSkip(Main) \/ CloseForget(Main) \/ DecLoad(Main) \/ DecStore(Main)
             \/ \E e \in batch : AcceptFails(e) \/ OnHangUp(e) \/ OnReadable(e) \/ OnWritable(e)
    BY <1>1, <2>3
       DEF EpollWait, OutOfUsers, InitConn, AddFd, IncLoad, IncStore, CloseSkip, CloseForget,
           DecLoad, DecStore, AcceptFails, OnHangUp, OnReadable, OnWritable, kernel
  <2> QED
    BY <1>3, <2>1, <2>2, <2>3, AcceptAttached DEF MainStep, CloseConn
<1>4. ASSUME NEW w \in Workers, WorkerStep(w) PROVE Attached'
  <2>1. pc[w] \notin CloseLabels
    BY DEF Owned, Stations, CloseLabels
  <2> QED
    BY <1>1, <1>4, <2>1
       DEF WorkerStep, PopRequest, Process, Rearm, CloseConn, CloseSkip, CloseRemove, CloseForget,
           DecLoad, DecStore, Goto, At, CloseLabels, kernel
<1>5. CASE UNCHANGED vars
  BY <1>1, <1>5 DEF vars, kernel
<1> QED
  BY <1>2, <1>3, <1>4, <1>5 DEF Next

(* What a connection's client has left unread is a number of pieces. *)
LEMMA UnreadOf ==
  ASSUME TypeOK, NEW f \in Fds, file[f] # NoClient
  PROVE  file[f] \in Clients /\ rx[file[f]] \in Nat
<1>1. file \in [Fds -> Clients \cup {NoClient}] /\ rx \in [Clients -> 0 .. Window]
  BY DEF TypeOK
<1>2. file[f] \in Clients
  BY <1>1
<1>3. rx[file[f]] \in 0 .. Window
  BY <1>1, <1>2
<1> QED
  BY <1>2, <1>3, ServerAssumption

(* A step that leaves the files alone, reads nothing and reports nothing    *)
(* new leaves something to read.                                            *)
LEMMA HasDataFrame ==
  ASSUME TypeOK, HasData, file' = file, batch' \subseteq batch,
         \A c \in Clients : rx'[c] \in Int /\ rx'[c] >= rx[c]
  PROVE  HasData'
<1> SUFFICES ASSUME NEW e \in batch', e.fd \in Fds, e.ev = "in"
             PROVE  file[e.fd] # NoClient /\ rx'[file[e.fd]] > 0
  BY DEF HasData
<1>1. file[e.fd] # NoClient /\ rx[file[e.fd]] > 0
  BY DEF HasData
<1>2. file[e.fd] \in Clients /\ rx[file[e.fd]] \in Int
  BY <1>1, UnreadOf
<1> QED
  BY <1>1, <1>2

(* The main thread reads a client's data when it handles the event that      *)
(* reported it, and reports no other of that client's.                       *)
LEMMA MainHasData ==
  ASSUME TypeOK, TypeOK', Owned, Attached, HasData, MainStep PROVE HasData'
<1>0. \A c \in Clients : rx[c] \in Int /\ rx'[c] \in Int
  BY ServerAssumption DEF TypeOK
<1>1. ASSUME UNCHANGED <<rx, file>>, batch' \subseteq batch PROVE HasData'
  BY <1>0, <1>1, HasDataFrame
<1>2. CASE EpollWait
  <2>1. UNCHANGED <<rx, file>>
    BY <1>2 DEF EpollWait
  <2>2. ASSUME NEW e \in batch', e.fd \in Fds, e.ev = "in"
        PROVE  file[e.fd] # NoClient /\ rx[file[e.fd]] # 0
    BY <1>2, <2>2, ServerAssumption DEF EpollWait, Revents
  <2>3. ASSUME NEW e \in batch', e.fd \in Fds, e.ev = "in" PROVE rx[file[e.fd]] > 0
    <3>1. rx[file[e.fd]] \in Nat
      BY <2>2, <2>3, UnreadOf
    <3> QED
      BY <3>1, <2>2, <2>3
  <2> QED
    BY <2>1, <2>2, <2>3 DEF HasData
<1>3. ASSUME NEW e \in batch, Accept(e) PROVE HasData'
  <2>1. PICK f \in FreeFds : file' = [file EXCEPT ![f] = Head(backlog)]
    BY <1>3 DEF Accept
  <2>2. batch' \subseteq batch /\ rx' = rx /\ file[f] = NoClient
    BY <1>3, <2>1 DEF Accept, Dispatch, FreeFds
  <2>3. ASSUME NEW d \in batch', d.fd \in Fds, d.ev = "in"
        PROVE  d.fd # f /\ file'[d.fd] = file[d.fd]
    BY <2>1, <2>2, <2>3 DEF HasData, TypeOK
  <2> QED
    BY <2>2, <2>3 DEF HasData
<1>4. ASSUME NEW e \in batch, OnReadable(e) PROVE HasData'
  <2>1. /\ batch' \subseteq batch /\ file' = file /\ sockfd[e.fd] = e.fd /\ e.fd \in Fds
        /\ \A d \in batch' : d.fd # e.fd
    <3>1. Dispatch(e) /\ e.fd # Listen /\ file' = file
      BY <1>4 DEF OnReadable
    <3> QED
      BY <3>1, EventFacts DEF Dispatch, Owned, Once
  <2>2. PeerOf(e.fd) = file[e.fd]
    BY <2>1 DEF PeerOf
  <2>3. rx' = [c \in Clients |-> IF PeerOf(e.fd) = c THEN rx[c] - Pieces(e.fd) ELSE rx[c]]
    BY <1>4 DEF OnReadable, Receive
  <2>4. ASSUME NEW d \in batch', d.fd \in Fds, d.ev = "in"
        PROVE  file[d.fd] # NoClient /\ rx'[file[d.fd]] > 0
    <3>1. d.fd # e.fd /\ file[d.fd] # NoClient /\ rx[file[d.fd]] > 0
      BY <2>1, <2>4 DEF HasData
    <3>2. file[d.fd] # file[e.fd] /\ file[d.fd] \in Clients
      BY <2>1, <2>4, <3>1 DEF Attached, TypeOK
    <3> QED
      BY <2>2, <2>3, <3>1, <3>2
  <2> QED
    BY <2>1, <2>4 DEF HasData
<1>5. CASE RejectBusy \/ CloseRemove(Main)
  <2>1. /\ pc[Main] \notin {"wait", "dispatch"} /\ batch' = batch /\ rx' = rx
        /\ cur \in Fds /\ ~Reported(cur)
    BY <1>5, HandFacts DEF RejectBusy, CloseRemove, Goto, At, InHand
  <2>2. \A f \in Fds : f # cur => file'[f] = file[f]
    <3>1. CASE RejectBusy
      BY <3>1, <2>1 DEF RejectBusy, CloseFile, TypeOK
    <3>2. CASE CloseRemove(Main)
      <4>1. sockfd[cur] = cur
        BY <2>1, <3>2, HandFacts DEF CloseRemove, Goto, At, InHand
      <4> QED
        BY <2>1, <3>2, <4>1 DEF CloseRemove, CloseFile, Slot, TypeOK
    <3> QED
      BY <1>5, <3>1, <3>2
  <2>3. \A e \in batch : e.fd # cur
    BY <2>1 DEF Reported
  <2> QED
    BY <2>1, <2>2, <2>3 DEF HasData
<1>6. CASE \/ OutOfUsers \/ InitConn \/ AddFd \/ IncLoad \/ IncStore
           \/ CloseSkip(Main) \/ CloseForget(Main) \/ DecLoad(Main) \/ DecStore(Main)
           \/ \E e \in batch : AcceptFails(e) \/ OnHangUp(e) \/ OnWritable(e)
  <2>1. UNCHANGED <<rx, file>> /\ batch' \subseteq batch
    BY <1>6
       DEF OutOfUsers, InitConn, AddFd, IncLoad, IncStore, CloseSkip, CloseForget, DecLoad, DecStore,
           AcceptFails, OnHangUp, OnWritable, kernel, Dispatch
  <2> QED
    BY <1>1, <2>1
<1> QED
  BY <1>2, <1>3, <1>4, <1>5, <1>6 DEF MainStep, CloseConn

(* Nobody else reads. *)
LEMMA OthersHasData ==
  ASSUME NoRefuse, TypeOK, TypeOK', Owned, HasData,
         \/ \E c \in Clients : ClientStep(c)
         \/ \E w \in Workers : WorkerStep(w)
         \/ UNCHANGED vars
  PROVE  HasData'
<1>0. \A c \in Clients : rx[c] \in Int /\ rx'[c] \in Int
  BY ServerAssumption DEF TypeOK
<1>1. ASSUME UNCHANGED <<rx, file, batch>> PROVE HasData'
  BY <1>0, <1>1, HasDataFrame
<1>2. ASSUME NEW c \in Clients, ClientStep(c) PROVE HasData'
  <2>1. CASE Send(c)
    <3>1. \A d \in Clients : rx'[d] >= rx[d]
      BY <1>0, <2>1 DEF Send, TypeOK
    <3> QED
      BY <1>0, <2>1, <3>1, HasDataFrame DEF Send
  <2> QED
    BY <1>1, <1>2, <2>1 DEF ClientStep, Connect, HangUp
<1>3. ASSUME NEW w \in Workers, WorkerStep(w) PROVE HasData'
  <2>1. pc[w] \notin CloseLabels
    BY DEF Owned, Stations, CloseLabels
  <2> QED
    BY <1>1, <1>3, <2>1
       DEF WorkerStep, PopRequest, Process, Rearm, CloseConn, CloseSkip, CloseRemove, CloseForget,
           DecLoad, DecStore, Goto, At, CloseLabels, kernel
<1>4. CASE UNCHANGED vars
  BY <1>1, <1>4 DEF vars, kernel
<1> QED
  BY <1>2, <1>3, <1>4

(* addfd arms for EPOLLIN, and until the count is done only the workers arm  *)
(* descriptors, their own.                                                   *)
LEMMA FreshStep ==
  ASSUME NoRefuse, TypeOK, Owned, Fresh, [Next]_vars PROVE Fresh'
<1> USE ServerAssumption DEF Goto, At, Threads
<1>1. ASSUME UNCHANGED <<interest, cur>>, pc'[Main] = pc[Main] PROVE Fresh'
  BY <1>1 DEF Fresh
<1>2. ASSUME NEW c \in Clients, ClientStep(c) PROVE Fresh'
  BY <1>1, <1>2 DEF ClientStep, Connect, Send, HangUp
<1>3. ASSUME NEW w \in Workers, WorkerStep(w) PROVE Fresh'
  <2>1. pc[w] \notin CloseLabels /\ w # Main
    BY DEF Owned, Stations, CloseLabels
  <2>2. CASE PopRequest(w) \/ Process(w)
    BY <1>1, <2>1, <2>2 DEF PopRequest, Process, kernel, TypeOK
  <2>3. CASE Rearm(w)
    <3>1. /\ pc[w] \in {"rearm_in", "rearm_out"} /\ pc'[Main] = pc[Main] /\ cur' = cur
          /\ \E ev \in {"in", "out"} : Modfd(request[w], ev)
      BY <2>1, <2>3 DEF Rearm, TypeOK
    <3>2. request[w] \in Fds /\ InPool(request[w])
      BY <3>1 DEF Owned, Stations, TypeOK, Slots, InPool
    <3>3. cur # request[w] /\ sockfd[request[w]] = request[w]
      BY <3>2 DEF Owned, Placed, InHand, AtRest
    <3>4. \A f \in Fds : f # request[w] => interest'[f] = interest[f]
      BY <3>1, <3>2, <3>3 DEF Modfd, Arm, TypeOK
    <3>5. pc[Main] \in {"inc_load", "inc_store"} => cur \in Fds
      BY HandFacts
    <3> QED
      BY <3>1, <3>3, <3>4, <3>5 DEF Fresh
  <2>4. CASE CloseConn(w)
    BY <2>1, <2>4
       DEF CloseConn, CloseSkip, CloseRemove, CloseForget, DecLoad, DecStore, CloseLabels
  <2> QED
    BY <1>3, <2>2, <2>3, <2>4 DEF WorkerStep
<1>4. CASE MainStep
  <2>1. CASE AddFd
    <3>1. interest'[cur] = "in" /\ cur' = cur
      BY <2>1, HandFacts DEF AddFd, Arm, TypeOK
    <3> QED
      BY <3>1 DEF Fresh
  <2>2. CASE IncLoad
    <3>1. UNCHANGED <<interest, cur>> /\ pc[Main] = "inc_load"
      BY <2>2 DEF IncLoad, kernel
    <3> QED
      BY <3>1 DEF Fresh
  <2>3. CASE ~(AddFd \/ IncLoad)
    <3>1. pc'[Main] \notin {"inc_load", "inc_store"}
      BY <1>4, <2>3
         DEF MainStep, EpollWait, Accept, AcceptFails, OnHangUp, OnReadable, OnWritable, RejectBusy,
             OutOfUsers, InitConn, IncStore, CloseConn, CloseSkip, CloseRemove, CloseForget, DecLoad, DecStore,
             ClosedNext, AfterEvent, EventDone, TypeOK
    <3> QED
      BY <3>1 DEF Fresh
  <2> QED
    BY <2>1, <2>2, <2>3
<1>5. CASE UNCHANGED vars
  BY <1>1, <1>5 DEF vars, kernel
<1> QED
  BY <1>2, <1>3, <1>4, <1>5 DEF Next

(* Whole is inductive. *)
LEMMA WholeInvariant == ASSUME NoRefuse PROVE Spec => []Whole
<1>1. Init => Attached /\ HasData /\ Fresh
  BY ServerAssumption DEF Init, Attached, HasData, Fresh, Threads
<1>2. Typed /\ Owned /\ Typed' /\ Attached /\ HasData /\ Fresh /\ [Next]_vars
        => Attached' /\ HasData' /\ Fresh'
  <2> SUFFICES ASSUME Typed, Owned, Typed', Attached, HasData, Fresh, [Next]_vars
               PROVE  Attached' /\ HasData' /\ Fresh'
    OBVIOUS
  <2>1. TypeOK /\ TypeOK'
    BY DEF Typed
  <2> QED
    BY <2>1, AttachedStep, MainHasData, OthersHasData, FreshStep DEF Next
<1> QED
  BY <1>1, <1>2, OwnedInvariant, PTL DEF Spec, Whole

------------------------------------------------------------------------------
(* Every step is one of the contract's, or none, for every object *)

Keeps(s) == UNCHANGED Object(s)!vars \/ Object(s)!Next

Moves(s, from, to) == Stage(s) = from /\ Stage(s)' = to

(* The steps of the contract, said of the engine's variables. *)
LEMMA MoveKeeps ==
  ASSUME NEW s \in Slots, up, up',
         \/ Stage(s)' = Stage(s) /\ readIdx'[s] = readIdx[s]
         \/ Moves(s, "closed", "armed") /\ readIdx'[s] = 0
         \/ Moves(s, "armed", "working") /\ readIdx'[s] \in readIdx[s] + 1 .. BufferSize - 1
         \/ /\ Moves(s, "armed", "closed") \/ Moves(s, "writing", "closed")
            /\ readIdx'[s] \in readIdx[s] .. BufferSize
         \/ /\ Moves(s, "working", "armed") \/ Moves(s, "working", "writing")
            /\ readIdx'[s] = readIdx[s]
         \/ Moves(s, "writing", "armed") /\ readIdx'[s] = 0
  PROVE  Keeps(s)
<1>1. Alive(s) = TRUE /\ Alive(s)' = TRUE
  BY DEF Alive
<1> QED
  BY <1>1
     DEF Keeps, Moves, Object!vars, Object!Next, Object!Open, Object!Read, Object!Drop, Object!More,
         Object!Respond, Object!Write, Object!Goto

(* What a stage depends on. *)
LEMMA StageFrame ==
  ASSUME NEW s \in Slots, InPool(s)' <=> InPool(s), cur' = s <=> cur = s,
         file'[s] = file[s], interest'[s] = interest[s],
         \A ev : [fd |-> s, ev |-> ev] \in batch' <=> [fd |-> s, ev |-> ev] \in batch
  PROVE  Stage(s)' = Stage(s)
BY DEF Stage

(* The death of the process is a crash of the objects that workers are      *)
(* processing, and nothing to the others.                                   *)
LEMMA FallKeeps ==
  ASSUME NEW s \in Slots, up,
         UNCHANGED <<file, interest, batch, readIdx, queue, request, cur, pc>>
  PROVE  Keeps(s)
<1>1. Stage(s)' = Stage(s)
  BY PoolFrame, StageFrame
<1>2. Alive(s) = TRUE /\ Alive(s)' \in BOOLEAN
  BY DEF Alive
<1>3. CASE Alive(s)' = TRUE
  BY <1>1, <1>2, <1>3 DEF Keeps, Object!vars
<1>4. CASE Alive(s)' = FALSE
  <2>1. InPool(s)
    BY <1>4 DEF Alive, InPool
  <2>2. Stage(s) = "working" /\ Stage(s)' = "working"
    BY <1>1, <2>1 DEF Stage
  <2> QED
    BY <1>2, <1>4, <2>2 DEF Keeps, Object!Next, Object!Crash, Object!Goto
<1> QED
  BY <1>2, <1>3, <1>4

(* Handling one event leaves the other connections' events. *)
LEMMA OtherEvents ==
  ASSUME TypeOK, NEW e, Dispatch(e), NEW s, s # e.fd
  PROVE  \A ev : [fd |-> s, ev |-> ev] \in batch' <=> [fd |-> s, ev |-> ev] \in batch
BY DEF Dispatch

(* An event is its descriptor's only one. *)
LEMMA OneEvent ==
  ASSUME TypeOK, Owned, NEW e, Dispatch(e)
  PROVE  /\ e = [fd |-> e.fd, ev |-> e.ev]
         /\ \A ev : [fd |-> e.fd, ev |-> ev] \in batch => ev = e.ev
         /\ \A ev : [fd |-> e.fd, ev |-> ev] \notin batch'
<1>1. e \in batch /\ batch' = batch \ {e} /\ \A d \in batch : d.fd = e.fd => d = e
  BY DEF Dispatch, Owned, Once
<1>2. e = [fd |-> e.fd, ev |-> e.ev]
  BY <1>1 DEF TypeOK
<1>3. ASSUME NEW ev, [fd |-> e.fd, ev |-> ev] \in batch PROVE ev = e.ev
  <2>1. [fd |-> e.fd, ev |-> ev] = e
    BY <1>1, <1>3
  <2> QED
    BY <2>1
<1> QED
  BY <1>1, <1>2, <1>3

(* The clients touch no object. *)
LEMMA ClientKeeps ==
  ASSUME NEW c \in Clients, ClientStep(c), NEW s \in Slots PROVE Keeps(s)
<1>1. /\ up /\ up' /\ UNCHANGED <<file, interest, batch, readIdx, queue, request, cur>>
  BY DEF ClientStep, Connect, Send, HangUp, Connected, conns
<1>2. Stage(s)' = Stage(s)
  BY <1>1, PoolFrame, StageFrame
<1> QED
  BY <1>1, <1>2, MoveKeeps

(* A hang-up that epoll reports ends the connection's use. *)
LEMMA EpollKeeps ==
  ASSUME TypeOK, Owned, EpollWait, NEW s \in Slots PROVE Keeps(s)
<1> DEFINE events == {[fd |-> f, ev |-> Revents(f, interest[f])] :
                        f \in {g \in ready \cap Fds : Revents(g, interest[g]) # "none"}}
                     \cup {[fd |-> l, ev |-> "in"] : l \in ready \cap {Listen}}
<1>1. /\ up /\ up' /\ batch' = events /\ batch = {} /\ cur = NoSlot
      /\ interest' = [f \in Fds |-> IF \E e \in events : e.fd = f THEN "off" ELSE interest[f]]
      /\ UNCHANGED <<file, readIdx, queue, request, cur>>
  BY DEF EpollWait, Goto, At, conns, Owned, Stations
<1>2. cur # s /\ (InPool(s)' <=> InPool(s))
  BY <1>1, PoolFrame, ServerAssumption DEF NoSlot, Slots
<1>3. CASE ~\E e \in events : e.fd = s
  <2>1. interest'[s] = interest[s]
    BY <1>1, <1>3 DEF Slots
  <2>2. \A ev : [fd |-> s, ev |-> ev] \notin events
    BY <1>3
  <2>3. Stage(s)' = Stage(s)
    BY <1>1, <1>2, <2>1, <2>2, StageFrame
  <2> QED
    BY <1>1, <2>3, MoveKeeps
<1>4. CASE \E e \in events : e.fd = s
  <2> DEFINE r == Revents(s, interest[s])
  <2>1. \A ev : [fd |-> s, ev |-> ev] \in events <=> ev = r
    <3>1. \A e \in events : e.fd = s => e = [fd |-> s, ev |-> r]
      BY ServerAssumption DEF Slots
    <3>2. [fd |-> s, ev |-> r] \in events
      BY <1>4, <3>1
    <3> QED
      BY <3>1, <3>2
  <2>2. r # "none"
    BY <1>4, ServerAssumption DEF Slots
  <2>3. /\ file[s] # NoClient /\ interest[s] \in {"in", "out"} /\ interest'[s] = "off"
        /\ r \in {"hup", interest[s]}
    BY <1>1, <1>4, <2>2 DEF Revents, Slots
  <2>4. ~InPool(s)
    BY <1>2, <2>3 DEF Owned, Placed, AtRest, Slots
  <2>5. Stage(s) = IF interest[s] = "out" THEN "writing" ELSE "armed"
    BY <1>1, <1>2, <2>3, <2>4 DEF Stage
  <2>6. Stage(s)' = IF r = "hup" THEN "closed" ELSE IF r = "out" THEN "writing" ELSE "armed"
    <3> HIDE DEF events, r
    <3> QED
      BY <1>1, <1>2, <2>1, <2>3, <2>4 DEF Stage
  <2>7. readIdx'[s] = readIdx[s] /\ readIdx'[s] \in readIdx[s] .. BufferSize
    BY <1>1, ServerAssumption DEF TypeOK
  <2>8. \/ Stage(s)' = Stage(s)
        \/ Moves(s, "armed", "closed") \/ Moves(s, "writing", "closed")
    BY <2>3, <2>5, <2>6 DEF Moves
  <2> QED
    BY <1>1, <2>7, <2>8, MoveKeeps
<1> QED
  BY <1>3, <1>4

(* accept takes a free descriptor: its object is as closed as it was. *)
LEMMA AcceptKeeps ==
  ASSUME TypeOK, Owned, NEW e \in batch, Accept(e) \/ AcceptFails(e), NEW s \in Slots
  PROVE  Keeps(s)
<1>1. /\ up /\ up' /\ Dispatch(e) /\ e.fd = Listen /\ s # e.fd /\ cur = NoSlot /\ cur # s
      /\ UNCHANGED <<interest, readIdx, queue, request>>
  BY ServerAssumption
     DEF Accept, AcceptFails, Dispatch, At, conns, kernel, Owned, Stations, NoSlot, Slots
<1>2. InPool(s)' <=> InPool(s)
  BY <1>1, PoolFrame
<1>3. CASE Accept(e)
  <2>1. PICK f \in FreeFds : file' = [file EXCEPT ![f] = Head(backlog)] /\ cur' = f
    BY <1>3 DEF Accept
  <2>2. CASE s = f
    <3>1. file[s] = NoClient /\ AtRest(s)
      BY <1>1, <2>1, <2>2 DEF FreeFds, Owned, Placed, Slots
    <3>2. Stage(s) = "closed" /\ Stage(s)' = "closed"
      BY <1>1, <1>2, <2>1, <2>2, <3>1 DEF Stage, AtRest
    <3> QED
      BY <1>1, <3>2, MoveKeeps
  <2>3. CASE s # f
    <3>1. file'[s] = file[s] /\ cur' # s
      BY <2>1, <2>3 DEF TypeOK
    <3>2. Stage(s)' = Stage(s)
      BY <1>1, <1>2, <3>1, OtherEvents, StageFrame
    <3> QED
      BY <1>1, <3>2, MoveKeeps
  <2> QED
    BY <2>2, <2>3
<1>4. CASE AcceptFails(e)
  <2>1. UNCHANGED <<file, cur>>
    BY <1>4 DEF AcceptFails, kernel
  <2>2. Stage(s)' = Stage(s)
    BY <1>1, <1>2, <2>1, OtherEvents, StageFrame
  <2> QED
    BY <1>1, <2>2, MoveKeeps
<1> QED
  BY <1>3, <1>4

(* The object of a reported descriptor is at the stage the event says. *)
LEMMA EventStage ==
  ASSUME TypeOK, Owned, NEW e, Dispatch(e), e.fd # Listen
  PROVE  Stage(e.fd) = IF e.ev = "hup" THEN "closed" ELSE IF e.ev = "out" THEN "writing" ELSE "armed"
<1>1. /\ e.fd \in Fds /\ cur = NoSlot /\ cur # e.fd /\ ~InPool(e.fd)
      /\ file[e.fd] # NoClient /\ interest[e.fd] = "off"
  BY EventFacts
<1>2. e \in batch
  BY DEF Dispatch
<1>3. \A ev : [fd |-> e.fd, ev |-> ev] \in batch <=> ev = e.ev
  BY <1>2, OneEvent
<1> QED
  BY <1>1, <1>3 DEF Stage

(* A step of the main thread that handles event e leaves the objects of the *)
(* other descriptors alone.                                                 *)
LEMMA EventFrame ==
  ASSUME TypeOK, Owned, NEW e, Dispatch(e), e.fd # Listen, up' = up,
         file' = file, cur' \in {NoSlot, e.fd},
         NEW s \in Slots, s # e.fd, InPool(s)' <=> InPool(s),
         interest'[s] = interest[s], readIdx'[s] = readIdx[s]
  PROVE  Keeps(s)
<1>1. up /\ cur # s /\ cur' # s
  BY EventFacts, ServerAssumption DEF Dispatch, At, NoSlot, Slots
<1>2. Stage(s)' = Stage(s)
  BY <1>1, OtherEvents, StageFrame
<1> QED
  BY <1>1, <1>2, MoveKeeps

(* A hang-up reported was the end of the object's use already. *)
LEMMA HangUpKeeps ==
  ASSUME TypeOK, Owned, NEW e \in batch, OnHangUp(e), NEW s \in Slots PROVE Keeps(s)
<1>1. /\ up /\ up' /\ Dispatch(e) /\ e.fd # Listen /\ e.ev = "hup" /\ cur' = e.fd
      /\ UNCHANGED <<up, file, interest, readIdx, queue, request>>
  BY DEF OnHangUp, Dispatch, At, conns, kernel
<1>2. InPool(s)' <=> InPool(s)
  BY <1>1, PoolFrame
<1>3. CASE s = e.fd
  <2>1. Stage(s) = "closed" /\ ~InPool(s)
    BY <1>1, <1>3, EventStage, EventFacts
  <2>2. Stage(s)' = "closed"
    BY <1>1, <1>2, <1>3, <2>1 DEF Stage
  <2> QED
    BY <1>1, <2>1, <2>2, MoveKeeps
<1> QED
  BY <1>1, <1>2, <1>3, EventFrame

(* read() brings what was reported; it fills the buffer short of its end or *)
(* the connection is closed.                                                *)
LEMMA ReadableKeeps ==
  ASSUME TypeOK, TypeOK', Owned, HasData, NEW e \in batch, OnReadable(e), NEW s \in Slots
  PROVE  Keeps(s)
<1>1. /\ up /\ up' /\ Dispatch(e) /\ e.fd # Listen /\ e.ev = "in" /\ Receive(e.fd)
      /\ UNCHANGED <<up, file, interest>>
  BY DEF OnReadable, Dispatch, At
<1>2. /\ e.fd \in Fds /\ e.fd \in Slots /\ cur = NoSlot /\ file[e.fd] # NoClient
      /\ PeerOf(e.fd) = file[e.fd]
  BY <1>1, EventFacts DEF PeerOf, Slots
<1>3. CASE s # e.fd
  <2>1. readIdx'[s] = readIdx[s]
    BY <1>1, <1>2, <1>3 DEF Receive, TypeOK
  <2>2. InPool(s)' <=> InPool(s)
    <3>1. CASE Requests!Push(e.fd)
      <4>1. request' = request /\ (Queued(s)' <=> Queued(s))
        BY <1>2, <1>3, <3>1, PushFacts DEF Requests!Push
      <4> QED
        BY <4>1 DEF InPool
    <3>2. CASE UNCHANGED <<queue, request>>
      BY <3>2, PoolFrame
    <3> QED
      BY <3>1, <3>2 DEF OnReadable
  <2>3. cur' \in {NoSlot, e.fd}
    BY <1>2 DEF OnReadable
  <2> QED
    BY <1>1, <1>3, <2>1, <2>2, <2>3, EventFrame
<1>4. CASE s = e.fd
  <2>1. Stage(s) = "armed"
    BY <1>1, <1>4, EventStage
  <2>2. /\ Pieces(s) \in Nat /\ readIdx[s] \in Nat /\ readIdx'[s] = readIdx[s] + Pieces(s)
        /\ readIdx'[s] \in readIdx[s] .. BufferSize
    <3>1. Pieces(s) \in Nat /\ readIdx[s] + Pieces(s) \in 0 .. BufferSize
      BY PiecesBound
    <3>2. readIdx[s] \in Nat /\ BufferSize \in Nat
      BY ServerAssumption DEF TypeOK
    <3>3. readIdx'[s] = readIdx[s] + Pieces(s)
      BY <1>1, <1>4 DEF Receive, TypeOK
    <3> QED
      BY <3>1, <3>2, <3>3
  <2>3. CASE ReadOk(e.fd) /\ Requests!Push(e.fd)
    <3>1. InPool(s)'
      BY <1>2, <1>4, <2>3, PushFacts DEF InPool
    <3>2. Stage(s)' = "working"
      BY <3>1 DEF Stage
    <3>3. rx[file[s]] \in Nat /\ rx[file[s]] > 0
      BY <1>1, <1>2, <1>4, UnreadOf DEF HasData
    <3>4. readIdx[s] + rx[file[s]] < BufferSize
      BY <1>2, <1>4, <2>3 DEF ReadOk
    <3>5. Pieces(s) = rx[file[s]]
      <4>1. PeerOf(s) = file[s] /\ file[s] # NoClient
        BY <1>2, <1>4
      <4> QED
        BY <2>2, <3>3, <3>4, <4>1, ServerAssumption DEF Pieces
    <3>6. readIdx'[s] \in readIdx[s] + 1 .. BufferSize - 1
      BY <2>2, <3>3, <3>4, <3>5, ServerAssumption
    <3> QED
      BY <1>1, <2>1, <3>2, <3>6, MoveKeeps DEF Moves
  <2>4. CASE cur' = e.fd /\ UNCHANGED <<queue, request>>
    <3>1. ~InPool(s)'
      BY <1>1, <1>4, <2>4, PoolFrame, EventFacts
    <3>2. Stage(s)' = "closed"
      BY <1>4, <2>4, <3>1 DEF Stage
    <3> QED
      BY <1>1, <2>1, <2>2, <3>2, MoveKeeps DEF Moves
  <2> QED
    BY <2>3, <2>4 DEF OnReadable
<1> QED
  BY <1>3, <1>4

(* write() empties the object and waits for the next request. *)
LEMMA WritableKeeps ==
  ASSUME TypeOK, Owned, NEW e \in batch, OnWritable(e), NEW s \in Slots PROVE Keeps(s)
<1>1. /\ up /\ up' /\ Dispatch(e) /\ e.fd # Listen /\ e.ev = "out" /\ cur' = cur
      /\ Modfd(e.fd, "in") /\ readIdx' = [readIdx EXCEPT ![e.fd] = 0]
      /\ UNCHANGED <<up, file, queue, request>>
  BY DEF OnWritable, Dispatch, At
<1>2. /\ e.fd \in Fds /\ cur = NoSlot /\ cur # e.fd /\ file[e.fd] # NoClient /\ ~InPool(e.fd)
      /\ interest' = [interest EXCEPT ![e.fd] = "in"]
  BY <1>1, EventFacts DEF Modfd, Arm
<1>3. InPool(s)' <=> InPool(s)
  BY <1>1, PoolFrame
<1>4. CASE s = e.fd
  <2>1. Stage(s) = "writing"
    BY <1>1, <1>4, EventStage
  <2>2. interest'[s] = "in" /\ readIdx'[s] = 0 /\ \A ev : [fd |-> s, ev |-> ev] \notin batch'
    BY <1>1, <1>2, <1>4, OneEvent DEF TypeOK, Slots
  <2>3. Stage(s)' = "armed"
    BY <1>1, <1>2, <1>3, <1>4, <2>2 DEF Stage
  <2> QED
    BY <1>1, <2>1, <2>2, <2>3, MoveKeeps DEF Moves
<1>5. CASE s # e.fd
  <2>1. interest'[s] = interest[s] /\ readIdx'[s] = readIdx[s] /\ cur' \in {NoSlot, e.fd}
    BY <1>1, <1>2, <1>5 DEF TypeOK, Slots
  <2> QED
    BY <1>1, <1>3, <1>5, <2>1, EventFrame
<1> QED
  BY <1>4, <1>5

(* The connection in hand is closed until init() is done with it, and the   *)
(* main thread's steps on it leave the other objects alone.                 *)
LEMMA HandStep ==
  ASSUME TypeOK, Owned, pc[Main] \notin {"wait", "dispatch"}, up, up',
         cur' = cur \/ (cur' = NoSlot /\ file'[cur] = NoClient),
         UNCHANGED <<batch, queue, request, readIdx>>,
         \A f \in Fds : f # cur => UNCHANGED <<file[f], interest[f]>>,
         NEW s \in Slots
  PROVE  Keeps(s)
<1>1. cur \in Slots /\ ~InPool(cur) /\ (InPool(s)' <=> InPool(s))
  BY HandFacts, PoolFrame DEF InHand, Slots
<1>2. CASE s = cur
  <2>1. Stage(s) = "closed" /\ Stage(s)' = "closed"
    BY <1>1, <1>2 DEF Stage
  <2> QED
    BY <2>1, MoveKeeps
<1>3. CASE s # cur
  <2>1. cur' # s
    BY <1>3, ServerAssumption DEF NoSlot, Slots
  <2>2. Stage(s)' = Stage(s)
    BY <1>1, <1>3, <2>1, StageFrame DEF Slots
  <2> QED
    BY <2>2, MoveKeeps
<1> QED
  BY <1>2, <1>3

(* Refusing, admitting and closing keep it closed. *)
LEMMA HandKeeps ==
  ASSUME TypeOK, Owned, NEW s \in Slots,
         RejectBusy \/ InitConn \/ AddFd \/ IncLoad \/ CloseConn(Main)
  PROVE  Keeps(s)
<1>1. /\ up /\ up' /\ pc[Main] \notin {"wait", "dispatch"}
      /\ UNCHANGED <<batch, queue, request, readIdx>>
  BY DEF RejectBusy, InitConn, AddFd, IncLoad, CloseConn, CloseSkip, CloseRemove, CloseForget,
         DecLoad, DecStore, Goto, At, conns, kernel
<1>2. cur \in Fds /\ InHand(cur)
  BY <1>1, HandFacts
<1>3. CASE RejectBusy \/ CloseRemove(Main)
  <2>1. /\ file' = [file EXCEPT ![cur] = NoClient] /\ interest' = [interest EXCEPT ![cur] = "none"]
        /\ cur' \in {cur, NoSlot}
    <3>1. CASE RejectBusy
      BY <3>1 DEF RejectBusy, CloseFile
    <3>2. CASE CloseRemove(Main)
      <4>1. sockfd[cur] = cur
        BY <1>2, <3>2 DEF CloseRemove, Goto, At, InHand
      <4> QED
        BY <1>2, <3>2, <4>1 DEF CloseRemove, CloseFile, Slot
    <3> QED
      BY <1>3, <3>1, <3>2
  <2>2. file'[cur] = NoClient /\ \A f \in Fds : f # cur => UNCHANGED <<file[f], interest[f]>>
    BY <1>2, <2>1 DEF TypeOK
  <2> QED
    BY <1>1, <2>1, <2>2, HandStep
<1>4. CASE InitConn \/ AddFd \/ IncLoad
  <2>1. cur' = cur /\ \A f \in Fds : f # cur => UNCHANGED <<file[f], interest[f]>>
    BY <1>2, <1>4 DEF InitConn, AddFd, Arm, IncLoad, kernel, TypeOK
  <2>2. cur' = cur \/ (cur' = NoSlot /\ file'[cur] = NoClient)
    BY <2>1
  <2>3. \A f \in Fds : f # cur => UNCHANGED <<file[f], interest[f]>>
    BY <2>1
  <2> QED
    BY <1>1, <2>2, <2>3, HandStep
<1>5. CASE CloseForget(Main) \/ DecLoad(Main) \/ DecStore(Main)
  <2>1. file[cur] = NoClient
    BY <1>2, <1>5 DEF CloseForget, DecLoad, DecStore, Goto, At, InHand
  <2>2. cur' \in {cur, NoSlot} /\ UNCHANGED <<file, interest>>
    BY <1>5 DEF CloseForget, DecLoad, DecStore, ReleaseCur, kernel
  <2> QED
    BY <1>1, <2>1, <2>2, HandStep
<1>6. CASE CloseSkip(Main)
  BY <1>2, <1>6, ServerAssumption DEF CloseSkip, Goto, At, Slot, InHand
<1> QED
  BY <1>3, <1>4, <1>5, <1>6 DEF CloseConn

(* The end of init() opens it. *)
LEMMA OpenKeeps ==
  ASSUME TypeOK, Owned, Fresh, IncStore, NEW s \in Slots PROVE Keeps(s)
<1>1. /\ up /\ up' /\ pc[Main] = "inc_store" /\ cur' = NoSlot /\ readIdx' = [readIdx EXCEPT ![cur] = 0]
      /\ UNCHANGED <<file, interest, batch, queue, request>>
  BY DEF IncStore, Goto, At, kernel
<1>2. cur \in Fds /\ InHand(cur)
  BY <1>1, HandFacts
<1>3. cur' # s /\ (InPool(s)' <=> InPool(s))
  BY <1>1, PoolFrame, ServerAssumption DEF NoSlot, Slots
<1>4. CASE s = cur
  <2>1. /\ ~InPool(s) /\ file[s] # NoClient /\ interest[s] = "in"
        /\ \A ev : [fd |-> s, ev |-> ev] \notin batch
    BY <1>1, <1>2, <1>4 DEF InHand, Reported, Fresh
  <2>2. Stage(s) = "closed" /\ Stage(s)' = "armed"
    BY <1>1, <1>3, <1>4, <2>1 DEF Stage
  <2>3. readIdx'[s] = 0
    BY <1>1, <1>4 DEF TypeOK
  <2> QED
    BY <1>1, <2>2, <2>3, MoveKeeps DEF Moves
<1>5. CASE s # cur
  <2>1. Stage(s)' = Stage(s) /\ readIdx'[s] = readIdx[s]
    BY <1>1, <1>3, <1>5, StageFrame DEF TypeOK
  <2> QED
    BY <1>1, <2>1, MoveKeeps
<1> QED
  BY <1>4, <1>5

(* A worker takes what was handed to it and gives it back armed. *)
LEMMA WorkerKeeps ==
  ASSUME NoRefuse, TypeOK, Owned, NEW w \in Workers, WorkerStep(w), NEW s \in Slots
  PROVE  Keeps(s)
<1>0. pc[w] \in {"idle", "process", "rearm_in", "rearm_out"}
  BY DEF Owned, Stations
<1>1. CASE PopRequest(w)
  <2>1. /\ up /\ up' /\ UNCHANGED <<file, interest, batch, readIdx, cur>> /\ request[w] = NoSlot
    BY <1>1 DEF PopRequest, Goto, At, kernel, conns, Owned, Stations
  <2>2. /\ Queued(Head(queue)) /\ request' = [request EXCEPT ![w] = Head(queue)]
        /\ \A x : Queued(x)' <=> Queued(x) /\ x # Head(queue)
    BY <1>1, TakeFacts DEF PopRequest, Owned, Once
  <2>3. InPool(s)' <=> InPool(s)
    BY <2>1, <2>2, ServerAssumption DEF InPool, TypeOK, NoSlot, Slots
  <2>4. Stage(s)' = Stage(s)
    BY <2>1, <2>3, StageFrame
  <2> QED
    BY <2>1, <2>4, MoveKeeps
<1>2. CASE Process(w)
  <2>1. /\ up /\ UNCHANGED <<file, interest, batch, readIdx, queue, request, cur>>
        /\ up' \/ pc' = pc
    BY <1>2 DEF Process, Goto, At, kernel, conns
  <2>2. Stage(s)' = Stage(s) /\ (InPool(s)' <=> InPool(s))
    BY <2>1, PoolFrame, StageFrame
  <2>3. CASE up'
    BY <2>1, <2>2, <2>3, MoveKeeps
  <2>4. CASE pc' = pc
    BY <2>1, <2>4, FallKeeps
  <2> QED
    BY <2>1, <2>3, <2>4
<1>3. CASE Rearm(w)
  <2> DEFINE r == request[w]
  <2>1. /\ up /\ up' /\ pc[w] \in {"rearm_in", "rearm_out"}
        /\ request' = [request EXCEPT ![w] = NoSlot]
        /\ UNCHANGED <<file, batch, readIdx, queue, cur>>
        /\ \E ev \in {"in", "out"} : Modfd(r, ev)
    BY <1>3 DEF Rearm, Goto, At, conns
  <2>2. r \in Fds /\ InPool(r)
    BY <2>1, ServerAssumption DEF Owned, Stations, TypeOK, Slots, InPool
  <2>3. cur # r /\ AtRest(r)
    BY <2>2 DEF Owned, Placed, InHand
  <2>4. PICK ev \in {"in", "out"} : interest' = [interest EXCEPT ![r] = ev]
    BY <2>1, <2>2, <2>3 DEF Modfd, Arm, AtRest
  <2>5. InPool(s)' <=> (InPool(s) /\ s # r)
    <3>1. (Queued(s)' <=> Queued(s)) /\ ~Queued(r)
      BY <2>1 DEF Queued, Owned, Once
    <3>2. \A v \in Workers : v # w => request[v] # r
      BY <2>2, ServerAssumption DEF Owned, Once, NoSlot
    <3> QED
      BY <2>1, <3>1, <3>2, ServerAssumption DEF InPool, TypeOK, NoSlot, Slots
  <2>6. CASE s = r
    <3>1. /\ Stage(s) = "working" /\ ~InPool(s)' /\ interest'[s] = ev
          /\ file'[s] # NoClient /\ cur' # s /\ \A x : [fd |-> s, ev |-> x] \notin batch'
      BY <2>1, <2>2, <2>3, <2>4, <2>5, <2>6 DEF Stage, AtRest, Reported, TypeOK
    <3>2. Stage(s)' \in {"armed", "writing"}
      BY <3>1 DEF Stage
    <3> QED
      BY <2>1, <3>1, <3>2, MoveKeeps DEF Moves
  <2>7. CASE s # r
    <3>1. Stage(s)' = Stage(s)
      BY <2>1, <2>4, <2>5, <2>7, StageFrame DEF TypeOK
    <3> QED
      BY <2>1, <3>1, MoveKeeps
  <2> QED
    BY <2>6, <2>7
<1>4. CASE CloseConn(w)
  BY <1>0, <1>4 DEF CloseConn, CloseSkip, CloseRemove, CloseForget, DecLoad, DecStore, Goto, At
<1> QED
  BY <1>1, <1>2, <1>3, <1>4 DEF WorkerStep

(* The main thread and the workers use every connection object in the       *)
(* order of Exchange, provided that no worker closes one: an object is      *)
(* filled only after init(), never while a worker has it, and not again     *)
(* after a close (main.cpp lines 110-155, http_conn.cpp lines 44-68,        *)
(* 126-153, 344-354 and 396-412).                                           *)
THEOREM EngineKeepsContract == ASSUME NoRefuse PROVE Spec => ObjectsAreExchanges
<1>1. Init => \A s \in Slots : Object(s)!Init
  <2> SUFFICES ASSUME Init, NEW s \in Slots PROVE Object(s)!Init
    OBVIOUS
  <2>1. ~InPool(s) /\ file[s] = NoClient /\ readIdx[s] = 0 /\ up
    BY ServerAssumption DEF Init, InPool, Queued, NoSlot, Slots
  <2>2. Stage(s) = "closed" /\ Alive(s) = TRUE
    BY <2>1 DEF Stage, Alive
  <2> QED
    BY <2>1, <2>2, ServerAssumption DEF Object!Init
<1>2. Whole /\ TypeOK' /\ [Next]_vars
        => [\A s \in Slots : UNCHANGED Object(s)!vars \/ Object(s)!Next]_vars
  <2> SUFFICES ASSUME Whole, TypeOK', Next, NEW s \in Slots PROVE Keeps(s)
    BY DEF Keeps
  <2>1. TypeOK /\ Owned /\ HasData /\ Fresh
    BY DEF Whole, Typed
  <2>2. CASE OutOfUsers
    BY <2>2, FallKeeps DEF OutOfUsers, At, kernel, conns
  <2>3. CASE MainStep /\ ~OutOfUsers
    BY <2>1, <2>3, EpollKeeps, AcceptKeeps, HangUpKeeps, ReadableKeeps, WritableKeeps, HandKeeps,
       OpenKeeps DEF MainStep
  <2> QED
    BY <2>1, <2>2, <2>3, ClientKeeps, WorkerKeeps DEF Next
<1>3. Whole => TypeOK
  BY DEF Whole, Typed
<1> QED
  BY <1>1, <1>2, <1>3, WholeInvariant, PTL DEF Spec, ObjectsAreExchanges

(* The queue holds at most the open connections, although append has no     *)
(* limit of its own (thread_pool.h lines 69-73), provided that no worker    *)
(* closes a connection.                                                     *)
THEOREM QueueIsBounded == ASSUME NoRefuse PROVE Spec => []QueueBounded
<1>1. TypeOK /\ Owned => QueueBounded
  <2> SUFFICES ASSUME TypeOK, Owned PROVE Len(queue) <= Cardinality(OpenFds)
    BY DEF QueueBounded
  <2>1. /\ Len(queue) \in Nat /\ DOMAIN queue = 1 .. Len(queue)
        /\ \A i \in 1 .. Len(queue) : queue[i] \in Fds
    BY DEF TypeOK, Slots
  <2>2. ASSUME NEW i \in 1 .. Len(queue) PROVE queue[i] \in OpenFds
    <3>1. queue[i] \in Fds /\ InPool(queue[i])
      BY <2>1 DEF InPool, Queued
    <3>2. cur # queue[i] /\ file[queue[i]] # NoClient
      BY <3>1 DEF Owned, Placed, InHand, AtRest
    <3> QED
      BY <3>1, <3>2 DEF OpenFds
  <2>3. queue \in Injection(1 .. Len(queue), OpenFds)
    <3>1. queue \in [1 .. Len(queue) -> OpenFds]
      BY <2>1, <2>2 DEF TypeOK
    <3>2. \A i, j \in 1 .. Len(queue) : queue[i] = queue[j] => i = j
      BY <2>1 DEF Owned, Once
    <3> QED
      BY <3>1, <3>2 DEF Injection, IsInjective
  <2>4. IsFiniteSet(1 .. Len(queue)) /\ Cardinality(1 .. Len(queue)) = Len(queue)
    BY <2>1, FS_Interval
  <2> QED
    BY <2>1, <2>3, <2>4, OpenFinite, FS_Injection
<1> QED
  BY <1>1, OwnedInvariant, PTL DEF Typed
==============================================================================
