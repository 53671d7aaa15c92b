-------------------------- MODULE EngineEvents_proofs --------------------------
(***************************************************************************)
(* What TLAPS proves of the engine's events, for any numbers of clients,   *)
(* workers and descriptors, as long as no worker closes a connection: that *)
(* edge-triggered epoll loses none of them, and that an event or a request *)
(* is never handled for another client than the one it is of.              *)
(*                                                                         *)
(* The inductive invariant adds to ownership (WebServer_proofs) what the   *)
(* kernel promises of an armed descriptor, and modfd and addfd keep: if    *)
(* there is something to report, it is on the ready list (Signalled).      *)
(***************************************************************************)
EXTENDS WebServer_proofs

Signalled ==
  \A f \in Fds : Armed(f) /\ Revents(f, interest[f]) # "none" => f \in ready

EInv == Typed /\ Owned /\ Signalled

------------------------------------------------------------------------------
(* Arming, waking and closing *)

(* What one descriptor's report depends on. *)
LEMMA ReventsFrame ==
  ASSUME NEW f \in Fds, NEW armed,
         file'[f] = file[f], UNCHANGED hup,
         file[f] \in Clients => (rx'[file[f]] = 0 <=> rx[file[f]] = 0),
         file[f] \in Clients \cup {NoClient}
  PROVE  Revents(f, armed)' = Revents(f, armed)
BY DEF Revents

(* A step that arms a descriptor anew and changes nothing else of the       *)
(* events: the kernel looks whether there is something already.             *)
LEMMA ArmSignals ==
  ASSUME TypeOK, Signalled, NEW f \in Fds, NEW ev \in {"in", "out"}, Arm(f, ev),
         UNCHANGED <<file, hup, rx>>
  PROVE  Signalled'
<1> SUFFICES ASSUME NEW g \in Fds, Armed(g)', (Revents(g, interest[g]) # "none")'
             PROVE  g \in ready'
  BY DEF Signalled
<1>1. \A armed : Revents(g, armed)' = Revents(g, armed)
  BY ReventsFrame DEF TypeOK
<1>2. CASE g = f
  BY <1>1, <1>2 DEF Arm, TypeOK
<1>3. CASE g # f
  <2>1. interest'[g] = interest[g]
    BY <1>3 DEF Arm, TypeOK
  <2> QED
    BY <1>1, <1>3, <2>1 DEF Signalled, Armed, Arm
<1> QED
  BY <1>2, <1>3

(* A step that leaves every armed descriptor's report as it was, or         *)
(* disarms it.                                                              *)
LEMMA QuietSignals ==
  ASSUME Signalled,
         \A f \in Fds : Armed(f)' => /\ interest'[f] = interest[f]
                                     /\ Revents(f, interest[f]) = "none" =>
                                          Revents(f, interest[f])' = "none"
                                     /\ f \in ready => f \in ready'
  PROVE  Signalled'
BY DEF Signalled, Armed

(* A close disarms the descriptor that it frees. *)
LEMMA CloseSignals ==
  ASSUME TypeOK, Signalled, NEW f \in Fds, CloseFile(f), UNCHANGED <<hup, rx>>
  PROVE  Signalled'
<1>1. /\ interest' = [interest EXCEPT ![f] = "none"] /\ ready' = ready \ {f}
      /\ file' = [file EXCEPT ![f] = NoClient]
  BY DEF CloseFile
<1>2. ASSUME NEW g \in Fds, Armed(g)'
      PROVE  /\ interest'[g] = interest[g]
             /\ \A armed : Revents(g, armed)' = Revents(g, armed)
             /\ g \in ready => g \in ready'
  <2>1. g # f
    BY <1>1, <1>2 DEF Armed, TypeOK
  <2> QED
    BY <1>1, <2>1, ReventsFrame DEF TypeOK
<1> QED
  BY <1>2, QuietSignals

------------------------------------------------------------------------------
(* Signalled is inductive *)

(* Nothing is connected at the start. *)
LEMMA InitSignalled == Init => Signalled
BY DEF Init, Signalled, Armed

(* What a client does wakes the descriptor that is armed for it. *)
LEMMA ClientSignals == ASSUME Typed, Signalled, NEW c \in Clients, ClientStep(c) PROVE Signalled'
<1> USE DEF Typed, TypeOK
<1>1. CASE Connect(c)
  <2>1. UNCHANGED <<file, hup, rx, interest>> /\ ready \subseteq ready'
    BY <1>1 DEF Connect
  <2>2. \A f \in Fds : \A armed : Revents(f, armed)' = Revents(f, armed)
    BY <2>1, ReventsFrame
  <2> QED
    BY <2>1, <2>2, QuietSignals
<1>2. CASE Send(c)
  <2>1. /\ UNCHANGED <<file, hup, interest>> /\ rx' = [rx EXCEPT ![c] = @ + 1]
        /\ ready' = ready \cup {f \in Fds : file[f] = c /\ interest[f] \in {"in"}}
    BY <1>2 DEF Send, Wake
  <2> SUFFICES ASSUME NEW f \in Fds, Armed(f)', (Revents(f, interest[f]) # "none")'
               PROVE  f \in ready'
    BY DEF Signalled
  <2>2. CASE file[f] # c \/ interest[f] # "in"
    <3>1. (Revents(f, interest[f]) # "none")
      BY <2>1, <2>2 DEF Revents
    <3> QED
      BY <2>1, <3>1 DEF Signalled, Armed
  <2>3. CASE file[f] = c /\ interest[f] = "in"
    BY <2>1, <2>3
  <2> QED
    BY <2>2, <2>3
<1>3. CASE HangUp(c)
  <2>1. /\ UNCHANGED <<file, rx, interest>> /\ hup' = [hup EXCEPT ![c] = TRUE]
        /\ ready' = ready \cup {f \in Fds : file[f] = c /\ interest[f] \in {"in", "out"}}
    BY <1>3 DEF HangUp, Wake
  <2> SUFFICES ASSUME NEW f \in Fds, Armed(f)', (Revents(f, interest[f]) # "none")'
               PROVE  f \in ready'
    BY DEF Signalled
  <2>2. CASE file[f] # c
    <3>1. (Revents(f, interest[f]) # "none")
      BY <2>1, <2>2 DEF Revents
    <3> QED
      BY <2>1, <3>1 DEF Signalled, Armed
  <2>3. CASE file[f] = c
    BY <2>1, <2>3 DEF Armed
  <2> QED
    BY <2>2, <2>3
<1> QED
  BY <1>1, <1>2, <1>3 DEF ClientStep

(* epoll_wait takes everybody from the ready list who has something to      *)
(* report, and disarms them; nobody else was on it.                         *)
LEMMA EpollSignals == ASSUME Typed, Signalled, EpollWait PROVE Signalled'
<1> DEFINE events == {[fd |-> f, ev |-> Revents(f, interest[f])] :
                        f \in {g \in ready \cap Fds : Revents(g, interest[g]) # "none"}}
                     \cup {[fd |-> l, ev |-> "in"] : l \in ready \cap {Listen}}
<1>1. /\ interest' = [f \in Fds |-> IF \E e \in events : e.fd = f THEN "off" ELSE interest[f]]
      /\ UNCHANGED <<file, hup, rx>>
  BY DEF EpollWait
<1> SUFFICES ASSUME NEW f \in Fds, Armed(f)', (Revents(f, interest[f]) # "none")' PROVE FALSE
  BY DEF Signalled
<1>2. ~(\E e \in events : e.fd = f) /\ interest'[f] = interest[f]
  BY <1>1 DEF Armed
<1>3. Revents(f, interest[f]) # "none"
  BY <1>1, <1>2 DEF Revents
<1>4. f \in ready
  BY <1>2, <1>3 DEF Signalled, Armed
<1>5. [fd |-> f, ev |-> Revents(f, interest[f])] \in events
  BY <1>3, <1>4
<1> HIDE DEF events
<1> QED
  BY <1>2, <1>5

(* The main thread's steps on events and on the connection it has in hand.  *)
LEMMA MainSignals == ASSUME Typed, Owned, Signalled, MainStep PROVE Signalled'
<1>0. TypeOK /\ Typed
  BY DEF Typed
<1>f. ASSUME UNCHANGED <<file, hup, rx, interest, ready>> PROVE Signalled'
  BY <1>f DEF Signalled, Armed, Revents
<1>1. CASE EpollWait
  BY <1>1, EpollSignals
<1>2. ASSUME NEW e \in batch, Accept(e) PROVE Signalled'
  <2>1. PICK f \in FreeFds : file' = [file EXCEPT ![f] = Head(backlog)]
    BY <1>2 DEF Accept
  <2>2. UNCHANGED <<hup, rx, interest, ready>> /\ cur = NoSlot /\ f \in Fds /\ file[f] = NoClient
    BY <1>0, <1>2, <2>1 DEF Accept, Dispatch, At, Owned, Stations, FreeFds
  <2>3. interest[f] = "none"
    BY <2>2, ServerAssumption DEF Owned, Placed, AtRest, NoSlot
  <2>4. ASSUME NEW g \in Fds, Armed(g)' PROVE \A armed : Revents(g, armed)' = Revents(g, armed)
    <3>1. g # f
      BY <2>2, <2>3, <2>4 DEF Armed
    <3> QED
      BY <1>0, <2>1, <2>2, <3>1, ReventsFrame DEF TypeOK
  <2> QED
    BY <2>2, <2>4, QuietSignals
<1>3. ASSUME NEW e \in batch, AcceptFails(e) \/ OnHangUp(e) PROVE Signalled'
  BY <1>3, <1>f DEF AcceptFails, OnHangUp, kernel
<1>4. ASSUME NEW e \in batch, OnReadable(e) PROVE Signalled'
  <2>1. e.fd \in Slots /\ UNCHANGED <<file, hup, interest, ready>>
    BY <1>0, <1>4 DEF OnReadable, TypeOK, Slots
  <2>2. \A c \in Clients : rx'[c] \in Nat /\ rx[c] \in Nat /\ rx'[c] <= rx[c]
    <3>1. rx' = [c \in Clients |-> IF PeerOf(e.fd) = c THEN rx[c] - Pieces(e.fd) ELSE rx[c]]
      BY <1>4 DEF OnReadable, Receive
    <3>2. \A c \in Clients : rx[c] \in 0 .. Window
      BY <1>0 DEF TypeOK
    <3>3. \A c \in Clients : PeerOf(e.fd) = c => rx[c] - Pieces(e.fd) \in 0 .. rx[c]
      BY <1>0, <2>1, PiecesBound
    <3> QED
      BY <3>1, <3>2, <3>3, ServerAssumption
  <2>3. ASSUME NEW f \in Fds, (Revents(f, interest[f]) # "none")' PROVE Revents(f, interest[f]) # "none"
    <3>1. file[f] = NoClient \/ file[f] \in Clients
      BY <1>0 DEF TypeOK
    <3> QED
      BY <2>1, <2>2, <2>3, <3>1 DEF Revents
  <2> QED
    BY <2>1, <2>3 DEF Signalled, Armed
<1>5. ASSUME NEW e \in batch, OnWritable(e) PROVE Signalled'
  <2>1. /\ Dispatch(e) /\ e.fd # Listen /\ Modfd(e.fd, "in") /\ UNCHANGED <<file, hup, rx>>
    BY <1>5 DEF OnWritable
  <2>2. e.fd \in Fds /\ Arm(e.fd, "in")
    BY <1>0, <2>1, EventFacts DEF Modfd
  <2> QED
    BY <1>0, <2>1, <2>2, ArmSignals
<1>6. CASE RejectBusy
  <2>1. cur \in Fds /\ CloseFile(cur) /\ UNCHANGED <<hup, rx>>
    BY <1>0, <1>6, HandFacts DEF RejectBusy, At
  <2> QED
    BY <1>0, <2>1, CloseSignals
<1>7. CASE OutOfUsers \/ InitConn \/ IncLoad \/ IncStore
  BY <1>7, <1>f DEF OutOfUsers, InitConn, IncLoad, IncStore, kernel
<1>8. CASE AddFd
  <2>1. cur \in Fds /\ Arm(cur, "in") /\ UNCHANGED <<file, hup, rx>>
    BY <1>0, <1>8, HandFacts DEF AddFd, Goto, At
  <2> QED
    BY <1>0, <2>1, ArmSignals
<1>9. CASE CloseRemove(Main)
  <2>1. cur \in Fds /\ CloseFile(cur) /\ UNCHANGED <<hup, rx>>
    BY <1>0, <1>9, HandFacts DEF CloseRemove, Goto, At, Slot, InHand
  <2> QED
    BY <1>0, <2>1, CloseSignals
<1>10. CASE CloseSkip(Main) \/ CloseForget(Main) \/ DecLoad(Main) \/ DecStore(Main)
  BY <1>10, <1>f DEF CloseSkip, CloseForget, DecLoad, DecStore, kernel
<1> QED
  BY <1>1, <1>2, <1>3, <1>4, <1>5, <1>6, <1>7, <1>8, <1>9, <1>10 DEF MainStep, CloseConn

(* A worker touches the events with the modfd that ends process() only.     *)
LEMMA WorkerSignals ==
  ASSUME Typed, Owned, Signalled, NEW w \in Workers, WorkerStep(w) PROVE Signalled'
<1>0. TypeOK /\ pc[w] \in {"idle", "process", "rearm_in", "rearm_out"}
  BY DEF Typed, Owned, Stations
<1>f. ASSUME UNCHANGED <<file, hup, rx, interest, ready>> PROVE Signalled'
  BY <1>f DEF Signalled, Armed, Revents
<1>1. CASE PopRequest(w) \/ Process(w)
  BY <1>1, <1>f DEF PopRequest, Process, kernel
<1>2. CASE Rearm(w)
  <2>1. PICK ev \in {"in", "out"} : Modfd(request[w], ev)
    BY <1>2 DEF Rearm
  <2>2. UNCHANGED <<file, hup, rx>> /\ pc[w] # "idle"
    BY <1>2 DEF Rearm, Goto, At
  <2>3. request[w] \in Fds /\ InPool(request[w])
    BY <1>0, <2>2, ServerAssumption DEF Owned, Stations, TypeOK, Slots, InPool
  <2>4. cur # request[w] /\ AtRest(request[w])
    BY <2>3 DEF Owned, Placed, InHand
  <2>5. Arm(request[w], ev)
    BY <2>1, <2>3, <2>4 DEF Modfd, AtRest
  <2> QED
    BY <1>0, <2>2, <2>3, <2>5, ArmSignals
<1>3. CASE CloseConn(w)
  BY <1>0, <1>3 DEF CloseConn, CloseSkip, CloseRemove, CloseForget, DecLoad, DecStore, Goto, At
<1> QED
  BY <1>1, <1>2, <1>3 DEF WorkerStep

(* So every armed descriptor with something to report is on the ready list. *)
LEMMA EventInvariant == ASSUME NoRefuse PROVE Spec => []EInv
<1>1. Typed /\ Owned /\ Signalled /\ [Next]_vars => Signalled'
  <2> SUFFICES ASSUME Typed, Owned, Signalled, [Next]_vars PROVE Signalled'
    OBVIOUS
  <2>1. CASE UNCHANGED vars
    BY <2>1 DEF vars, kernel, Signalled, Armed, Revents
  <2> QED
    BY <2>1, ClientSignals, MainSignals, WorkerSignals DEF Next
<1> QED
  BY <1>1, InitSignalled, OwnedInvariant, PTL DEF Spec, EInv

------------------------------------------------------------------------------
(* The theorems *)

(* No edge is lost: who has sent or hung up is on the ready list with its   *)
(* descriptor armed, was reported, or is in somebody's hands, for every     *)
(* interleaving of what it sends with the worker's modfd (http_conn.cpp     *)
(* lines 33-39, 351 and 401).                                               *)
THEOREM EventsAreHeard == ASSUME NoRefuse PROVE Spec => []NoEventLost
<1>1. EInv => NoEventLost
  <2> SUFFICES ASSUME EInv, NEW f \in Fds, HasNews(f), cur # f, ~Reported(f), ~InPool(f)
               PROVE  f \in ready /\ Armed(f)
    BY DEF NoEventLost
  <2>1. AtRest(f) /\ file[f] \in Clients /\ interest[f] \in {"none", "off", "in", "out"}
    BY DEF EInv, Typed, TypeOK, Owned, Placed, HasNews
  <2>2. Armed(f)
    BY <2>1 DEF AtRest, Armed, HasNews
  <2>3. Revents(f, interest[f]) # "none"
    <3>1. hup[file[f]] \/ rx[file[f]] # 0
      BY <2>1, ServerAssumption DEF HasNews, EInv, Typed, TypeOK
    <3> QED
      BY <2>2, <3>1 DEF Revents, Armed, HasNews
  <2> QED
    BY <2>2, <2>3 DEF EInv, Signalled
<1> QED
  BY <1>1, EventInvariant, PTL

Idle == pc[Main] = "wait" /\ ready = {} /\ queue = <<>> /\ \A w \in Workers : pc[w] = "idle"

(* When the main thread waits for an event and none comes, and the pool has *)
(* nothing, then every piece that an open connection received was read, and *)
(* nobody who hung up still has a descriptor.                               *)
THEOREM IdleHasReadAll ==
  ASSUME NoRefuse PROVE Spec => [](Idle => \A f \in Fds : ~HasNews(f))
<1>1. EInv /\ NoEventLost => (Idle => \A f \in Fds : ~HasNews(f))
  <2> SUFFICES ASSUME EInv, NoEventLost, Idle, NEW f \in Fds PROVE ~HasNews(f)
    OBVIOUS
  <2>1. ~Reported(f) /\ cur # f /\ f \notin ready
    BY ServerAssumption DEF EInv, Owned, Stations, Idle, Reported, NoSlot
  <2>2. ~InPool(f)
    BY ServerAssumption DEF EInv, Owned, Stations, Idle, InPool, Queued, NoSlot
  <2> QED
    BY <2>1, <2>2 DEF NoEventLost
<1> QED
  BY <1>1, EventInvariant, EventsAreHeard, PTL

(* A descriptor that epoll may report, whose event waits or whose object is *)
(* with the pool stays the same client's: accept() gets only numbers that   *)
(* nobody remembers (main.cpp line 112, http_conn.cpp lines 36 and 46).     *)
THEOREM NumbersAreNotReused == ASSUME NoRefuse PROVE Spec => SameClient
<1> DEFINE Kept(f) == Armed(f) \/ Reported(f) \/ InPool(f) => file'[f] = file[f]
<1>1. EInv /\ [Next]_vars => [\A f \in Fds : Kept(f)]_vars
  <2> SUFFICES ASSUME EInv, Next, NEW f \in Fds, Armed(f) \/ Reported(f) \/ InPool(f)
               PROVE  file'[f] = file[f]
    BY DEF vars
  <2>0. TypeOK /\ Owned
    BY DEF EInv, Typed
  <2>h. ASSUME cur = f, pc[Main] \in {"admit", "close"} PROVE FALSE
    BY <2>0, <2>h DEF Owned, Placed, InHand, Armed
  <2>1. ASSUME NEW e \in batch, Accept(e) PROVE file'[f] = file[f]
    <3>1. PICK g \in FreeFds : file' = [file EXCEPT ![g] = Head(backlog)]
      BY <2>1 DEF Accept
    <3>2. cur = NoSlot /\ g \in Fds /\ file[g] = NoClient
      BY <2>1, <3>1 DEF Accept, Dispatch, At, EInv, Owned, Stations, FreeFds
    <3>3. g # f
      BY <2>0, <3>2, ServerAssumption DEF Owned, Placed, AtRest, NoSlot, Armed
    <3> QED
      BY <2>0, <3>1, <3>3 DEF TypeOK
  <2>2. CASE RejectBusy
    BY <2>0, <2>2, <2>h DEF RejectBusy, At, CloseFile, TypeOK
  <2>3. CASE CloseRemove(Main)
    <3>1. cur \in Fds /\ sockfd[cur] = cur /\ pc[Main] = "close"
      BY <2>0, <2>3, HandFacts DEF CloseRemove, Goto, At, InHand
    <3>2. CloseFile(cur)
      BY <2>3, <3>1 DEF CloseRemove, Slot
    <3> QED
      BY <2>0, <2>h, <3>1, <3>2 DEF CloseFile, TypeOK
  <2>4. ASSUME NEW w \in Workers, WorkerStep(w) PROVE UNCHANGED file
    <3>1. pc[w] \notin CloseLabels
      BY <2>0 DEF Owned, Stations, CloseLabels
    <3> QED
      BY <2>4, <3>1 DEF WorkerStep, PopRequest, Process, Rearm, kernel, CloseConn, CloseSkip,
                        CloseRemove, CloseForget, DecLoad, DecStore, CloseLabels, Goto, At
  <2>5. ASSUME NEW c \in Clients, ClientStep(c) PROVE UNCHANGED file
    BY <2>5 DEF ClientStep, Connect, Send, HangUp
  <2>6. ASSUME NEW e \in batch, AcceptFails(e) \/ OnHangUp(e) \/ OnReadable(e) \/ OnWritable(e)
        PROVE  UNCHANGED file
    BY <2>6 DEF AcceptFails, OnHangUp, OnReadable, OnWritable, kernel
  <2>7. ASSUME \/ EpollWait \/ OutOfUsers \/ InitConn \/ AddFd \/ IncLoad \/ IncStore
               \/ CloseSkip(Main) \/ CloseForget(Main) \/ DecLoad(Main) \/ DecStore(Main)
        PROVE  UNCHANGED file
    BY <2>7 DEF EpollWait, OutOfUsers, InitConn, AddFd, IncLoad, IncStore, CloseSkip, CloseForget,
                DecLoad, DecStore, kernel
  <2> QED
    BY <2>1, <2>2, <2>3, <2>4, <2>5, <2>6, <2>7 DEF Next, MainStep, CloseConn
<1> QED
  BY <1>1, EventInvariant, PTL DEF Spec, SameClient
==============================================================================
