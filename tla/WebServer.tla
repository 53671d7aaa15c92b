------------------------------ MODULE WebServer ------------------------------
(***************************************************************************)
(* The server's engine: main()'s epoll loop, the connection objects        *)
(* users[fd] and the pool's workers.  The main thread accepts, reads,      *)
(* writes and closes; a connection whose request was read is handed        *)
(* through the queue to a worker, which parses it and arms the next epoll  *)
(* event.  EPOLLONESHOT is the only thing that keeps the two off the same  *)
(* connection: no lock protects an http_conn or the counter m_user_count.  *)
(*                                                                         *)
(* What a request says is abstracted to the way http_conn::process leaves  *)
(* it (Outcomes).  The kernel (descriptors, sockets, epoll) is external.   *)
(*                                                                         *)
(* Bounds: a client connects once; a socket holds Window unread pieces.    *)
(***************************************************************************)
EXTENDS Integers, Sequences, FiniteSets

CONSTANTS Clients,     \* the peers
          Workers,     \* the pool's threads
          Fds,         \* the descriptors accept can return
          MaxFd,       \* MAX_FD: the length of users and the limit on m_user_count
          BufferSize,  \* READ_BUFFER_SIZE, counted in pieces
          Window,      \* the pieces that a socket holds unread: TCP's window
          Outcomes,    \* the ways process() may leave a request
          Listen,      \* the listening descriptor
          Main,        \* the main thread
          NoClient     \* a free descriptor

(* How http_conn::process ends: the request is incomplete; process_write   *)
(* returned true; process_write returned false; the null serv was called.  *)
AllOutcomes == {"more", "respond", "refuse", "crash"}

Threads == Workers \cup {Main}
Slots   == Fds                 \* users[fd], or the memory behind users if fd >= MAX_FD
NoSlot  == 0                   \* no connection: descriptor 0 is standard input

(* accept may return MAX_FD and more: nothing limits the descriptors of the *)
(* process, and main() does not compare them with MAX_FD (OutOfUsers).      *)
ASSUME ServerAssumption ==
  /\ MaxFd \in Nat
  /\ Fds \subseteq Nat \ {0} /\ IsFiniteSet(Fds)
  /\ Listen \in Nat \ Fds
  /\ BufferSize \in Nat \ {0}
  /\ Window \in Nat
  /\ Outcomes \subseteq AllOutcomes
  /\ Main \notin Workers
  /\ NoClient \notin Clients
  /\ IsFiniteSet(Clients)

VARIABLES
  up,        \* the process has not been killed by a null call or a bad address
  peer,      \* peer[c]: "new", "pending" (in the backlog), "open" or "closed"
  rx,        \* rx[c]: pieces in the socket's receive buffer
  hup,       \* hup[c]: the client closed its side
  backlog,   \* connections waiting for accept, oldest first
  file,      \* file[fd]: whose connection the descriptor is, or NoClient
  interest,  \* interest[fd]: "none", "off" (one shot spent), "in" or "out"
  ready,     \* epoll's ready list
  batch,     \* the events of the last epoll_wait not dispatched yet
  sockfd,    \* m_sockfd of each connection object
  readIdx,   \* m_read_idx, in pieces
  userCount, \* m_user_count
  queue,     \* the thread pool's queue
  request,   \* request[w]: the connection the worker is processing
  cur,       \* the connection the main thread is handling
  pc,        \* where each thread is
  reg        \* reg[t]: the value t loaded from m_user_count

kernel == <<peer, rx, hup, backlog, file, interest, ready>>
conns  == <<sockfd, readIdx>>
vars   == <<up, kernel, batch, conns, userCount, queue, request, cur, pc, reg>>

Requests == INSTANCE FifoQueue
              WITH Items <- Slots, Takers <- Workers, NoItem <- NoSlot, got <- request

MainLabels   == {"wait", "dispatch", "admit", "addfd", "inc_load", "inc_store"}
CloseLabels  == {"close", "forget", "dec_load", "dec_store"}
WorkerLabels == {"idle", "process", "rearm_in", "rearm_out"}

TypeOK ==
  /\ up \in BOOLEAN
  /\ peer \in [Clients -> {"new", "pending", "open", "closed"}]
  /\ rx \in [Clients -> 0 .. Window]
  /\ hup \in [Clients -> BOOLEAN]
  /\ backlog \in Seq(Clients)
  /\ file \in [Fds -> Clients \cup {NoClient}]
  /\ interest \in [Fds -> {"none", "off", "in", "out"}]
  /\ ready \subseteq Fds \cup {Listen}
  /\ batch \subseteq [fd : Fds \cup {Listen}, ev : {"in", "out", "hup"}]
  /\ sockfd \in [Slots -> Fds \cup {-1, 0}]
  /\ readIdx \in [Slots -> 0 .. BufferSize]
  /\ userCount \in Int
  /\ queue \in Seq(Slots)
  /\ request \in [Workers -> Slots \cup {NoSlot}]
  /\ cur \in Slots \cup {NoSlot}
  /\ pc \in [Threads -> MainLabels \cup CloseLabels \cup WorkerLabels]
  /\ reg \in [Threads -> Int]

Init ==
  /\ up = TRUE
  /\ peer = [c \in Clients |-> "new"]
  /\ rx = [c \in Clients |-> 0]
  /\ hup = [c \in Clients |-> FALSE]
  /\ backlog = <<>>
  /\ file = [f \in Fds |-> NoClient]
  /\ interest = [f \in Fds |-> "none"]
  /\ ready = {}
  /\ batch = {}
  /\ sockfd = [s \in Slots |-> 0]     \* new http_conn[MAX_FD] is fresh, zeroed memory
  /\ readIdx = [s \in Slots |-> 0]
  /\ userCount = 0
  /\ queue = <<>>
  /\ request = [w \in Workers |-> NoSlot]
  /\ cur = NoSlot
  /\ pc = [t \in Threads |-> IF t = Main THEN "wait" ELSE "idle"]
  /\ reg = [t \in Threads |-> 0]

(* A thread runs only while the process is up. *)
At(t, label) == up /\ pc[t] = label
Goto(t, from, to) == At(t, from) /\ pc' = [pc EXCEPT ![t] = to]

------------------------------------------------------------------------------
(* The kernel *)

(* What epoll reports of descriptor f for the events it is armed with, in   *)
(* the order in which main() tests them.                                    *)
Revents(f, armed) ==
  IF file[f] = NoClient \/ armed \notin {"in", "out"} THEN "none"
  ELSE IF hup[file[f]] THEN "hup"
  ELSE IF armed = "in" /\ rx[file[f]] = 0 THEN "none"
  ELSE armed

(* epoll_ctl ADD or MOD: the descriptor is armed once more, and is ready at *)
(* once if the event is already there.                                      *)
Arm(f, ev) ==
  /\ interest' = [interest EXCEPT ![f] = ev]
  /\ ready' = IF Revents(f, ev) = "none" THEN ready \ {f} ELSE ready \cup {f}

(* New data or a hang-up wakes the descriptors armed for it. *)
Wake(c, armed) ==
  ready' = ready \cup {f \in Fds : file[f] = c /\ interest[f] \in armed}

------------------------------------------------------------------------------
(* Clients *)

Connect(c) ==
  /\ up /\ peer[c] = "new"
  /\ peer' = [peer EXCEPT ![c] = "pending"]
  /\ backlog' = Append(backlog, c)
  /\ ready' = ready \cup {Listen}
  /\ UNCHANGED <<up, rx, hup, file, interest, batch, conns, userCount, queue,
                 request, cur, pc, reg>>

Connected(c) == up /\ peer[c] \in {"pending", "open"} /\ ~hup[c]

Send(c) ==
  /\ Connected(c)
  /\ rx[c] < Window
  /\ rx' = [rx EXCEPT ![c] = @ + 1]
  /\ Wake(c, {"in"})
  /\ UNCHANGED <<up, peer, hup, backlog, file, interest, batch, conns, userCount, queue,
                 request, cur, pc, reg>>

HangUp(c) ==
  /\ Connected(c)
  /\ hup' = [hup EXCEPT ![c] = TRUE]
  /\ Wake(c, {"in", "out"})
  /\ UNCHANGED <<up, peer, rx, backlog, file, interest, batch, conns, userCount,
                 queue, request, cur, pc, reg>>

------------------------------------------------------------------------------
(* The main thread: epoll_wait *)

(* Mutant: the descriptors are registered without EPOLLONESHOT. *)
EpollWaitNoOneShot ==
  LET events == {[fd |-> f, ev |-> Revents(f, interest[f])] :
                   f \in {g \in ready \cap Fds : Revents(g, interest[g]) # "none"}}
                \cup {[fd |-> l, ev |-> "in"] : l \in ready \cap {Listen}}
  IN /\ events # {}
     /\ Goto(Main, "wait", "dispatch")
     /\ batch' = events
     /\ ready' = {}
     /\ UNCHANGED <<up, peer, rx, hup, backlog, file, interest, conns, userCount, queue,
                    request, cur, reg>>

EpollWait ==
  LET events == {[fd |-> f, ev |-> Revents(f, interest[f])] :
                   f \in {g \in ready \cap Fds : Revents(g, interest[g]) # "none"}}
                \cup {[fd |-> l, ev |-> "in"] : l \in ready \cap {Listen}}
  IN /\ events # {}
     /\ Goto(Main, "wait", "dispatch")
     /\ batch' = events
     /\ ready' = {}                                          \* EPOLLET
     /\ interest' = [f \in Fds |-> IF \E e \in events : e.fd = f THEN "off"
                                   ELSE interest[f]]         \* EPOLLONESHOT
     /\ UNCHANGED <<up, peer, rx, hup, backlog, file, conns, userCount, queue,
                    request, cur, reg>>

(* The for loop over the events; when they are used up, epoll_wait again. *)
AfterEvent(rest) == IF rest = {} THEN "wait" ELSE "dispatch"

Dispatch(e) == /\ At(Main, "dispatch")
               /\ e \in batch
               /\ batch' = batch \ {e}

EventDone == pc' = [pc EXCEPT ![Main] = AfterEvent(batch')]

------------------------------------------------------------------------------
(* The main thread: a new connection *)

FreeFds == {f \in Fds : file[f] = NoClient}

(* One accept per event, on the lowest free descriptor. *)
Accept(e) ==
  /\ Dispatch(e)
  /\ e.fd = Listen
  /\ \E f \in FreeFds :
       /\ \A g \in FreeFds : f <= g
       /\ file' = [file EXCEPT ![f] = Head(backlog)]
       /\ cur' = f
  /\ backlog # <<>>
  /\ peer' = [peer EXCEPT ![Head(backlog)] = "open"]
  /\ backlog' = Tail(backlog)
  /\ pc' = [pc EXCEPT ![Main] = "admit"]
  /\ UNCHANGED <<up, rx, hup, interest, ready, conns, userCount, queue, request, reg>>

(* accept fails (no descriptor left, or nobody in the backlog): errno is    *)
(* printed and the loop continues.                                          *)
AcceptFails(e) ==
  /\ Dispatch(e)
  /\ e.fd = Listen
  /\ FreeFds = {} \/ backlog = <<>>
  /\ EventDone
  /\ UNCHANGED <<up, kernel, conns, userCount, queue, request, cur, reg>>

CloseFile(f) ==
  /\ peer' = [c \in Clients |-> IF file[f] = c THEN "closed" ELSE peer[c]]
  /\ file' = [file EXCEPT ![f] = NoClient]
  /\ interest' = [interest EXCEPT ![f] = "none"]
  /\ ready' = ready \ {f}

(* show_error: "Internal server busy". *)
RejectBusy ==
  /\ At(Main, "admit")
  /\ userCount >= MaxFd
  /\ CloseFile(cur)
  /\ cur' = NoSlot
  /\ pc' = [pc EXCEPT ![Main] = AfterEvent(batch)]
  /\ UNCHANGED <<up, rx, hup, backlog, batch, conns, userCount, queue, request, reg>>

(* users[connfd] lies behind the array and the process is killed.           *)
OutOfUsers ==
  /\ At(Main, "admit")
  /\ userCount < MaxFd /\ cur >= MaxFd
  /\ up' = FALSE
  /\ UNCHANGED <<kernel, batch, conns, userCount, queue, request, cur, pc, reg>>

(* init( connfd, address ); if users[connfd] lies behind the array, nobody  *)
(* notices.                                                                 *)
InitConn ==
  /\ userCount < MaxFd
  /\ Goto(Main, "admit", "addfd")
  /\ sockfd' = [sockfd EXCEPT ![cur] = cur]
  /\ UNCHANGED <<up, kernel, batch, readIdx, userCount, queue, request, cur, reg>>

AddFd ==
  /\ Goto(Main, "addfd", "inc_load")
  /\ Arm(cur, "in")
  /\ UNCHANGED <<up, peer, rx, hup, backlog, file, batch, conns, userCount, queue,
                 request, cur, reg>>

(* m_user_count++ is a load and a store. *)
IncLoad ==
  /\ Goto(Main, "inc_load", "inc_store")
  /\ reg' = [reg EXCEPT ![Main] = userCount]
  /\ UNCHANGED <<up, kernel, batch, conns, userCount, queue, request, cur>>

IncStore ==
  /\ Goto(Main, "inc_store", AfterEvent(batch))
  /\ userCount' = reg[Main] + 1
  /\ readIdx' = [readIdx EXCEPT ![cur] = 0]                  \* init()
  /\ cur' = NoSlot
  /\ UNCHANGED <<up, kernel, batch, sockfd, queue, request, reg>>

------------------------------------------------------------------------------
(* The main thread: events of a connection *)

(* Mutant: the hang-up is reported and nothing is done. *)
OnHangUpIgnored(e) ==
  /\ Dispatch(e)
  /\ e.fd # Listen /\ e.ev = "hup"
  /\ EventDone
  /\ UNCHANGED <<up, kernel, conns, userCount, queue, request, cur, reg>>

OnHangUp(e) ==
  /\ Dispatch(e)
  /\ e.fd # Listen /\ e.ev = "hup"
  /\ cur' = e.fd
  /\ pc' = [pc EXCEPT ![Main] = "close"]
  /\ UNCHANGED <<up, kernel, conns, userCount, queue, request, reg>>

(* The client whose data recv( m_sockfd ) returns, if the descriptor is open. *)
PeerOf(s) == IF sockfd[s] \in Fds THEN file[sockfd[s]] ELSE NoClient

(* http_conn::read drains the socket: it succeeds at EAGAIN, and fails on   *)
(* an error, at the end of the stream or when the buffer is full.           *)
ReadOk(s) == /\ PeerOf(s) # NoClient
             /\ readIdx[s] + rx[PeerOf(s)] < BufferSize
             /\ ~hup[PeerOf(s)]

(* Mutant: recv is given the length of the whole buffer. *)
PiecesNoRoom(s) == IF PeerOf(s) = NoClient THEN 0 ELSE rx[PeerOf(s)]

Pieces(s) == LET room == BufferSize - readIdx[s]
             IN IF PeerOf(s) = NoClient THEN 0
                ELSE IF rx[PeerOf(s)] <= room THEN rx[PeerOf(s)] ELSE room

Receive(s) ==
  /\ readIdx' = [readIdx EXCEPT ![s] = @ + Pieces(s)]
  /\ rx' = [c \in Clients |-> IF PeerOf(s) = c THEN rx[c] - Pieces(s) ELSE rx[c]]

OnReadable(e) ==
  /\ Dispatch(e)
  /\ e.fd # Listen /\ e.ev = "in"
  /\ Receive(e.fd)
  /\ \/ /\ ReadOk(e.fd)
        /\ Requests!Push(e.fd)                               \* pool->append
        /\ EventDone
        /\ UNCHANGED cur
     \/ /\ ~ReadOk(e.fd)
        /\ cur' = e.fd
        /\ pc' = [pc EXCEPT ![Main] = "close"]
        /\ UNCHANGED <<queue, request>>
  /\ UNCHANGED <<up, peer, hup, backlog, file, interest, ready, sockfd, userCount, reg>>

(* modfd of connection s: no effect when m_sockfd is no registered descriptor. *)
Modfd(s, ev) ==
  IF sockfd[s] \in Fds /\ interest[sockfd[s]] # "none"
  THEN Arm(sockfd[s], ev)
  ELSE UNCHANGED <<interest, ready>>

(* Mutant: write() forgets modfd when there is nothing to send. *)
OnWritableNoModfd(e) ==
  /\ Dispatch(e)
  /\ e.fd # Listen /\ e.ev = "out"
  /\ readIdx' = [readIdx EXCEPT ![e.fd] = 0]
  /\ EventDone
  /\ UNCHANGED <<up, kernel, sockfd, userCount, queue, request, cur, reg>>

(* Mutant: write() does not call init(). *)
OnWritableKeeps(e) ==
  /\ Dispatch(e)
  /\ e.fd # Listen /\ e.ev = "out"
  /\ Modfd(e.fd, "in")
  /\ EventDone
  /\ UNCHANGED <<up, peer, rx, hup, backlog, file, conns, userCount, queue, request,
                 cur, reg>>

(* http_conn::write.  m_write_idx is 0: only set_write_buf makes it         *)
(* anything else, and no service calls it.  So nothing is and the     *)
(* connection is reset and waits for the next request.  modfd and init()    *)
(* are one step: what comes in between waits on epoll's ready list for the  *)
(* main thread, which is the one that runs write().                         *)
OnWritable(e) ==
  /\ Dispatch(e)
  /\ e.fd # Listen /\ e.ev = "out"
  /\ Modfd(e.fd, "in")
  /\ readIdx' = [readIdx EXCEPT ![e.fd] = 0]                 \* init()
  /\ EventDone
  /\ UNCHANGED <<up, peer, rx, hup, backlog, file, sockfd, userCount, queue, request,
                 cur, reg>>

------------------------------------------------------------------------------
(* close_conn, run by the main thread or by a worker *)

Slot(t) == IF t = Main THEN cur ELSE request[t]

(* main() goes on with its events; process() goes on to modfd. *)
ClosedNext(t) == IF t = Main THEN AfterEvent(batch) ELSE "rearm_out"
ReleaseCur(t) == cur' = IF t = Main THEN NoSlot ELSE cur

CloseSkip(t) ==
  /\ Goto(t, "close", ClosedNext(t))
  /\ sockfd[Slot(t)] = -1
  /\ ReleaseCur(t)
  /\ UNCHANGED <<up, kernel, batch, conns, userCount, queue, request, reg>>

CloseRemove(t) ==
  /\ Goto(t, "close", "forget")
  /\ sockfd[Slot(t)] # -1
  /\ IF sockfd[Slot(t)] \in Fds THEN CloseFile(sockfd[Slot(t)])
     ELSE UNCHANGED <<peer, file, interest, ready>>
  /\ UNCHANGED <<up, rx, hup, backlog, batch, conns, userCount, queue, request, cur, reg>>

(* Mutant: close_conn does not count. *)
CloseForgetUncounted(t) ==
  /\ Goto(t, "forget", ClosedNext(t))
  /\ sockfd' = [sockfd EXCEPT ![Slot(t)] = -1]
  /\ ReleaseCur(t)
  /\ UNCHANGED <<up, kernel, batch, readIdx, userCount, queue, request, reg>>

CloseForget(t) ==
  /\ Goto(t, "forget", "dec_load")
  /\ sockfd' = [sockfd EXCEPT ![Slot(t)] = -1]
  /\ UNCHANGED <<up, kernel, batch, readIdx, userCount, queue, request, cur, reg>>

DecLoad(t) ==
  /\ Goto(t, "dec_load", "dec_store")
  /\ reg' = [reg EXCEPT ![t] = userCount]
  /\ UNCHANGED <<up, kernel, batch, conns, userCount, queue, request, cur>>

DecStore(t) ==
  /\ Goto(t, "dec_store", ClosedNext(t))
  /\ userCount' = reg[t] - 1
  /\ ReleaseCur(t)
  /\ UNCHANGED <<up, kernel, batch, conns, queue, request, reg>>

CloseConn(t) == CloseSkip(t) \/ CloseRemove(t) \/ CloseForget(t) \/ DecLoad(t) \/ DecStore(t)

------------------------------------------------------------------------------
(* The workers *)

PopRequest(w) ==
  /\ Goto(w, "idle", "process")
  /\ Requests!Take(w)
  /\ UNCHANGED <<up, kernel, batch, conns, userCount, cur, reg>>

(* process(): process_read and process_write touch the connection object    *)
(* only; what follows depends on what they return.                          *)
Process(w) ==
  /\ \/ "more" \in Outcomes /\ Goto(w, "process", "rearm_in") /\ UNCHANGED up
     \/ "respond" \in Outcomes /\ Goto(w, "process", "rearm_out") /\ UNCHANGED up
     \/ "refuse" \in Outcomes /\ Goto(w, "process", "close") /\ UNCHANGED up
     \/ "crash" \in Outcomes /\ At(w, "process") /\ up' = FALSE /\ UNCHANGED pc
  /\ UNCHANGED <<kernel, batch, conns, userCount, queue, request, cur, reg>>

(* Mutant: process() returns without modfd when the request is incomplete. *)
RearmForgotten(w) ==
  /\ \/ Goto(w, "rearm_in", "idle") /\ UNCHANGED <<interest, ready>>
     \/ Goto(w, "rearm_out", "idle") /\ Modfd(request[w], "out")
  /\ request' = [request EXCEPT ![w] = NoSlot]
  /\ UNCHANGED <<up, peer, rx, hup, backlog, file, batch, conns, userCount, queue,
                 cur, reg>>

(* The modfd that ends process(), with the m_sockfd of that moment. *)
Rearm(w) ==
  /\ \/ Goto(w, "rearm_in", "idle") /\ Modfd(request[w], "in")
     \/ Goto(w, "rearm_out", "idle") /\ Modfd(request[w], "out")
  /\ request' = [request EXCEPT ![w] = NoSlot]
  /\ UNCHANGED <<up, peer, rx, hup, backlog, file, batch, conns, userCount, queue,
                 cur, reg>>

------------------------------------------------------------------------------
ClientStep(c) == Connect(c) \/ Send(c) \/ HangUp(c)

MainStep ==
  \/ EpollWait
  \/ \E e \in batch : \/ Accept(e) \/ AcceptFails(e)
                      \/ OnHangUp(e) \/ OnReadable(e) \/ OnWritable(e)
  \/ RejectBusy \/ OutOfUsers \/ InitConn \/ AddFd \/ IncLoad \/ IncStore
  \/ CloseConn(Main)

WorkerStep(w) == PopRequest(w) \/ Process(w) \/ Rearm(w) \/ CloseConn(w)

Next == \/ \E c \in Clients : ClientStep(c)
        \/ MainStep
        \/ \E w \in Workers : WorkerStep(w)

Spec == Init /\ [][Next]_vars

(* The threads are scheduled fairly; clients do as they please. *)
Fairness == WF_vars(MainStep) /\ \A w \in Workers : WF_vars(WorkerStep(w))
FairSpec == Spec /\ Fairness
------------------------------------------------------------------------------
(* Properties *)

(* The pool's side of a connection: it is in the queue or a worker has it.  *)
Queued(s) == \E i \in DOMAIN queue : queue[i] = s
InPool(s) == Queued(s) \/ \E w \in Workers : request[w] = s

(* The main thread's side: epoll may report it, it was reported, or main()  *)
(* is handling it.                                                          *)
Armed(s)    == interest[s] \in {"in", "out"}
Reported(s) == \E e \in batch : e.fd = s
OnMain(s)   == Armed(s) \/ Reported(s) \/ cur = s

(* EPOLLONESHOT does the work of the lock http_conn does not have: a        *)
(* connection is on the main thread's side or on the pool's, it is in the   *)
(* queue or with a worker at most once, and a reported one is not armed     *)
(* before its event is handled (main.cpp lines 110-155, http_conn.cpp 396). *)
OneOwner ==
  /\ \A s \in Slots : ~(InPool(s) /\ OnMain(s)) /\ ~(Armed(s) /\ Reported(s))
  /\ \A i, j \in DOMAIN queue : queue[i] = queue[j] => i = j
  /\ \A v, w \in Workers : request[v] = request[w] /\ request[v] # NoSlot => v = w
  /\ \A w \in Workers : ~Queued(request[w])

(* No open connection is forgotten: somebody will look at it again, and its *)
(* connection object names its own descriptor (lines 46-51 and 57 of        *)
(* http_conn.cpp run on both threads).                                      *)
NoOrphan ==
  \A f \in Fds : file[f] # NoClient /\ cur # f => (OnMain(f) \/ InPool(f)) /\ sockfd[f] = f

(* m_user_count is the number of open connections whenever no thread is     *)
(* inside init or close_conn.                                               *)
Steady == \A t \in Threads : pc[t] \in {"wait", "dispatch", "idle", "process",
                                        "rearm_in", "rearm_out"}
OpenFds == {f \in Fds : file[f] # NoClient}
UserCountExact == Steady => userCount = Cardinality(OpenFds)

(* The pool's queue has no limit of its own (append does not look at        *)
(* m_max_requests, thread_pool.h lines 69-73): the open connections bound   *)
(* it, because no connection is queued twice and none after it was closed.  *)
QueueBounded == Len(queue) <= Cardinality(OpenFds)

HasNews(f) == file[f] # NoClient /\ (hup[file[f]] \/ rx[file[f]] > 0)

(* No edge is lost: whoever has data or hung up is on epoll's ready list    *)
(* with its descriptor armed, or was reported, or is in somebody's hands.   *)
(* It is what DataIsRead needs of every modfd: what came while a worker had *)
(* the connection, or while main() wrote, makes the re-armed descriptor     *)
(* ready at once (http_conn.cpp lines 33-39, 351 and 401).                  *)
NoEventLost ==
  \A f \in Fds : HasNews(f) => \/ f \in ready /\ Armed(f)
                               \/ Reported(f) \/ cur = f \/ InPool(f)

(* A descriptor changes hands only when nobody remembers it: while epoll    *)
(* may report it, an event of it waits in events[], or its object is in the *)
(* queue or with a worker, it stays the same client's.  So no event or      *)
(* request of one client is handled as another's who got the number after   *)
(* it (main.cpp line 112 and http_conn.cpp 36 and 46 know numbers only).    *)
SameClient ==
  [][\A f \in Fds : Armed(f) \/ Reported(f) \/ InPool(f) => file'[f] = file[f]]_vars

(* The main thread and the workers together use every connection object in  *)
(* the order of Exchange: a client's object is filled after init() and not  *)
(* while a worker has it, read() brings something and leaves room, a        *)
(* response is written once and empties the object, and after a close       *)
(* nobody touches it until the next client (main.cpp lines 110-155,         *)
(* http_conn.cpp 44-87, 126-153, 344-354 and 396-412).  A hang-up closes    *)
(* the object when epoll reports it; a null call kills the process of the   *)
(* request that made it.                                                    *)
Stage(s) ==
  IF InPool(s) THEN "working"
  ELSE IF cur = s \/ file[s] = NoClient \/ [fd |-> s, ev |-> "hup"] \in batch THEN "closed"
  ELSE IF interest[s] = "out" \/ [fd |-> s, ev |-> "out"] \in batch THEN "writing"
  ELSE "armed"
Alive(s) == up \/ \A w \in Workers : request[w] = s => pc[w] # "process"
Object(s) == INSTANCE Exchange
               WITH Size <- BufferSize, stage <- Stage(s), fill <- readIdx[s], up <- Alive(s)
ObjectsAreExchanges ==     \* Object(s)!Spec for every s
  /\ \A s \in Slots : Object(s)!Init
  /\ [][\A s \in Slots : UNCHANGED Object(s)!vars \/ Object(s)!Next]_vars

(* A connection gets a second owner in one way only: close_conn frees its   *)
(* number before process() is done with the object, and main() accepts a    *)
(* client on that number; the worker's modfd, and its count, then meet the  *)
(* new client's object (http_conn.cpp lines 46-51 and 405-411).  Whatever   *)
(* else the threads do, and in whatever order, OneOwner survives it.        *)
LostByReuseOnly ==
  [][OneOwner => \/ OneOwner'
                 \/ \E e \in batch, w \in Workers :
                      /\ Accept(e) /\ cur' = request[w]
                      /\ pc[w] \in {"forget", "dec_load", "dec_store", "rearm_out"}]_vars

(* Data of an open connection is eventually read, or the connection closed: *)
(* no edge-triggered event is lost while a worker has the connection (modfd *)
(* re-evaluates it, http_conn.cpp lines 33-39), unless two threads got one  *)
(* connection by LostByReuseOnly's step.                                    *)
DataIsRead ==
  []OneOwner => \A c \in Clients :
                  peer[c] = "open" /\ rx[c] > 0 ~> rx[c] = 0 \/ peer[c] = "closed"

(* A client that is gone does not keep its descriptor, with the same        *)
(* exception (main.cpp lines 131-136, http_conn.cpp 33-39).                 *)
HangUpCloses ==
  []OneOwner => \A c \in Clients : peer[c] = "open" /\ hup[c] ~> peer[c] = "closed"

(* Every client that reached the backlog is accepted or refused: README     *)
(* line 5, "主线程：负责网络通讯 epoll统一事件源（监听套接字、连接套接字 ...", and       *)
(* http_conn.h line 49, "读至不可读 ... ET模式".                                *)
EveryClientAccepted == \A c \in Clients : peer[c] = "pending" ~> peer[c] # "pending"
==============================================================================
