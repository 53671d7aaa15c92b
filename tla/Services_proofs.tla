---------------------------- MODULE Services_proofs ----------------------------
(***************************************************************************)
(* What TLAPS proves of the services for any numbers of connections,       *)
(* workers and services, any service tables and any lengths: the types;    *)
(* and, of every service object that is in one table, whatever others are  *)
(* shared, the bound of its write index and the completeness of what it    *)
(* reports as written.                                                     *)
(***************************************************************************)
EXTENDS Services, SequenceTheorems, TLAPS

------------------------------------------------------------------------------
(* What the services answer *)

(* Sequences of pieces, one after the other. *)
LEMMA Concat ==
  ASSUME NEW s1 \in Seq(Pieces), NEW s2 \in Seq(Pieces)
  PROVE  /\ s1 \o s2 \in Seq(Pieces) /\ Len(s1 \o s2) = Len(s1) + Len(s2)
         /\ \A i \in 1 .. Len(s1) + Len(s2) :
              (s1 \o s2)[i] = IF i <= Len(s1) THEN s1[i] ELSE s2[i - Len(s1)]
BY ConcatProperties

(* The last of two sequences ends both. *)
LEMMA ConcatLast ==
  ASSUME NEW s1 \in Seq(Pieces), NEW s2 \in Seq(Pieces), Len(s2) > 0
  PROVE  /\ s1 \o s2 \in Seq(Pieces) /\ Len(s1 \o s2) = Len(s1) + Len(s2)
         /\ (s1 \o s2)[Len(s1) + Len(s2)] = s2[Len(s2)]
<1> DEFINE n == Len(s1) + Len(s2)
<1>1. n \in 1 .. Len(s1) + Len(s2) /\ ~(n <= Len(s1)) /\ n - Len(s1) = Len(s2)
  OBVIOUS
<1>2. (s1 \o s2)[n] = IF n <= Len(s1) THEN s1[n] ELSE s2[n - Len(s1)]
  BY <1>1, Concat, Zenon
<1> QED
  BY <1>1, <1>2, Concat, Zenon

(* A status line, the headers and a page are five pieces, the page last.    *)
LEMMA PageFacts ==
  ASSUME NEW st \in Pieces, NEW page \in Pieces
  PROVE  LET all == <<st>> \o add_headers \o <<page>>
         IN all \in Seq(Pieces) /\ Len(all) = 5 /\ all[5] = page
<1> DEFINE one == <<st>>
           end == <<page>>
<1>1. one \in Seq(Pieces) /\ Len(one) = 1
  OBVIOUS
<1>2. add_headers \in Seq(Pieces) /\ Len(add_headers) = 3
  BY DEF add_headers, Pieces
<1>3. end \in Seq(Pieces) /\ Len(end) = 1 /\ end[1] = page
  OBVIOUS
<1> HIDE DEF one, end
<1>4. /\ one \o add_headers \in Seq(Pieces)
      /\ Len(one \o add_headers) = Len(one) + Len(add_headers)
  BY <1>1, <1>2, Concat, Zenon
<1> DEFINE front == one \o add_headers
<1> HIDE DEF front
<1>5. front \in Seq(Pieces) /\ Len(front) = 4
  BY <1>1, <1>2, <1>4 DEF front
<1>6. /\ front \o end \in Seq(Pieces) /\ Len(front \o end) = Len(front) + Len(end)
      /\ (front \o end)[Len(front) + Len(end)] = end[Len(end)]
  <2>1. Len(end) > 0
    BY <1>3
  <2> QED
    BY <1>3, <1>5, <2>1, ConcatLast, Zenon
<1> QED
  BY <1>3, <1>5, <1>6 DEF front, one, end

(* The pages that process_write assembles, by method and code. *)
LEMMA AnswerFacts ==
  ASSUME NEW m \in Journal, NEW code \in Codes
  PROVE  /\ Answer(m, code) \in Seq(Pieces)
         /\ \/ Answer(m, code) = <<>>
            \/ code \in {"FILE_REQUEST", "EMPTY_FILE"}
            \/ Answer(m, code)[Len(Answer(m, code))] = "content"
<1>1. {"200", "400", "500", "content", "empty_page"} \subseteq Pieces
  BY DEF Pieces
<1>2. ASSUME NEW st \in Pieces
      PROVE  Page(st) \in Seq(Pieces) /\ Len(Page(st)) = 5 /\ Page(st)[5] = "content"
  BY <1>1, PageFacts DEF Page
<1>3. CASE code \in Handled[m]
  <2>1. Answer(m, code) = Page(Status[code])
    BY <1>3 DEF Answer, Handled, Journal
  <2>2. code \in {"BAD_REQUEST", "FORBIDDEN_REQUEST", "NO_RESOURCE", "INTERNAL_ERROR"}
    BY <1>3 DEF Handled, Journal
  <2>3. Status[code] \in Pieces
    BY <2>2 DEF Status, Pieces
  <2> QED
    BY <1>2, <2>1, <2>3
<1>4. CASE code \notin Handled[m]
  <2>1. \/ Answer(m, code) = Page("500")
        \/ Answer(m, code) = <<"200">> \o Page("400")
        \/ Answer(m, code) = <<>>
        \/ code = "FILE_REQUEST" /\ Answer(m, code) = <<"200">> \o add_headers
        \/ /\ code = "EMPTY_FILE"
           /\ Answer(m, code) = <<"200">> \o add_headers \o <<"empty_page">>
    BY <1>4 DEF Answer, Handled, Journal
  <2>2. <<"200">> \in Seq(Pieces) /\ Len(<<"200">>) = 1
    BY DEF Pieces
  <2>3. add_headers \in Seq(Pieces)
    BY DEF add_headers, Pieces
  <2>4. <<"200">> \o add_headers \in Seq(Pieces)
    BY <2>2, <2>3, Concat
  <2>5. <<"200">> \o add_headers \o <<"empty_page">> \in Seq(Pieces)
    BY <1>1, PageFacts
  <2>6. /\ <<"200">> \o Page("400") \in Seq(Pieces) /\ Len(<<"200">> \o Page("400")) = 6
        /\ (<<"200">> \o Page("400"))[6] = "content"
    <3> DEFINE front == <<"200">>
               page == Page("400")
    <3>1. /\ front \in Seq(Pieces) /\ Len(front) = 1
          /\ page \in Seq(Pieces) /\ Len(page) = 5 /\ page[5] = "content"
      BY <1>1, <1>2, <2>2
    <3> HIDE DEF front, page
    <3>2. Len(page) > 0
      BY <3>1
    <3>3. /\ front \o page \in Seq(Pieces) /\ Len(front \o page) = Len(front) + Len(page)
          /\ (front \o page)[Len(front) + Len(page)] = page[Len(page)]
      BY <3>1, <3>2, ConcatLast, Zenon
    <3> QED
      BY <3>1, <3>3 DEF front, page
  <2>7. CASE Answer(m, code) = Page("500")
    BY <1>1, <1>2, <2>7
  <2>8. CASE Answer(m, code) = <<"200">> \o Page("400")
    BY <2>6, <2>8
  <2>9. CASE Answer(m, code) = <<>>
    BY <2>9
  <2>10. CASE code = "FILE_REQUEST" /\ Answer(m, code) = <<"200">> \o add_headers
    BY <2>4, <2>10
  <2>11. CASE /\ code = "EMPTY_FILE"
              /\ Answer(m, code) = <<"200">> \o add_headers \o <<"empty_page">>
    BY <2>5, <2>11
  <2> QED
    BY <2>1, <2>7, <2>8, <2>9, <2>10, <2>11
<1> QED
  BY <1>3, <1>4

------------------------------------------------------------------------------
(* Types *)

(* A job of a worker, field by field. *)
LEMMA JobType ==
  ASSUME TypeOK, NEW w \in Workers, job[w] # NoJob
  PROVE  /\ job[w] \in Jobs
         /\ job[w].conn \in Conns /\ job[w].serv \in Objects /\ job[w].code \in Codes
         /\ job[w].chose \in BOOLEAN /\ job[w].ok \in BOOLEAN /\ job[w].reg \in Nat
         /\ job[w].step \in {"set_buf", "set_idx", "add", "load", "store"}
         /\ job[w].todo \in Seq(Pieces) /\ job[w].added \in Seq(Pieces)
<1>1. job[w] \in Jobs
  BY DEF TypeOK
<1> QED
  BY <1>1 DEF Jobs

(* What a worker starts with. *)
LEMMA TakeTypes ==
  ASSUME TypeOK, NEW w \in Workers, NEW c \in Conns, NEW o \in Objects, NEW code \in Codes,
         NEW chose \in BOOLEAN, Take(w, c, o, code, chose)
  PROVE  /\ state' \in [Conns -> {"ready", "busy", "answered", "closed"}]
         /\ job' \in [Workers -> Jobs \cup {NoJob}]
<1>1. Kind[o] \in Journal
  BY ServicesAssumption
<1>2. Answer(Kind[o], code) \in Seq(Pieces) /\ <<>> \in Seq(Pieces)
  BY <1>1, AnswerFacts
<1>3. NewJob(c, o, code, chose) \in Jobs
  BY <1>2 DEF NewJob, Jobs
<1> QED
  BY <1>3 DEF Take, TypeOK

(* A step inside process_write, and init_method, leave their worker a job.  *)
LEMMA StepJob ==
  ASSUME TypeOK, NEW w \in Workers,
         SetBuf(w) \/ SetIdx(w) \/ Add(w) \/ Load(w) \/ Store(w) \/ AddFails(w)
  PROVE  job[w] # NoJob /\ job'[w] \in Jobs /\ job' = [job EXCEPT ![w] = job'[w]]
<1>1. job[w] # NoJob
  BY DEF SetBuf, SetIdx, Add, Load, Store, AddFails, Adding, Step
<1>2. /\ job[w] \in Jobs /\ job[w].serv \in Objects
      /\ job[w].todo \in Seq(Pieces) /\ job[w].added \in Seq(Pieces)
  BY <1>1, JobType
<1>3. \A next \in Jobs : job' = [job EXCEPT ![w] = next] =>
        job'[w] \in Jobs /\ job' = [job EXCEPT ![w] = job'[w]]
  BY DEF TypeOK
<1>4. CASE SetBuf(w) \/ SetIdx(w) \/ Add(w)
  <2>1. /\ [job[w] EXCEPT !.step = "set_idx"] \in Jobs /\ [job[w] EXCEPT !.step = "add"] \in Jobs
        /\ [job[w] EXCEPT !.step = "load"] \in Jobs
    BY <1>2 DEF Jobs
  <2> QED
    BY <1>1, <1>3, <1>4, <2>1 DEF SetBuf, SetIdx, Add, Step
<1>5. CASE Load(w)
  <2>1. idx[job[w].serv] \in Nat
    BY <1>2 DEF TypeOK
  <2>2. [job[w] EXCEPT !.step = "store", !.reg = idx[job[w].serv]] \in Jobs
    BY <1>2, <2>1 DEF Jobs
  <2> QED
    BY <1>1, <1>3, <1>5, <2>2 DEF Load
<1>6. CASE Store(w)
  <2>1. job[w].todo # <<>> /\ job' = [job EXCEPT ![w] = Counted(job[w])]
    BY <1>6 DEF Store, Adding
  <2>2. /\ Tail(job[w].todo) \in Seq(Pieces)
        /\ Append(job[w].added, Head(job[w].todo)) \in Seq(Pieces)
    BY <1>2, <2>1
  <2>3. Counted(job[w]) \in Jobs
    BY <1>2, <2>2 DEF Counted, Jobs
  <2> QED
    BY <1>1, <1>3, <2>1, <2>3
<1>7. CASE AddFails(w)
  <2>1. job[w].todo # <<>>
    BY <1>7 DEF AddFails, Adding
  <2>2. Tail(job[w].todo) \in Seq(Pieces) /\ <<>> \in Seq(Pieces)
    BY <1>2, <2>1
  <2>3. /\ [job[w] EXCEPT !.todo = <<>>, !.ok = FALSE] \in Jobs
        /\ [job[w] EXCEPT !.todo = Tail(job[w].todo)] \in Jobs
    BY <1>2, <2>2 DEF Jobs
  <2> QED
    BY <1>1, <1>3, <1>7, <2>3 DEF AddFails
<1> QED
  BY <1>4, <1>5, <1>6, <1>7

(* Every step keeps the types. *)
LEMMA NextTypes == ASSUME TypeOK, [Next]_vars PROVE TypeOK'
<1> USE ServicesAssumption
<1>1. ASSUME NEW w \in Workers, NEW c \in Conns, Reuse(w, c) PROVE TypeOK'
  <2>1. PICK code \in do_request(Kind[serv[c]]) \cup {"BAD_REQUEST"} : Take(w, c, serv[c], code, FALSE)
    BY <1>1 DEF Reuse
  <2>2. serv[c] \in Objects /\ code \in Codes
    BY <1>1, <2>1 DEF Reuse, TypeOK, do_request, Failures, Codes
  <2> QED
    BY <1>1, <2>1, <2>2, TakeTypes DEF Reuse, TypeOK
<1>2. ASSUME NEW w \in Workers, NEW c \in Conns, NEW o \in Objects, Choose(w, c, o) PROVE TypeOK'
  <2>1. "BAD_REQUEST" \in Codes
    BY DEF Codes
  <2> QED
    BY <1>2, <2>1, TakeTypes DEF Choose, TypeOK
<1>3. ASSUME NEW w \in Workers, SetBuf(w) \/ SetIdx(w) \/ Add(w) \/ Load(w) \/ AddFails(w)
      PROVE  TypeOK'
  <2>1. UNCHANGED <<state, serv, toSend>>
    BY <1>3 DEF SetBuf, SetIdx, Add, Load, AddFails
  <2>2. job[w] # NoJob /\ job' \in [Workers -> Jobs \cup {NoJob}]
    BY <1>3, StepJob DEF TypeOK
  <2>3. job[w].serv \in Objects /\ job[w].conn \in Conns /\ toSend[job[w].conn] \in Nat
    BY <2>2, JobType DEF TypeOK
  <2>4. target' \in [Objects -> Conns \cup {Nobody}] /\ idx' \in [Objects -> Nat]
    <3>1. CASE SetBuf(w)
      BY <2>3, <3>1 DEF SetBuf, TypeOK
    <3>2. CASE SetIdx(w)
      BY <2>3, <3>2 DEF SetIdx, TypeOK
    <3>3. CASE Add(w) \/ Load(w) \/ AddFails(w)
      BY <3>3 DEF Add, Load, AddFails, TypeOK
    <3> QED
      BY <1>3, <3>1, <3>2, <3>3
  <2> QED
    BY <2>1, <2>2, <2>4 DEF TypeOK
<1>4. ASSUME NEW w \in Workers, Store(w) PROVE TypeOK'
  <2>1. job[w] # NoJob /\ job' \in [Workers -> Jobs \cup {NoJob}]
    BY <1>4, StepJob DEF TypeOK
  <2>2. job[w].serv \in Objects /\ job[w].reg \in Nat /\ job[w].todo \in Seq(Pieces)
    BY <2>1, JobType
  <2>3. Length[Head(job[w].todo)] \in Nat
    BY <1>4, <2>2 DEF Store, Adding
  <2> QED
    BY <1>4, <2>1, <2>2, <2>3 DEF Store, TypeOK
<1>6. ASSUME NEW w \in Workers, Finish(w) PROVE TypeOK'
  <2>1. PICK r \in Results(w) :
          state' = [state EXCEPT ![job[w].conn] = IF r THEN "answered" ELSE "closed"]
    BY <1>6 DEF Finish
  <2>2. state' \in [Conns -> {"ready", "busy", "answered", "closed"}]
    BY <2>1 DEF TypeOK
  <2> QED
    BY <1>6, <2>2 DEF Finish, TypeOK
<1>7. ASSUME NEW c \in Conns, Write(c) \/ Open(c) PROVE TypeOK'
  BY <1>7 DEF Write, Open, Clear, TypeOK
<1>8. CASE UNCHANGED vars
  BY <1>8 DEF vars, TypeOK
<1> QED
  BY <1>1, <1>2, <1>3, <1>4, <1>6, <1>7, <1>8 DEF Next

(* Every variable of the services keeps its type, for any service table.    *)
THEOREM ServicesTypes == Spec => []TypeOK
<1>1. Init => TypeOK
  BY ServicesAssumption DEF Init, TypeOK
<1> QED
  BY <1>1, NextTypes, PTL DEF Spec
------------------------------------------------------------------------------
(* The index stays in the buffer *)

Running(w) == job[w] # NoJob

(* Whose things a job works on: a connection with a job is busy and keeps   *)
(* its service, which is of its own table; it has one job; and m_write_idx  *)
(* of a connection object is never anything but 0.                          *)
Owned ==
  /\ \A c \in Conns : toSend[c] = 0
  /\ \A c \in Conns : serv[c] # Nobody => serv[c] \in Table[c]
  /\ \A w \in Workers : Running(w) => state[job[w].conn] = "busy" /\ serv[job[w].conn] = job[w].serv
  /\ \A v, w \in Workers : Running(v) /\ Running(w) /\ job[v].conn = job[w].conn => v = w

(* The index is in the buffer, with room for the piece that was just added, *)
(* and the load that a store follows is not stale: in the objects of one    *)
(* connection.                                                              *)
Room ==
  /\ IndexFits
  /\ \A w \in Workers : Running(w) /\ Own(job[w].serv) =>
       /\ job[w].step = "load" => Fits(idx[job[w].serv], Head(job[w].todo))
       /\ job[w].step = "store" => /\ job[w].reg = idx[job[w].serv]
                                   /\ Fits(job[w].reg, Head(job[w].todo))

(* Two workers are never in one service object of one connection.           *)
LEMMA OneJobPerService ==
  ASSUME TypeOK, Owned, NEW v \in Workers, NEW w \in Workers,
         Running(v), Running(w), job[v].serv = job[w].serv, Own(job[v].serv)
  PROVE  v = w
<1>1. /\ job[v].conn \in Conns /\ job[w].conn \in Conns /\ job[v].serv \in Objects
  BY JobType DEF Running
<1>2. /\ job[v].serv \in Table[job[v].conn] /\ job[v].serv \in Table[job[w].conn]
  BY <1>1, ServicesAssumption DEF Owned, Running
<1>3. job[v].conn = job[w].conn
  BY <1>1, <1>2 DEF Own
<1> QED
  BY <1>3 DEF Owned

(* A worker that takes an idle connection does not take another's.          *)
LEMMA TakeKeeps ==
  ASSUME TypeOK, Owned, NEW u \in Workers, NEW c \in Conns, NEW o \in Objects, NEW code, NEW chose,
         Take(u, c, o, code, chose)
  PROVE  /\ job'[u] = NewJob(c, o, code, chose) /\ \A w \in Workers \ {u} : job'[w] = job[w]
         /\ \A w \in Workers : Running(w) => w # u /\ job[w].conn # c
         /\ state'[c] = "busy" /\ \A d \in Conns \ {c} : state'[d] = state[d]
<1>1. /\ job'[u] = NewJob(c, o, code, chose) /\ \A w \in Workers \ {u} : job'[w] = job[w]
      /\ state'[c] = "busy" /\ \A d \in Conns \ {c} : state'[d] = state[d]
  BY DEF Take, TypeOK
<1>2. ASSUME NEW w \in Workers, Running(w) PROVE w # u /\ job[w].conn # c
  BY <1>2 DEF Take, Running, Owned
<1> QED
  BY <1>1, <1>2

(* A step of a worker in its job keeps the job's place.                     *)
Within(u) ==
  /\ Running(u) /\ UNCHANGED <<state, serv, toSend>>
  /\ job' = [job EXCEPT ![u] = job'[u]]
  /\ job'[u] # NoJob /\ job'[u].conn = job[u].conn /\ job'[u].serv = job[u].serv

(* Every step of a job but the first and the last is of that kind.          *)
LEMMA WithinSteps ==
  ASSUME TypeOK, NEW u \in Workers,
         SetBuf(u) \/ SetIdx(u) \/ Add(u) \/ Load(u) \/ Store(u) \/ AddFails(u)
  PROVE  Within(u)
<1>1. Running(u) /\ UNCHANGED <<state, serv, toSend>>
  BY DEF SetBuf, SetIdx, Add, Load, Store, AddFails, Adding, Step, Running
<1>2. job[u] \in Jobs
  BY <1>1, JobType DEF Running
<1>3. job' = [job EXCEPT ![u] = job'[u]] /\ job'[u] # NoJob
  BY StepJob, JobAssumption
<1>4. job'[u].conn = job[u].conn /\ job'[u].serv = job[u].serv
  <2>1. CASE SetBuf(u) \/ SetIdx(u) \/ Add(u)
    BY <1>2, <2>1 DEF SetBuf, SetIdx, Add, Step, TypeOK, Jobs
  <2>2. CASE Load(u)
    BY <1>2, <2>2 DEF Load, TypeOK, Jobs
  <2>3. CASE Store(u)
    BY <1>2, <2>3 DEF Store, Counted, TypeOK, Jobs
  <2>4. CASE AddFails(u)
    BY <1>2, <2>4 DEF AddFails, TypeOK, Jobs
  <2> QED
    BY <2>1, <2>2, <2>3, <2>4
<1> QED
  BY <1>1, <1>3, <1>4 DEF Within

(* Who owns what survives every step.                                       *)
LEMMA OwnedKept == ASSUME TypeOK, TypeOK', Owned, [Next]_vars PROVE Owned'
<1> USE ServicesAssumption DEF Running
<1>1. ASSUME NEW u \in Workers, NEW c \in Conns, NEW o \in Objects, NEW code, NEW chose,
             Take(u, c, o, code, chose), serv' = [serv EXCEPT ![c] = o], o \in Table[c],
             UNCHANGED toSend
      PROVE  Owned'
  <2>1. /\ job'[u] = NewJob(c, o, code, chose) /\ \A w \in Workers \ {u} : job'[w] = job[w]
        /\ \A w \in Workers : job[w] # NoJob => w # u /\ job[w].conn # c
        /\ state'[c] = "busy" /\ \A d \in Conns \ {c} : state'[d] = state[d]
    BY <1>1, TakeKeeps
  <2>2. job'[u].conn = c /\ job'[u].serv = o
    BY <2>1 DEF NewJob
  <2>3. serv'[c] = o /\ \A d \in Conns \ {c} : serv'[d] = serv[d]
    BY <1>1 DEF TypeOK
  <2>4. \A w \in Workers : job[w] # NoJob => job[w].conn \in Conns
    BY JobType
  <2>5. \A d \in Conns : serv'[d] # Nobody => serv'[d] \in Table[d]
    BY <1>1, <2>3 DEF Owned
  <2>6. \A w \in Workers : job'[w] # NoJob =>
          state'[job'[w].conn] = "busy" /\ serv'[job'[w].conn] = job'[w].serv
    BY <2>1, <2>2, <2>3, <2>4 DEF Owned
  <2>7. \A v, w \in Workers :
          job'[v] # NoJob /\ job'[w] # NoJob /\ job'[v].conn = job'[w].conn => v = w
    BY <2>1, <2>2 DEF Owned
  <2> QED
    BY <1>1, <2>5, <2>6, <2>7 DEF Owned
<1>2. ASSUME NEW u \in Workers, NEW c \in Conns, Reuse(u, c) PROVE Owned'
  <2>1. /\ serv[c] \in Objects /\ serv[c] \in Table[c]
        /\ serv' = [serv EXCEPT ![c] = serv[c]] /\ UNCHANGED toSend
    BY <1>2 DEF Reuse, TypeOK, Owned
  <2>2. PICK code : Take(u, c, serv[c], code, FALSE)
    BY <1>2 DEF Reuse
  <2> QED
    BY <1>1, <2>1, <2>2
<1>3. ASSUME NEW u \in Workers, NEW c \in Conns, NEW o \in Objects, Choose(u, c, o) PROVE Owned'
  BY <1>1, <1>3 DEF Choose
<1>4. ASSUME NEW u \in Workers, Within(u) PROVE Owned'
  <2>1. /\ UNCHANGED <<state, serv, toSend>>
        /\ \A w \in Workers \ {u} : job'[w] = job[w]
        /\ job[u] # NoJob /\ job'[u].conn = job[u].conn /\ job'[u].serv = job[u].serv
    BY <1>4 DEF Within, TypeOK
  <2>2. \A w \in Workers : job'[w] # NoJob =>
          state'[job'[w].conn] = "busy" /\ serv'[job'[w].conn] = job'[w].serv
    BY <2>1 DEF Owned
  <2>3. \A v, w \in Workers :
          job'[v] # NoJob /\ job'[w] # NoJob /\ job'[v].conn = job'[w].conn => v = w
    BY <2>1 DEF Owned
  <2> QED
    BY <2>1, <2>2, <2>3 DEF Owned
<1>5. ASSUME NEW u \in Workers, SetBuf(u) \/ SetIdx(u) \/ Add(u) \/ Load(u) \/ Store(u) \/ AddFails(u)
      PROVE  Owned'
  BY <1>4, <1>5, WithinSteps
<1>6. ASSUME NEW u \in Workers, Finish(u) PROVE Owned'
  <2>1. /\ job[u] # NoJob /\ job'[u] = NoJob /\ \A w \in Workers \ {u} : job'[w] = job[w]
        /\ \A d \in Conns \ {job[u].conn} : state'[d] = state[d]
        /\ UNCHANGED <<serv, toSend>>
    BY <1>6 DEF Finish, Assembled, TypeOK
  <2>2. \A w \in Workers \ {u} : job[w] # NoJob => job[w].conn \in Conns \ {job[u].conn}
    BY <2>1, JobType DEF Owned
  <2> QED
    BY <2>1, <2>2 DEF Owned
<1>7. ASSUME NEW c \in Conns, Write(c) \/ Open(c) PROVE Owned'
  <2>1. /\ state[c] # "busy" /\ UNCHANGED <<serv, job>>
        /\ \A d \in Conns \ {c} : state'[d] = state[d] /\ toSend'[d] = toSend[d]
        /\ toSend'[c] = 0
    BY <1>7 DEF Write, Open, Clear, TypeOK
  <2>2. \A w \in Workers : job[w] # NoJob => job[w].conn \in Conns \ {c}
    BY <2>1, JobType DEF Owned
  <2> QED
    BY <2>1, <2>2 DEF Owned
<1>8. CASE UNCHANGED vars
  BY <1>8 DEF vars, Owned
<1> QED
  BY <1>2, <1>3, <1>5, <1>6, <1>7, <1>8 DEF Next

(* A step of one worker in its job leaves the service of another alone, if  *)
(* that is of one connection.                                               *)
LEMMA OthersKeepIdx ==
  ASSUME TypeOK, Owned, NEW u \in Workers, NEW w \in Workers \ {u}, Running(w), Own(job[w].serv),
         SetBuf(u) \/ SetIdx(u) \/ Add(u) \/ Load(u) \/ Store(u) \/ AddFails(u)
  PROVE  job'[w] = job[w] /\ idx'[job[w].serv] = idx[job[w].serv]
<1>1. Within(u)
  BY WithinSteps
<1>2. job[w].serv # job[u].serv
  BY <1>1, OneJobPerService DEF Within
<1>3. job[w].serv \in Objects
  BY JobType DEF Running
<1>4. idx'[job[w].serv] = idx[job[w].serv]
  BY <1>2, <1>3 DEF SetBuf, SetIdx, Add, Load, Store, AddFails, TypeOK
<1> QED
  BY <1>1, <1>4 DEF Within, TypeOK

(* Steps that neither add nor give an index leave the room as it was.       *)
LEMMA RoomUntouched ==
  ASSUME Room, UNCHANGED idx,
         \A w \in Workers : Running(w)' => \/ job'[w] = job[w]
                                           \/ job'[w].step \notin {"load", "store"}
  PROVE  Room'
BY DEF Room, IndexFits, Running

(* The room for the next piece survives every step.                         *)
LEMMA RoomKept == ASSUME TypeOK, TypeOK', Owned, Room, [Next]_vars PROVE Room'
<1> USE ServicesAssumption
<1>1. ASSUME NEW u \in Workers, NEW c \in Conns, NEW o \in Objects, NEW code, NEW chose,
             Take(u, c, o, code, chose), UNCHANGED idx
      PROVE  Room'
  <2>1. job'[u].step \notin {"load", "store"} /\ \A w \in Workers \ {u} : job'[w] = job[w]
    BY <1>1 DEF Take, NewJob, TypeOK
  <2> QED
    BY <1>1, <2>1, RoomUntouched
<1>2. ASSUME NEW u \in Workers, NEW c \in Conns, Reuse(u, c) PROVE Room'
  BY <1>1, <1>2 DEF Reuse, TypeOK
<1>3. ASSUME NEW u \in Workers, NEW c \in Conns, NEW o \in Objects, Choose(u, c, o) PROVE Room'
  BY <1>1, <1>3 DEF Choose
<1>4. ASSUME NEW u \in Workers, SetBuf(u) \/ AddFails(u) PROVE Room'
  <2>1. \A w \in Workers \ {u} : job'[w] = job[w]
    BY <1>4, StepJob DEF TypeOK
  <2>2. job[u] \in Jobs /\ UNCHANGED idx
    BY <1>4, StepJob, JobType DEF SetBuf, AddFails
  <2>3. job'[u].step \notin {"load", "store"}
    <3>1. CASE SetBuf(u)
      BY <2>2, <3>1 DEF SetBuf, Step, TypeOK, Jobs
    <3>2. CASE AddFails(u)
      BY <2>2, <3>2 DEF AddFails, Adding, TypeOK, Jobs
    <3> QED
      BY <1>4, <3>1, <3>2
  <2> QED
    BY <2>1, <2>2, <2>3, RoomUntouched
<1>5. ASSUME NEW u \in Workers, SetIdx(u) \/ Add(u) \/ Load(u) \/ Store(u) PROVE Room'
  <2> DEFINE o == job[u].serv
             head == Head(job[u].todo)
  <2>1. /\ job[u] # NoJob /\ job[u] \in Jobs /\ o \in Objects /\ job[u].conn \in Conns
        /\ job[u].reg \in Nat /\ job[u].todo \in Seq(Pieces)
    BY <1>5, StepJob, JobType
  <2>2. /\ \A w \in Workers \ {u} : job[w] # NoJob /\ Own(job[w].serv) =>
             job'[w] = job[w] /\ idx'[job[w].serv] = idx[job[w].serv]
        /\ \A w \in Workers \ {u} : job'[w] = job[w]
    BY <1>5, OthersKeepIdx, StepJob DEF TypeOK, Running
  <2>3. job'[u].serv = o
    BY <1>5, WithinSteps DEF Within
  <2>4. /\ IndexFits'
        /\ Own(o) /\ job'[u].step = "load" => Fits(idx'[o], Head(job'[u].todo))
        /\ Own(o) /\ job'[u].step = "store" => /\ job'[u].reg = idx'[o]
                                               /\ Fits(job'[u].reg, Head(job'[u].todo))
    <3>1. CASE SetIdx(u)
      <4>1. /\ idx' = [idx EXCEPT ![o] = 0] /\ job'[u] = [job[u] EXCEPT !.step = "add"]
        BY <2>1, <3>1 DEF SetIdx, Step, Owned, TypeOK
      <4>2. IndexFits'
        BY <2>1, <4>1 DEF Room, IndexFits, TypeOK
      <4> QED
        BY <2>1, <4>1, <4>2 DEF Jobs
    <3>2. CASE Add(u)
      <4>1. /\ UNCHANGED idx /\ Fits(idx[o], head)
            /\ job'[u].step = "load" /\ job'[u].todo = job[u].todo
        BY <2>1, <3>2 DEF Add, Step, TypeOK, Jobs
      <4> QED
        BY <4>1 DEF Room, IndexFits
    <3>3. CASE Load(u)
      <4>1. /\ UNCHANGED idx
            /\ Own(o) => Fits(idx[o], head)
            /\ job'[u].step = "store" /\ job'[u].reg = idx[o] /\ job'[u].todo = job[u].todo
        BY <2>1, <3>3 DEF Load, Adding, TypeOK, Jobs, Room, Running
      <4> QED
        BY <4>1 DEF Room, IndexFits
    <3>4. CASE Store(u)
      <4>1. /\ idx' = [idx EXCEPT ![o] = job[u].reg + Length[head]]
            /\ Own(o) => Fits(job[u].reg, head)
            /\ job'[u].step = "add"
        BY <2>1, <3>4 DEF Store, Adding, Counted, TypeOK, Jobs, Room, Running
      <4>2. Own(o) => job[u].reg + Length[head] < Capacity
        BY <4>1 DEF Fits
      <4>3. IndexFits'
        BY <2>1, <4>1, <4>2 DEF Room, IndexFits, TypeOK
      <4> QED
        BY <4>1, <4>3
    <3> QED
      BY <1>5, <3>1, <3>2, <3>3, <3>4
  <2> HIDE DEF o, head
  <2>5. ASSUME NEW w \in Workers \ {u}, job'[w] # NoJob, Own(job'[w].serv)
        PROVE  /\ job'[w].step = "load" => Fits(idx'[job'[w].serv], Head(job'[w].todo))
               /\ job'[w].step = "store" => /\ job'[w].reg = idx'[job'[w].serv]
                                            /\ Fits(job'[w].reg, Head(job'[w].todo))
    BY <2>2, <2>5 DEF Room, Running
  <2> QED
    BY <2>3, <2>4, <2>5 DEF Room, Running
<1>6. ASSUME NEW u \in Workers, Finish(u) PROVE Room'
  <2>1. /\ job'[u] = NoJob /\ \A w \in Workers \ {u} : job'[w] = job[w]
        /\ UNCHANGED idx
    BY <1>6 DEF Finish, TypeOK
  <2> QED
    BY <2>1, RoomUntouched DEF Running
<1>7. ASSUME NEW c \in Conns, Write(c) \/ Open(c) PROVE Room'
  BY <1>7, RoomUntouched DEF Write, Open, Clear
<1>8. CASE UNCHANGED vars
  BY <1>8, RoomUntouched DEF vars
<1> QED
  BY <1>2, <1>3, <1>4, <1>5, <1>6, <1>7, <1>8 DEF Next

------------------------------------------------------------------------------
(* The response is whole *)

(* Moving the first piece of what is left to the end of what was added.     *)
LEMMA MoveOne ==
  ASSUME NEW s \in Seq(Pieces), NEW t \in Seq(Pieces), t # <<>>
  PROVE  Append(s, Head(t)) \o Tail(t) = s \o t
<1> DEFINE e == Head(t)
           r == Tail(t)
           one == <<e>>
<1>1. e \in Pieces /\ r \in Seq(Pieces) /\ t = one \o r
  OBVIOUS
<1>2. one \in Seq(Pieces)
  BY <1>1
<1>3. Append(s, e) = s \o one
  BY <1>1, AppendIsConcat
<1> HIDE DEF e, r, one
<1>4. (s \o one) \o r = s \o (one \o r)
  BY <1>1, <1>2, ConcatAssociative
<1>5. Append(s, e) \o r = s \o t
  BY <1>1, <1>3, <1>4
<1> QED
  BY <1>5 DEF e, r

(* The last piece is the last of what is left, until nothing is left.       *)
LEMMA TailKeepsLast ==
  ASSUME NEW t \in Seq(Pieces), t # <<>>, t[Len(t)] = "content", Head(t) # "content"
  PROVE  Tail(t) \in Seq(Pieces) /\ Tail(t) # <<>> /\ Tail(t)[Len(Tail(t))] = "content"
<1>1. Len(t) \in Nat /\ Len(t) > 1
  OBVIOUS
<1>2. Tail(t) \in Seq(Pieces) /\ Len(Tail(t)) = Len(t) - 1
  OBVIOUS
<1>3. Tail(t)[Len(t) - 1] = t[Len(t)]
  BY <1>1
<1> DEFINE r == Tail(t)
           n == Len(t) - 1
<1>4. r \in Seq(Pieces) /\ Len(r) = n /\ n > 0 /\ r[n] = "content"
  BY <1>1, <1>2, <1>3
<1> HIDE DEF r, n
<1>5. r # <<>> /\ r[Len(r)] = "content"
  BY <1>4
<1> QED
  BY <1>4, <1>5 DEF r

(* The rest of a response that ends with its content ends with it too.      *)
LEMMA RestKeepsLast ==
  ASSUME NEW s \in Seq(Pieces), NEW t \in Seq(Pieces), t # <<>>,
         (s \o t)[Len(s \o t)] = "content"
  PROVE  t[Len(t)] = "content"
<1>1. Len(t) > 0
  OBVIOUS
<1> QED
  BY <1>1, ConcatLast, Zenon

(* What was added and what is left make up the response; or some of it was  *)
(* lost, and then the content, which is left, will not fit either.          *)
Whole(w) == job[w].added \o job[w].todo = Answer(Kind[job[w].serv], job[w].code)
Cut(w) ==
  /\ job[w].step \in {"add", "load", "store"}
  /\ job[w].todo # <<>> /\ job[w].todo[Len(job[w].todo)] = "content"
  /\ ~Fits(idx[job[w].serv], "content")

(* The responses that end with their content. *)
Checked(w) == job[w].code \notin {"FILE_REQUEST", "EMPTY_FILE"}

Complete ==
  \A w \in Workers :
    Running(w) /\ Own(job[w].serv) /\ job[w].ok /\ Checked(w) => Whole(w) \/ Cut(w)

(* The steps that do not touch the response.                                *)
LEMMA QuietSteps ==
  ASSUME TypeOK, NEW u \in Workers, SetBuf(u) \/ SetIdx(u) \/ Add(u) \/ Load(u)
  PROVE  /\ job'[u].ok = job[u].ok /\ job'[u].added = job[u].added
         /\ job'[u].todo = job[u].todo /\ job'[u].serv = job[u].serv /\ job'[u].code = job[u].code
         /\ job[u].step \in {"add", "load"} =>
              job'[u].step \in {"load", "store"} /\ UNCHANGED idx
<1>1. job[u] \in Jobs
  BY StepJob, JobType
<1>2. CASE SetBuf(u)
  BY <1>1, <1>2 DEF SetBuf, Step, TypeOK, Jobs
<1>3. CASE SetIdx(u)
  BY <1>1, <1>3 DEF SetIdx, Step, TypeOK, Jobs
<1>4. CASE Add(u)
  BY <1>1, <1>4 DEF Add, Step, TypeOK, Jobs
<1>5. CASE Load(u)
  BY <1>1, <1>5 DEF Load, TypeOK, Jobs
<1> QED
  BY <1>2, <1>3, <1>4, <1>5

(* A job stays one for the same code.                                       *)
LEMMA SameCode ==
  ASSUME TypeOK, NEW u \in Workers,
         SetBuf(u) \/ SetIdx(u) \/ Add(u) \/ Load(u) \/ Store(u) \/ AddFails(u)
  PROVE  job'[u].code = job[u].code
<1>1. job[u] \in Jobs
  BY StepJob, JobType
<1>2. CASE SetBuf(u) \/ SetIdx(u) \/ Add(u) \/ Load(u)
  BY <1>2, QuietSteps
<1>3. CASE Store(u)
  BY <1>1, <1>3 DEF Store, Counted, TypeOK, Jobs
<1>4. CASE AddFails(u)
  BY <1>1, <1>4 DEF AddFails, TypeOK, Jobs
<1> QED
  BY <1>2, <1>3, <1>4

(* A step of a job keeps its response whole, or cuts it.                    *)
LEMMA StepCompletes ==
  ASSUME TypeOK, Room, NEW u \in Workers, Own(job[u].serv), job[u].ok => Whole(u) \/ Cut(u),
         SetBuf(u) \/ SetIdx(u) \/ Add(u) \/ Load(u) \/ Store(u) \/ AddFails(u),
         job'[u].ok, Checked(u)
  PROVE  Whole(u)' \/ Cut(u)'
<1> USE ServicesAssumption
<1> DEFINE todo == job[u].todo
           at == idx[job[u].serv]
<1>1. /\ Running(u) /\ job[u] \in Jobs /\ job[u].serv \in Objects /\ job[u].code \in Codes
      /\ todo \in Seq(Pieces) /\ job[u].added \in Seq(Pieces) /\ at \in Nat
  BY StepJob, JobType DEF Running, TypeOK
<1>2. CASE SetBuf(u) \/ SetIdx(u) \/ Add(u) \/ Load(u)
  <2>1. /\ job'[u].ok = job[u].ok /\ job'[u].added = job[u].added
        /\ job'[u].todo = job[u].todo /\ job'[u].serv = job[u].serv /\ job'[u].code = job[u].code
        /\ job[u].step \in {"add", "load"} =>
             job'[u].step \in {"load", "store"} /\ UNCHANGED idx
    BY <1>2, QuietSteps
  <2>2. CASE Whole(u)
    BY <2>1, <2>2 DEF Whole
  <2>3. CASE Cut(u)
    <3>1. job[u].step \in {"add", "load"}
      BY <1>2, <2>3 DEF Cut, SetBuf, SetIdx, Add, Load, Adding, Step
    <3> QED
      BY <2>1, <2>3, <3>1 DEF Cut
  <2> QED
    BY <2>1, <2>2, <2>3
<1>3. CASE Store(u)
  <2>1. /\ todo # <<>> /\ job[u].step = "store"
        /\ idx' = [idx EXCEPT ![job[u].serv] = job[u].reg + Length[Head(todo)]]
        /\ job'[u].ok = job[u].ok /\ job'[u].serv = job[u].serv /\ job'[u].code = job[u].code
        /\ job'[u].step = "add" /\ job'[u].todo = Tail(todo)
        /\ job'[u].added = Append(job[u].added, Head(todo))
    BY <1>1, <1>3 DEF Store, Adding, Counted, TypeOK, Jobs
  <2>2. CASE Whole(u)
    <3>1. Append(job[u].added, Head(todo)) \o Tail(todo) = job[u].added \o todo
      BY <1>1, <2>1, MoveOne
    <3>2. job[u].added \o todo = Answer(Kind[job[u].serv], job[u].code)
      BY <2>2 DEF Whole
    <3>3. job'[u].added \o job'[u].todo = Answer(Kind[job'[u].serv], job'[u].code)
      BY <2>1, <3>1, <3>2
    <3> QED
      BY <3>3 DEF Whole
  <2>3. CASE Cut(u)
    <3>1. job[u].reg = at /\ Fits(at, Head(todo)) /\ ~Fits(at, "content")
      BY <1>1, <2>1, <2>3 DEF Room, Cut
    <3>2. Head(todo) # "content" /\ Head(todo) \in Pieces /\ "content" \in Pieces
      <4>1. Head(todo) # "content"
        BY <3>1, Zenon
      <4>2. "content" \in Pieces
        BY DEF Pieces
      <4>3. Head(todo) \in Pieces
        <5>1. todo \in Seq(Pieces) /\ todo # <<>>
          BY <1>1, <2>1
        <5> QED
          BY <5>1
      <4> QED
        BY <4>1, <4>2, <4>3
    <3>3. idx'[job[u].serv] = at + Length[Head(todo)]
      BY <1>1, <2>1, <3>1 DEF TypeOK
    <3>4. ~Fits(idx'[job[u].serv], "content")
      BY <1>1, <3>1, <3>2, <3>3 DEF Fits
    <3>5. Tail(todo) # <<>> /\ Tail(todo)[Len(Tail(todo))] = "content"
      <4>1. todo[Len(todo)] = "content"
        BY <2>3 DEF Cut
      <4> QED
        BY <1>1, <2>1, <3>2, <4>1, TailKeepsLast
    <3> QED
      BY <2>1, <3>4, <3>5 DEF Cut
  <2> QED
    BY <2>1, <2>2, <2>3
<1>4. CASE AddFails(u)
  <2>1. /\ ~Fits(at, Head(todo)) /\ todo # <<>> /\ job[u].step = "add" /\ UNCHANGED idx
        /\ job'[u] = IF Head(todo) \in {"content", "empty_page"}
                     THEN [job[u] EXCEPT !.todo = <<>>, !.ok = FALSE]
                     ELSE [job[u] EXCEPT !.todo = Tail(todo)]
    BY <1>4 DEF AddFails, Adding, TypeOK
  <2>2. /\ Head(todo) # "content" /\ job'[u].todo = Tail(todo) /\ job'[u].step = "add"
        /\ job[u].ok /\ job'[u].serv = job[u].serv
    BY <1>1, <2>1 DEF Jobs
  <2>3. ~Fits(at, "content")
    <3>1. Head(todo) \in Pieces /\ "content" \in Pieces
      BY <1>1, <2>1 DEF Pieces
    <3> QED
      BY <1>1, <2>1, <3>1 DEF Fits
  <2>4. todo[Len(todo)] = "content"
    <3>1. CASE Cut(u)
      BY <3>1 DEF Cut
    <3>2. CASE Whole(u)
      <4> DEFINE answer == Answer(Kind[job[u].serv], job[u].code)
      <4>1. job[u].added \o todo = answer
        BY <3>2 DEF Whole
      <4>2. Kind[job[u].serv] \in Journal
        BY <1>1
      <4>3. answer = <<>> \/ answer[Len(answer)] = "content"
        BY <1>1, <4>2, AnswerFacts DEF Checked
      <4>4. todo \in Seq(Pieces) /\ todo # <<>>
        BY <1>1, <2>1
      <4> HIDE DEF answer, todo
      <4>5. job[u].added \o todo # <<>>
        BY <1>1, <4>4, ConcatEqualIffEmpty
      <4>6. (job[u].added \o todo)[Len(job[u].added \o todo)] = "content"
        BY <4>1, <4>3, <4>5
      <4> QED
        BY <1>1, <4>4, <4>6, RestKeepsLast
    <3> QED
      BY <2>2, <3>1, <3>2
  <2>5. Tail(todo) # <<>> /\ Tail(todo)[Len(Tail(todo))] = "content"
    BY <1>1, <2>1, <2>2, <2>4, TailKeepsLast
  <2> QED
    BY <2>1, <2>2, <2>3, <2>5 DEF Cut
<1> QED
  BY <1>2, <1>3, <1>4

(* Every step keeps every response whole, or cuts it.                       *)
LEMMA CompleteKept ==
  ASSUME TypeOK, TypeOK', Owned, Room, Complete, [Next]_vars PROVE Complete'
<1> USE ServicesAssumption
<1>1. ASSUME NEW u \in Workers, NEW c \in Conns, NEW o \in Objects, NEW code \in Codes, NEW chose,
             Take(u, c, o, code, chose), UNCHANGED idx
      PROVE  Complete'
  <2>1. job'[u] = NewJob(c, o, code, chose) /\ \A w \in Workers \ {u} : job'[w] = job[w]
    BY <1>1 DEF Take, TypeOK
  <2>2. /\ job'[u].added = <<>> /\ job'[u].todo = Answer(Kind[o], code)
        /\ job'[u].serv = o /\ job'[u].code = code
    BY <2>1 DEF NewJob
  <2>3. Kind[o] \in Journal
    OBVIOUS
  <2>4. Answer(Kind[o], code) \in Seq(Pieces)
    BY <2>3, AnswerFacts
  <2>5. <<>> \o Answer(Kind[o], code) = Answer(Kind[o], code)
    BY <2>4, ConcatEmptySeq
  <2>6. Whole(u)'
    BY <2>2, <2>5 DEF Whole
  <2> QED
    BY <1>1, <2>1, <2>6 DEF Complete, Whole, Cut, Running, Checked
<1>2. ASSUME NEW u \in Workers, NEW c \in Conns, Reuse(u, c) PROVE Complete'
  <2>1. PICK code \in do_request(Kind[serv[c]]) \cup {"BAD_REQUEST"} : Take(u, c, serv[c], code, FALSE)
    BY <1>2 DEF Reuse
  <2>2. serv[c] \in Objects /\ code \in Codes /\ UNCHANGED idx
    BY <1>2, <2>1 DEF Reuse, TypeOK, do_request, Failures, Codes
  <2> QED
    BY <1>1, <2>1, <2>2
<1>3. ASSUME NEW u \in Workers, NEW c \in Conns, NEW o \in Objects, Choose(u, c, o) PROVE Complete'
  <2>1. "BAD_REQUEST" \in Codes
    BY DEF Codes
  <2> QED
    BY <1>1, <1>3, <2>1 DEF Choose
<1>4. ASSUME NEW u \in Workers, SetBuf(u) \/ SetIdx(u) \/ Add(u) \/ Load(u) \/ Store(u) \/ AddFails(u)
      PROVE  Complete'
  <2>1. ASSUME NEW w \in Workers \ {u}, job'[w] # NoJob, Own(job'[w].serv), job'[w].ok, Checked(w)'
        PROVE  Whole(w)' \/ Cut(w)'
    <3>1. job'[w] = job[w]
      BY <1>4, StepJob DEF TypeOK
    <3>2. Running(w) /\ Own(job[w].serv)
      BY <2>1, <3>1 DEF Running
    <3>3. idx'[job[w].serv] = idx[job[w].serv]
      BY <1>4, <3>2, OthersKeepIdx
    <3> QED
      BY <2>1, <3>1, <3>2, <3>3 DEF Complete, Whole, Cut, Checked
  <2>2. ASSUME Own(job'[u].serv), job'[u].ok, Checked(u)' PROVE Whole(u)' \/ Cut(u)'
    <3>1. Running(u) /\ Own(job[u].serv)
      BY <1>4, <2>2, WithinSteps DEF Within
    <3>2. Checked(u)
      BY <1>4, <2>2, SameCode DEF Checked
    <3>3. job[u].ok => Whole(u) \/ Cut(u)
      BY <3>1, <3>2 DEF Complete
    <3> QED
      BY <1>4, <2>2, <3>1, <3>2, <3>3, StepCompletes
  <2> QED
    BY <2>1, <2>2 DEF Complete, Running
<1>5. ASSUME NEW u \in Workers, Finish(u) PROVE Complete'
  <2>1. /\ job'[u] = NoJob /\ \A w \in Workers \ {u} : job'[w] = job[w]
        /\ UNCHANGED idx
    BY <1>5 DEF Finish, TypeOK
  <2> QED
    BY <2>1 DEF Complete, Running, Whole, Cut, Checked
<1>6. ASSUME NEW c \in Conns, Write(c) \/ Open(c) PROVE Complete'
  BY <1>6 DEF Write, Open, Clear, Complete, Running, Whole, Cut, Checked
<1>7. CASE UNCHANGED vars
  BY <1>7 DEF vars, Complete, Running, Whole, Cut, Checked
<1> QED
  BY <1>2, <1>3, <1>4, <1>5, <1>6, <1>7 DEF Next

------------------------------------------------------------------------------
(* The theorems *)

(* Everything above, together.                                              *)
IInv == TypeOK /\ Owned /\ Room /\ Complete

(* The invariant holds from the start and survives every step.              *)
LEMMA Invariance == Spec => []IInv
<1>1. Init => IInv
  <2> SUFFICES ASSUME Init PROVE IInv
    OBVIOUS
  <2>1. TypeOK
    BY ServicesAssumption DEF Init, TypeOK
  <2>2. Owned
    BY DEF Init, Owned, Running
  <2>3. Room
    BY ServicesAssumption DEF Init, Room, IndexFits, Running
  <2>4. Complete
    BY DEF Init, Complete, Running
  <2> QED
    BY <2>1, <2>2, <2>3, <2>4 DEF IInv
<1>2. IInv /\ [Next]_vars => IInv'
  BY NextTypes, OwnedKept, RoomKept, CompleteKept DEF IInv
<1> QED
  BY <1>1, <1>2, PTL DEF Spec

(* The write index of a service that is in one table never reaches the end  *)
(* of the buffer, for any number of responses, connections and workers, any *)
(* tables and any lengths: one request at a time is in that service, so     *)
(* that the room add_response found is still there when it counts the text  *)
(* (method.h 32-48).                                                        *)
THEOREM IndexStaysInside == Spec => []IndexFits
<1>1. IInv => IndexFits
  BY DEF IInv, Room
<1> QED
  BY <1>1, Invariance, PTL

(* A response for which process_write may return true is whole, file        *)
(* headers apart and in a service that is in one table, for any lengths of  *)
(* the pieces: where a piece is lost the content, which is no shorter and   *)
(* comes last, is lost too, and that is the one result the services look    *)
(* at (method.h 38-48).                                                     *)
THEOREM TrueMeansComplete == Spec => []CompleteIfTrue
<1>1. IInv => CompleteIfTrue
  <2> SUFFICES ASSUME IInv, NEW w \in Workers, Assembled(w), Own(job[w].serv), TRUE \in Results(w),
                      job[w].code # "FILE_REQUEST"
               PROVE  job[w].added = Answer(Kind[job[w].serv], job[w].code)
    BY DEF CompleteIfTrue
  <2>1. job[w].ok /\ Running(w) /\ job[w].todo = <<>> /\ Checked(w)
    BY DEF Results, Returns, Assembled, Running, Checked
  <2>2. job[w].added \in Seq(Pieces)
    BY <2>1, JobType DEF IInv, Running
  <2>3. Whole(w)
    BY <2>1 DEF IInv, Complete, Cut
  <2>4. job[w].added \o <<>> = job[w].added
    BY <2>2, ConcatEmptySeq
  <2> QED
    BY <2>1, <2>3, <2>4 DEF Whole
<1> QED
  BY <1>1, Invariance, PTL
==============================================================================
