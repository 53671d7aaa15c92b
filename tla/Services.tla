------------------------------- MODULE Services -------------------------------
(***************************************************************************)
(* The services and how they assemble a response.  Every connection object *)
(* has a services_table of its own, a map from methods (the User-Agent is  *)
(* left out: one application) to service objects that somebody registered; *)
(* find_service returns the registered object itself, and m_write_buf and  *)
(* m_write_idx of that object are what the last init_method made them.     *)
(* Nothing in the program says whether two tables may hold one object:     *)
(* Table is a parameter.                                                   *)
(*                                                                         *)
(* HttpConn says which requests reach process_write: one that chose its    *)
(* service with its User-Agent ends in BAD_REQUEST, and one that did not   *)
(* uses what serv was left as, for BAD_REQUEST or do_request.  A request   *)
(* that meets a null serv kills the process and is left out here.          *)
(*                                                                         *)
(* A response is a sequence of pieces, one per call of add_response, each  *)
(* with its length.  What the buffers hold is left out: a piece is written *)
(* to the buffer of target from idx on, and one that does not fit is cut,  *)
(* not counted, and overwritten by the next.                               *)
(*                                                                         *)
(* Bounds: none but the buffer's, Capacity.                                *)
(***************************************************************************)
EXTENDS Integers, Sequences

CONSTANTS Conns,     \* the connection objects
          Workers,   \* the pool's threads
          Objects,   \* the service objects
          Kind,      \* Kind[o]: the method object o is registered for
          Table,     \* Table[c]: the objects in the services_table of c
          Length,    \* Length[p]: the characters of piece p
          Capacity,  \* WRITE_BUFFER_SIZE - 1
          Nobody,    \* a null pointer
          NoJob      \* an idle worker

Journal == {"GET", "POST", "PUT", "DELETE"}

(* Status lines, headers, the error pages, and the page of an empty file.   *)
Pieces == {"200", "400", "403", "404", "500", "length", "linger", "blank",
           "content", "empty_page"}

(* No piece is longer than an error page: these have 49 to 68 characters,   *)
(* status lines 17 to 29, headers at most 28, the empty file's page 26.     *)
ASSUME ServicesAssumption ==
  /\ Kind \in [Objects -> Journal]
  /\ Table \in [Conns -> SUBSET Objects]
  /\ Length \in [Pieces -> Nat \ {0}]
  /\ \A p \in Pieces : Length[p] <= Length["content"]
  /\ Capacity \in Nat \ {0}
  /\ Nobody \notin Conns \cup Objects

(* HTTP_CODE; EMPTY_FILE is FILE_REQUEST with st_size 0. *)
Codes == {"GET_REQUEST", "BAD_REQUEST", "NO_RESOURCE", "FORBIDDEN_REQUEST",
          "FILE_REQUEST", "EMPTY_FILE", "INTERNAL_ERROR"}

------------------------------------------------------------------------------
(* The four services *)

(* search_file stops there: no such file, not readable, or a directory. *)
Failures == {"NO_RESOURCE", "FORBIDDEN_REQUEST", "BAD_REQUEST"}

(* do_request: login() and registration() succeed; a file that remove() did *)
(* delete is FORBIDDEN_REQUEST, one that it did not is GET_REQUEST.         *)
do_request(m) ==
  CASE m = "GET"    -> Failures \cup {"FILE_REQUEST", "EMPTY_FILE"}
    [] m = "DELETE" -> Failures \cup {"GET_REQUEST"}
    [] OTHER        -> {"GET_REQUEST"}

add_headers == <<"length", "linger", "blank">>
Page(status) == <<status>> \o add_headers \o <<"content">>

Status == [BAD_REQUEST |-> "400", FORBIDDEN_REQUEST |-> "403", NO_RESOURCE |-> "404",
           INTERNAL_ERROR |-> "500"]

(* The codes whose case of process_write is a page and a break. *)
Handled == [GET    |-> {"INTERNAL_ERROR", "BAD_REQUEST", "NO_RESOURCE", "FORBIDDEN_REQUEST"},
            DELETE |-> {"BAD_REQUEST", "NO_RESOURCE", "FORBIDDEN_REQUEST"},
            POST   |-> {"BAD_REQUEST"},
            PUT    |-> {"INTERNAL_ERROR", "BAD_REQUEST", "FORBIDDEN_REQUEST"}]

(* What process_write( code ) adds.  POST and DELETE have no break after    *)
(* GET_REQUEST, and a page for the other codes.                             *)
Answer(m, code) ==
  CASE code \in Handled[m]                             -> Page(Status[code])
    [] m = "GET" /\ code = "FILE_REQUEST"              -> <<"200">> \o add_headers
    [] m = "GET" /\ code = "EMPTY_FILE"                -> <<"200">> \o add_headers \o <<"empty_page">>
    [] m \in {"POST", "DELETE"} /\ code = "GET_REQUEST" -> <<"200">> \o Page("400")
    [] m \in {"POST", "DELETE"} /\ code \notin Handled[m] \cup {"GET_REQUEST"} -> Page("500")
    [] OTHER                                           -> <<>>

(* Mutant: the result of add_content is not looked at. *)
ReturnsUnchecked(m, code, ok) ==
  IF Answer(m, code) = <<>> \/ code = "EMPTY_FILE" THEN {FALSE}
  ELSE IF m = "GET" THEN {TRUE} ELSE BOOLEAN

(* What it returns, ok being the result of add_content.  Only GET has a     *)
(* return statement at the end: the others return anything.                 *)
Returns(m, code, ok) ==
  IF ~ok \/ Answer(m, code) = <<>> \/ code = "EMPTY_FILE" THEN {FALSE}
  ELSE IF m = "GET" THEN {TRUE} ELSE BOOLEAN

------------------------------------------------------------------------------
VARIABLES
  state,   \* state[c]: "ready", "busy", "answered" or "closed"
  serv,    \* serv[c]: the service of the connection object, or Nobody
  toSend,  \* toSend[c]: m_write_idx of the connection object
  target,  \* target[o]: m_write_buf of the service, as the connection it is of
  idx,     \* idx[o]: m_write_idx of the service
  job      \* job[w]: the process() the worker runs

vars == <<state, serv, toSend, target, idx, job>>

Jobs == [conn : Conns, serv : Objects, code : Codes,
         chose : BOOLEAN,       \* this request chose the service
         step : {"set_buf", "set_idx", "add", "load", "store"},
         todo : Seq(Pieces), added : Seq(Pieces),
         ok : BOOLEAN, reg : Nat]

(* A null pointer is no process(). *)
ASSUME JobAssumption == NoJob \notin Jobs

TypeOK ==
  /\ state \in [Conns -> {"ready", "busy", "answered", "closed"}]
  /\ serv \in [Conns -> Objects \cup {Nobody}]
  /\ toSend \in [Conns -> 0 .. Capacity]
  /\ target \in [Objects -> Conns \cup {Nobody}]
  /\ idx \in [Objects -> Nat]
  /\ job \in [Workers -> Jobs \cup {NoJob}]

Init ==
  /\ state = [c \in Conns |-> "ready"]
  /\ serv = [c \in Conns |-> Nobody]
  /\ toSend = [c \in Conns |-> 0]
  /\ target = [o \in Objects |-> Nobody]
  /\ idx = [o \in Objects |-> 0]
  /\ job = [w \in Workers |-> NoJob]

NewJob(c, o, code, chose) ==
  [conn |-> c, serv |-> o, code |-> code, chose |-> chose,
   step |-> IF chose THEN "set_buf" ELSE "add",
   todo |-> Answer(Kind[o], code), added |-> <<>>, ok |-> TRUE, reg |-> 0]

(* A worker takes connection c, which it has for itself (WebServer). *)
Take(w, c, o, code, chose) ==
  /\ job[w] = NoJob /\ state[c] = "ready"
  /\ state' = [state EXCEPT ![c] = "busy"]
  /\ job' = [job EXCEPT ![w] = NewJob(c, o, code, chose)]

(* The request has a User-Agent: find_service, then BAD_REQUEST. *)
Choose(w, c, o) ==
  /\ o \in Table[c]
  /\ Take(w, c, o, "BAD_REQUEST", TRUE)
  /\ serv' = [serv EXCEPT ![c] = o]
  /\ UNCHANGED <<toSend, target, idx>>

(* It has none, and serv is what an earlier request left. *)
Reuse(w, c) ==
  /\ serv[c] # Nobody
  /\ \E code \in do_request(Kind[serv[c]]) \cup {"BAD_REQUEST"} :
       Take(w, c, serv[c], code, FALSE)
  /\ UNCHANGED <<serv, toSend, target, idx>>

Step(w, from, to) ==
  /\ job[w] # NoJob /\ job[w].step = from
  /\ job' = [job EXCEPT ![w] = [job[w] EXCEPT !.step = to]]

(* init_method *)
SetBuf(w) ==
  /\ Step(w, "set_buf", "set_idx")
  /\ target' = [target EXCEPT ![job[w].serv] = job[w].conn]
  /\ UNCHANGED <<state, serv, toSend, idx>>

(* init_method gets the value of the connection's m_write_idx, not the      *)
(* variable: what add_response adds is counted in the service alone.        *)
SetIdx(w) ==
  /\ Step(w, "set_idx", "add")
  /\ idx' = [idx EXCEPT ![job[w].serv] = toSend[job[w].conn]]
  /\ UNCHANGED <<state, serv, toSend, target>>

(* A worker is in add_response, with the first piece of todo. *)
Adding(w, step) == job[w] # NoJob /\ job[w].todo # <<>> /\ job[w].step = step

(* Mutant: add_response looks at m_write_idx before the text is added. *)
FitsBefore(at, piece) == at < Capacity

(* add_response: len < WRITE_BUFFER_SIZE - 1 - m_write_idx.  The test at    *)
(* its entry is weaker, at <= Capacity.                                     *)
Fits(at, piece) == at + Length[piece] < Capacity

(* vsnprintf, and the text was not cut. *)
Add(w) ==
  /\ Adding(w, "add")
  /\ Fits(idx[job[w].serv], Head(job[w].todo))
  /\ Step(w, "add", "load")
  /\ UNCHANGED <<state, serv, toSend, target, idx>>

(* m_write_idx += len is a load and a store. *)
Load(w) ==
  /\ Adding(w, "load")
  /\ job' = [job EXCEPT ![w] = [job[w] EXCEPT !.step = "store", !.reg = idx[job[w].serv]]]
  /\ UNCHANGED <<state, serv, toSend, target, idx>>

(* The piece is part of the response. *)
Counted(j) == [j EXCEPT !.step = "add", !.todo = Tail(j.todo),
                        !.added = Append(j.added, Head(j.todo)), !.reg = 0]

(* Mutant: vsnprintf's error is added to m_write_idx. *)
StoreError(w) ==
  /\ Adding(w, "store")
  /\ idx' = [idx EXCEPT ![job[w].serv] = job[w].reg - 1]
  /\ job' = [job EXCEPT ![w] = Counted(job[w])]
  /\ UNCHANGED <<state, serv, toSend, target>>

Store(w) ==
  /\ Adding(w, "store")
  /\ idx' = [idx EXCEPT ![job[w].serv] = job[w].reg + Length[Head(job[w].todo)]]
  /\ job' = [job EXCEPT ![w] = Counted(job[w])]
  /\ UNCHANGED <<state, serv, toSend, target>>

(* add_response returns false, having written what fits and not counted it: *)
(* a page that is cut ends process_write, nobody looks at the other results *)
(* and the next piece overwrites the cut one.                               *)
AddFails(w) ==
  LET j == job[w]
  IN /\ Adding(w, "add")
     /\ ~Fits(idx[j.serv], Head(j.todo))
     /\ job' = [job EXCEPT ![w] = IF Head(j.todo) \in {"content", "empty_page"}
                                  THEN [j EXCEPT !.todo = <<>>, !.ok = FALSE]
                                  ELSE [j EXCEPT !.todo = Tail(j.todo)]]
     /\ UNCHANGED <<state, serv, toSend, target, idx>>

Assembled(w) == job[w] # NoJob /\ job[w].step = "add" /\ job[w].todo = <<>>
Results(w) == Returns(Kind[job[w].serv], job[w].code, job[w].ok)

(* process() closes the connection unless process_write returned true. *)
Finish(w) ==
  /\ Assembled(w)
  /\ \E r \in Results(w) :
       state' = [state EXCEPT ![job[w].conn] = IF r THEN "answered" ELSE "closed"]
  /\ job' = [job EXCEPT ![w] = NoJob]
  /\ UNCHANGED <<serv, toSend, target, idx>>

(* init() *)
Clear(c) ==
  /\ state' = [state EXCEPT ![c] = "ready"]
  /\ toSend' = [toSend EXCEPT ![c] = 0]
  /\ UNCHANGED <<serv, target, idx, job>>

(* The main thread: write() of a connection with m_write_idx 0 sends        *)
(* nothing.  Another value would make it call writev; nothing sets one, as  *)
(* set_write_buf is called nowhere.                                         *)
Write(c) == state[c] = "answered" /\ toSend[c] = 0 /\ Clear(c)

(* A new client gets the connection object. *)
Open(c) == state[c] = "closed" /\ Clear(c)

Next ==
  \/ \E w \in Workers :
       \/ \E c \in Conns : Reuse(w, c) \/ \E o \in Objects : Choose(w, c, o)
       \/ SetBuf(w) \/ SetIdx(w) \/ Add(w) \/ Load(w) \/ Store(w) \/ AddFails(w) \/ Finish(w)
  \/ \E c \in Conns : Write(c) \/ Open(c)

Spec == Init /\ [][Next]_vars

------------------------------------------------------------------------------
(* Properties *)

(* The object is in the table of one connection. *)
Own(o) == \A c, d \in Conns : o \in Table[c] /\ o \in Table[d] => c = d

(* add_response never moves m_write_idx to the end of the buffer, however   *)
(* many responses a service adds without init_method (method.h 32-48): for  *)
(* an object of one connection, whatever other connections share.           *)
IndexFits == \A o \in Objects : Own(o) => idx[o] < Capacity

(* A response that process_write reports as written has all its pieces:     *)
(* add_headers and the callers of add_status_line ignore that a piece did   *)
(* not fit, and a shorter one behind it may fit again, but then the content *)
(* does not.  A file's headers, which have no content behind them in the    *)
(* buffer, are the only exception (jounal_authentication_method.h 56-62,    *)
(* journal_post.h 59-97).                                                   *)
CompleteIfTrue ==
  \A w \in Workers :
    Assembled(w) /\ Own(job[w].serv) /\ TRUE \in Results(w) /\ job[w].code # "FILE_REQUEST" =>
      job[w].added = Answer(Kind[job[w].serv], job[w].code)

(* A request that chose its service writes to the buffer of its own         *)
(* connection: get_service.h line 32 has find_service copy the object.  It  *)
(* does not hold: line 33 returns the registered one.                       *)
OwnAnswer ==
  \A w \in Workers :
    Adding(w, "add") /\ job[w].chose => target[job[w].serv] = job[w].conn
==============================================================================
