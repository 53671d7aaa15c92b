------------------------------- MODULE HttpConn -------------------------------
(***************************************************************************)
(* One http_conn object, users[fd], through the requests and the clients   *)
(* it serves one after another: what process() does with the text.  Only   *)
(* one thread has the object at a time (WebServer, OneOwner), so a line of *)
(* the parser's loop is a step.                                            *)
(*                                                                         *)
(* A line is its kind and the part of it that the parser uses; the text is *)
(* abstract.  The services are known by their keys in services_table, and  *)
(* their answers are open.  The branch that enters CHECK_STATE_CONTENT is  *)
(* here and what follows it is not: as the test of serv in parse_headers   *)
(* is, no request takes it (theorem NoContent of HttpConn_proofs).         *)
(*                                                                         *)
(* Bounds: the buffer holds Size lines.                                    *)
(***************************************************************************)
EXTENDS Integers, Sequences

CONSTANTS Words,       \* the method words that clients write
          Agents,      \* the values of User-Agent
          Registered,  \* the keys of services_table: <<method, agent>>
          Size,        \* READ_BUFFER_SIZE, in lines
          NoService    \* the null pointer

(* The method words that parse_request_line knows. *)
Accepted == {"GET", "POST", "PUT", "DELETE"}

Keys == Accepted \X Agents

(* A "garbled" line has a method word, and a wrong target or version.       *)
(* parse_line's LINE_BAD is kind "broken"; a line whose end has not arrived *)
(* is not in the buffer yet (LINE_OPEN).                                    *)
Lines ==      {[kind |-> k, arg |-> w] : k \in {"request", "garbled"}, w \in Words}
         \cup {[kind |-> "agent", arg |-> a] : a \in Agents}
         \cup {[kind |-> "length", arg |-> n] : n \in {"zero", "positive"}}
         \cup {[kind |-> k, arg |-> k] : k \in {"blank", "other", "broken"}}

ASSUME HttpAssumption ==
  /\ Registered \subseteq Keys
  /\ Size \in Nat \ {0}
  /\ NoService \notin Keys

VARIABLES
  stage,     \* where the object is: see Exchange; "answering" is part of working
  up,        \* the process is alive
  buf,       \* m_read_buf
  checked,   \* m_checked_idx, in lines
  state,     \* m_check_state
  meth,      \* m_method
  length,    \* m_content_length
  serv,      \* the service of this request
  ret        \* what process_read returned

vars == <<stage, up, buf, checked, state, meth, length, serv, ret>>

request == <<buf, checked, state, meth, length>>

Codes == {"NO_REQUEST", "BAD_REQUEST", "DO_REQUEST"}

TypeOK ==
  /\ stage \in {"closed", "armed", "working", "answering", "writing"}
  /\ up \in BOOLEAN
  /\ buf \in Seq(Lines)
  /\ Len(buf) <= Size
  /\ checked \in 0 .. Len(buf)
  /\ state \in {"request", "header", "content"}
  /\ meth \in Accepted
  /\ length \in {"zero", "positive"}
  /\ serv \in Registered \cup {NoService}
  /\ ret \in Codes

(* serv has no initialiser; the memory of users is zeroed. *)
Init ==
  /\ stage = "closed" /\ up = TRUE
  /\ buf = <<>> /\ checked = 0
  /\ state = "request" /\ meth = "GET" /\ length = "zero"
  /\ serv = NoService /\ ret = "NO_REQUEST"

Goto(from, to) == up /\ stage = from /\ stage' = to

(* Mutant: init() forgets m_check_state. *)
ResetKeepsState ==
  /\ buf' = <<>> /\ checked' = 0
  /\ meth' = "GET" /\ length' = "zero" /\ UNCHANGED state

(* Mutant: init() forgets m_read_idx. *)
ResetKeepsText ==
  /\ checked' = 0
  /\ state' = "request" /\ meth' = "GET" /\ length' = "zero" /\ UNCHANGED buf

(* init(): everything about the request but serv. *)
Reset ==
  /\ buf' = <<>> /\ checked' = 0
  /\ state' = "request" /\ meth' = "GET" /\ length' = "zero"

------------------------------------------------------------------------------
(* The main thread *)

Open ==
  /\ Goto("closed", "armed")
  /\ Reset
  /\ UNCHANGED <<up, serv, ret>>

(* What the socket may hold. *)
Arrivals == UNION {[1 .. n -> Lines] : n \in 1 .. Size - 1}

(* Mutant: recv is given no limit. *)
ReadAnything(lines) ==
  /\ Goto("armed", "working")
  /\ buf' = buf \o lines
  /\ UNCHANGED <<up, checked, state, meth, length, serv, ret>>

(* read(): all that arrived. *)
Read(lines) ==
  /\ Goto("armed", "working")
  /\ Len(buf) + Len(lines) < Size
  /\ buf' = buf \o lines
  /\ UNCHANGED <<up, checked, state, meth, length, serv, ret>>

(* read() failed (an error, the end of the stream, a full buffer), or the   *)
(* client hung up, which epoll also reports when a response waits.          *)
Drop ==
  /\ up /\ stage \in {"armed", "writing"} /\ stage' = "closed"
  /\ UNCHANGED <<up, request, serv, ret>>

(* write(): m_write_idx is 0. *)
Write ==
  /\ Goto("writing", "armed")
  /\ Reset
  /\ UNCHANGED <<up, serv, ret>>

------------------------------------------------------------------------------
(* The worker: process_read *)

Parsing == up /\ stage = "working"
HasLine == checked < Len(buf) /\ buf[checked + 1].kind # "broken"
Line == buf[checked + 1]

(* Mutant: the loop goes on after LINE_BAD. *)
NoLineOpenOnly ==
  /\ Parsing /\ checked = Len(buf)
  /\ stage' = "armed"
  /\ ret' = "NO_REQUEST"
  /\ UNCHANGED <<up, request, serv>>

(* No complete line (LINE_OPEN), or a broken one (LINE_BAD): NO_REQUEST. *)
NoLine ==
  /\ Parsing /\ ~HasLine
  /\ stage' = "armed"
  /\ ret' = "NO_REQUEST"
  /\ UNCHANGED <<up, request, serv>>

Consume == checked' = checked + 1

(* A method that strcasecmp recognises. *)
Names(l) == l.kind \in {"request", "garbled"} /\ l.arg \in Accepted

Return(code) == stage' = "answering" /\ ret' = code

(* A null serv is called. *)
Crash == up' = FALSE /\ UNCHANGED <<stage, request, serv, ret>>

(* Mutant: parse_line does not move on behind the request line. *)
RequestLineAgain ==
  /\ Parsing /\ HasLine /\ state = "request"
  /\ meth' = IF Names(Line) THEN Line.arg ELSE meth
  /\ IF Line.kind = "request" /\ Names(Line)
     THEN state' = "header" /\ UNCHANGED <<stage, ret>>
     ELSE Return("BAD_REQUEST") /\ UNCHANGED state
  /\ UNCHANGED <<up, buf, checked, length, serv>>

(* The method is set before the rest of the line is looked at. *)
RequestLine ==
  /\ Parsing /\ HasLine /\ state = "request"
  /\ Consume
  /\ meth' = IF Names(Line) THEN Line.arg ELSE meth
  /\ \/ /\ Line.kind = "request" /\ Names(Line)
        /\ state' = "header"
        /\ UNCHANGED <<stage, ret>>
     \/ /\ ~(Line.kind = "request" /\ Names(Line))
        /\ Return("BAD_REQUEST")
        /\ UNCHANGED state
  /\ UNCHANGED <<up, buf, length, serv>>

Header == Parsing /\ HasLine /\ state = "header"

(* The blank line: do_request, or on to the content (m_method is never HEAD). *)
BlankLine ==
  /\ Header /\ Line.kind = "blank"
  /\ \/ length = "zero" /\ serv = NoService /\ Crash
     \/ /\ length = "zero" => serv # NoService
        /\ Consume
        /\ IF length = "zero"
           THEN Return("DO_REQUEST") /\ UNCHANGED state
           ELSE state' = "content" /\ UNCHANGED <<stage, ret>>
        /\ UNCHANGED <<up, buf, meth, length, serv>>

(* Mutant: the key of services_table is the agent alone. *)
find_service_by_agent(m, a) ==
  IF \E k \in Registered : k[2] = a
  THEN CHOOSE k \in Registered : k[2] = a
  ELSE NoService

find_service(m, a) == IF <<m, a>> \in Registered THEN <<m, a>> ELSE NoService

(* serv after the two tests that set something: User-Agent chooses it. *)
Chosen == IF Line.kind = "agent" THEN find_service(meth, Line.arg) ELSE serv

(* Any other header, User-Agent and Content-Length included: `if(!serv)'    *)
(* calls the null serv, and otherwise returns BAD_REQUEST.                  *)
HeaderLine ==
  /\ Header /\ Line.kind # "blank"
  /\ \/ Chosen = NoService /\ Crash
     \/ /\ Chosen # NoService
        /\ serv' = Chosen
        /\ length' = IF Line.kind = "length" THEN Line.arg ELSE length
        /\ Consume
        /\ Return("BAD_REQUEST")
        /\ UNCHANGED <<up, buf, state, meth>>

(* process_write, and what process() does with its result. *)
Answer ==
  /\ up /\ stage = "answering"
  /\ \/ serv = NoService /\ Crash
     \/ /\ serv # NoService
        /\ stage' \in {"writing", "closed"}
        /\ UNCHANGED <<up, request, serv, ret>>

WorkerStep == NoLine \/ RequestLine \/ BlankLine \/ HeaderLine \/ Answer

Next == \/ Open \/ Drop \/ Write
        \/ \E lines \in Arrivals : Read(lines)
        \/ WorkerStep

Spec == Init /\ [][Next]_vars

(* The worker that has the object runs on. *)
FairSpec == Spec /\ WF_vars(WorkerStep)

------------------------------------------------------------------------------
(* Properties *)

(* For the main thread, whatever is in the buffer, process() does one of    *)
(* four things: ask for more, leave a response, close, or crash; and the    *)
(* connection object is only emptied between a client and the next, or      *)
(* after a response.  (http_conn.cpp, process, read, write.)                *)
View == INSTANCE Exchange WITH
          stage <- IF stage = "answering" THEN "working" ELSE stage,
          fill <- Len(buf)
ImplementsExchange == View!Spec

(* The object is reused by clients and by requests, and init() resets most  *)
(* of it: while headers are parsed, m_method is this request's, whose line  *)
(* is the first of the buffer (http_conn.cpp, parse_request_line and init). *)
MethodOfRequest ==
  state = "header" => /\ checked > 0
                      /\ buf[1].kind = "request"
                      /\ meth = buf[1].arg

(* A service is chosen for the method of the request that chooses it        *)
(* (http_conn.cpp, parse_headers; get_service.h, find_service).             *)
ChosenByMethod == [][serv' # serv => serv'[1] = buf[1].arg]_vars

(* A worker lets the object go, or the process dies (http_conn.cpp,         *)
(* process and process_read: the loop ends on every text).                  *)
ProcessEnds ==
  (stage = "working") ~> (stage \in {"armed", "writing", "closed"} \/ ~up)

Busy     == stage \in {"working", "answering"}
LetsGo   == stage' \in {"armed", "writing", "closed"}
UsesLine == /\ stage = "working" /\ Busy'
            /\ checked < checked' /\ checked' <= Len(buf) /\ buf' = buf

(* Every step of a call of process() but the last uses up a line: the loop  *)
(* of process_read runs at most once per line that was read, and never past *)
(* them (http_conn.cpp lines 273-316 and 396-412).                          *)
EveryStepCounts == [][Busy /\ up' => LetsGo \/ UsesLine]_vars

(* The request that do_request runs is served by the service that its own   *)
(* User-Agent and method name: "the service object that handles this        *)
(* request" (http_conn.h, serv).  It does not hold: init() keeps serv.      *)
ServiceOfThisRequest ==
  (stage = "answering" /\ ret = "DO_REQUEST") =>
    \E i \in 1 .. checked : /\ buf[i].kind = "agent"
                            /\ serv = find_service(meth, buf[i].arg)

(* "Once the service is known its method is called to parse the header      *)
(* line" (http_conn.cpp, the comment of parse_headers at line 248): a       *)
(* header is handled and the loop goes on.  It does not hold: line 249      *)
(* calls the service when there is none, and returns BAD_REQUEST when there *)
(* is one.                                                                  *)
HeadersAreParsed ==
  [][Header /\ Line.kind \in {"agent", "length", "other"} => up' /\ stage' = "working"]_vars
==============================================================================
