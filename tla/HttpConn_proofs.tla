----------------------------- MODULE HttpConn_proofs -----------------------------
(***************************************************************************)
(* What process() does with the text of a request, for every service table *)
(* and every buffer size: the invariants of HttpConn, and that it          *)
(* implements Exchange.                                                    *)
(*                                                                         *)
(* The invariants are not inductive: the parser's position has to be tied  *)
(* to its state.  A request that waits or is parsed is either untouched, or*)
(* its first line is consumed and nothing else, and no length was stored.  *)
(***************************************************************************)
EXTENDS HttpConn, TLAPS

(* The loop gets one line past the request line, at most.                   *)
OneHeaderAtMost ==
  /\ checked <= 2
  /\ state # "content"
  /\ stage = "working" => length = "zero"

Position ==
  stage \in {"armed", "working"} =>
    /\ length = "zero"
    /\ \/ state = "request" /\ checked = 0
       \/ state = "header" /\ checked = 1

IInv == TypeOK /\ MethodOfRequest /\ OneHeaderAtMost /\ Position

USE HttpAssumption

(* The fields of a line.                                                    *)
LEMMA LineTypes ==
  ASSUME NEW l \in Lines
  PROVE  /\ l.kind \in {"request", "garbled", "agent", "length", "blank", "other", "broken"}
         /\ l.kind = "length" => l.arg \in {"zero", "positive"}
         /\ l.kind = "agent" => l.arg \in Agents
BY DEF Lines

(* What a client sends is at least one line.                                *)
LEMMA ArrivalsAreLines ==
  ASSUME NEW lines \in Arrivals
  PROVE  lines \in Seq(Lines) /\ Len(lines) \in Nat \ {0}
<1>1. PICK n \in 1 .. Size - 1 : lines \in [1 .. n -> Lines]
  BY DEF Arrivals
<1>2. n \in Nat \ {0}
  OBVIOUS
<1> HIDE DEF Lines
<1>3. QED BY <1>1, <1>2

(* The invariant holds in the first state.                                  *)
LEMMA Initially == Init => IInv
BY DEF Init, IInv, TypeOK, MethodOfRequest, OneHeaderAtMost, Position, Accepted, Codes

(* Every step keeps the invariant.                                          *)
LEMMA Inductive == IInv /\ [Next]_vars => IInv'
<1> SUFFICES ASSUME IInv, [Next]_vars PROVE IInv'
  OBVIOUS
<1> USE DEF IInv, TypeOK, MethodOfRequest, OneHeaderAtMost, Position, Goto
<1>1. CASE Open
  BY <1>1 DEF Open, Reset, Accepted
<1>2. CASE Drop
  BY <1>2 DEF Drop, request
<1>3. CASE Write
  BY <1>3 DEF Write, Reset, Accepted
<1>4. ASSUME NEW lines \in Arrivals, Read(lines) PROVE IInv'
  <2>1. lines \in Seq(Lines) /\ Len(lines) \in Nat
    BY ArrivalsAreLines
  <2>2. /\ buf' \in Seq(Lines)
        /\ Len(buf') = Len(buf) + Len(lines)
        /\ \A i \in 1 .. Len(buf) : buf'[i] = buf[i]
    BY <1>4, <2>1 DEF Read
  <2>3. MethodOfRequest'
    BY <1>4, <2>2 DEF Read
  <2>4. QED BY <1>4, <2>1, <2>2, <2>3 DEF Read
<1>5. CASE NoLine
  BY <1>5 DEF NoLine, Parsing, request, Codes
<1>6. CASE RequestLine
  <2>1. checked < Len(buf) /\ checked' = checked + 1 /\ checked = 0
    BY <1>6 DEF RequestLine, Parsing, HasLine, Consume
  <2>2. meth' \in Accepted
    BY <1>6 DEF RequestLine, Names
  <2>3. QED BY <1>6, <2>1, <2>2 DEF RequestLine, Names, Line, Return, Codes, Parsing
<1>7. CASE BlankLine
  <2>1. CASE length = "zero" /\ serv = NoService /\ Crash
    BY <2>1 DEF Crash, request
  <2>2. CASE length = "zero" /\ serv # NoService
    <3>1. /\ checked < Len(buf) /\ checked = 1 /\ checked' = 2
          /\ stage' = "answering" /\ ret' = "DO_REQUEST" /\ state = "header"
          /\ UNCHANGED <<up, buf, state, meth, length, serv>>
      <4>1. stage = "working" /\ state = "header" /\ checked < Len(buf)
        BY <1>7 DEF BlankLine, Header, HasLine, Parsing
      <4>2. checked = 1
        BY <4>1
      <4>3. /\ checked' = checked + 1
            /\ stage' = "answering" /\ ret' = "DO_REQUEST"
            /\ UNCHANGED <<up, buf, state, meth, length, serv>>
        BY <1>7, <2>2 DEF BlankLine, Consume, Return
      <4>4. QED BY <4>1, <4>2, <4>3
    <3>2. QED BY <3>1 DEF Codes
  <2>3. QED BY <1>7, <2>1, <2>2 DEF BlankLine, Header, Parsing
<1>8. CASE HeaderLine
  <2>1. CASE Chosen = NoService /\ Crash
    BY <2>1 DEF Crash, request
  <2>2. CASE Chosen # NoService
    <3>1. Line \in Lines /\ checked < Len(buf)
      BY <1>8 DEF HeaderLine, Header, HasLine, Line
    <3>2. serv' \in Registered \cup {NoService}
      BY <1>8, <2>2, <3>1 DEF HeaderLine, Crash, Chosen, find_service
    <3>3. length' \in {"zero", "positive"}
      BY <1>8, <2>2, <3>1, LineTypes DEF HeaderLine, Crash
    <3>4. /\ checked = 1 /\ checked' = 2 /\ state = "header"
          /\ stage' = "answering" /\ ret' = "BAD_REQUEST"
          /\ UNCHANGED <<up, buf, state, meth>>
      <4>1. stage = "working" /\ state = "header"
        BY <1>8 DEF HeaderLine, Header, Parsing
      <4>2. checked = 1
        BY <4>1
      <4>3. /\ checked' = checked + 1
            /\ stage' = "answering" /\ ret' = "BAD_REQUEST"
            /\ UNCHANGED <<up, buf, state, meth>>
        BY <1>8, <2>2 DEF HeaderLine, Consume, Return
      <4>4. QED BY <4>1, <4>2, <4>3
    <3>5. QED BY <3>1, <3>2, <3>3, <3>4 DEF Codes
  <2>3. QED BY <1>8, <2>1, <2>2 DEF HeaderLine
<1>9. CASE Answer
  BY <1>9 DEF Answer, Crash, request
<1>10. CASE UNCHANGED vars
  BY <1>10 DEF vars
<1>11. QED BY <1>1, <1>2, <1>3, <1>4, <1>5, <1>6, <1>7, <1>8, <1>9, <1>10 DEF Next, WorkerStep

(* So it holds in every state.                                              *)
LEMMA Invariants == Spec => []IInv
BY Initially, Inductive, PTL DEF Spec

(* Every variable keeps its type, whatever lines arrive (http_conn.h).      *)
THEOREM ConnTypes == Spec => []TypeOK
<1>1. IInv => TypeOK
  BY DEF IInv
<1>2. QED BY <1>1, Invariants, PTL

(* While headers are parsed, m_method is the method of the request in the   *)
(* buffer (http_conn.cpp, parse_request_line and init).                     *)
THEOREM MethodIsCurrent == Spec => []MethodOfRequest
<1>1. IInv => MethodOfRequest
  BY DEF IInv
<1>2. QED BY <1>1, Invariants, PTL

(* What follows from the inverted test at http_conn.cpp line 249, contrary  *)
(* to the comments at lines 248 and 254: no request gets past its first     *)
(* header, whatever is registered, so the content that README line 19 and   *)
(* http_conn.h lines 179-185 have it reach, CHECK_STATE_CONTENT, is never   *)
(* parsed.                                                                  *)
THEOREM NoContent == Spec => []OneHeaderAtMost
<1>1. IInv => OneHeaderAtMost
  BY DEF IInv
<1>2. QED BY <1>1, Invariants, PTL

(* serv changes only to a service of the request's own method (http_conn.cpp, *)
(* parse_headers; get_service.h, find_service).                             *)
THEOREM ServiceByMethod == Spec => ChosenByMethod
<1>1. IInv /\ [Next]_vars => [serv' # serv => serv'[1] = buf[1].arg]_vars
  <2> SUFFICES ASSUME IInv, Next, serv' # serv PROVE serv'[1] = buf[1].arg
    BY DEF vars
  <2>1. HeaderLine /\ Chosen # NoService /\ serv' = Chosen
    BY DEF Next, WorkerStep, Open, Drop, Write, Read, NoLine, RequestLine, BlankLine,
           HeaderLine, Answer, Crash
  <2>2. serv' = <<meth, Line.arg>>
    BY <2>1 DEF Chosen, find_service
  <2>3. QED BY <2>1, <2>2 DEF IInv, MethodOfRequest, HeaderLine, Header
<1>2. QED BY <1>1, Invariants, PTL DEF Spec, ChosenByMethod

(* The loop of process_read uses up a line in every round but its last,     *)
(* whatever the text and the services: it is why a call of process() ends   *)
(* (http_conn.cpp, process_read and process).                               *)
THEOREM RoundsUseLines == Spec => EveryStepCounts
<1>1. IInv /\ [Next]_vars => [Busy /\ up' => LetsGo \/ UsesLine]_vars
  <2> SUFFICES ASSUME IInv, Next, Busy, up' PROVE LetsGo \/ UsesLine
    BY DEF vars
  <2> USE DEF IInv, TypeOK, Busy, LetsGo
  <2>1. CASE Open \/ Drop \/ Write \/ (\E lines \in Arrivals : Read(lines))
    BY <2>1 DEF Open, Drop, Write, Read, Goto
  <2>2. CASE NoLine
    BY <2>2 DEF NoLine
  <2>3. CASE Answer
    BY <2>3 DEF Answer, Crash
  <2>4. ASSUME Parsing, HasLine, Consume, buf' = buf, stage' \in {"working", "answering"}
        PROVE  UsesLine
    BY <2>4 DEF Parsing, HasLine, Consume, UsesLine
  <2>5. CASE RequestLine
    BY <2>4, <2>5 DEF RequestLine, Return, Parsing
  <2>6. CASE BlankLine
    BY <2>4, <2>6 DEF BlankLine, Header, Return, Parsing, Crash
  <2>7. CASE HeaderLine
    BY <2>4, <2>7 DEF HeaderLine, Header, Return, Parsing, Crash
  <2>8. QED BY <2>1, <2>2, <2>3, <2>5, <2>6, <2>7 DEF Next, WorkerStep
<1>2. QED BY <1>1, Invariants, PTL DEF Spec, EveryStepCounts

(* While services_table is empty, which it is in the repository, process()  *)
(* neither leaves a response nor closes: it asks for more, or calls a null  *)
(* serv.  It is what WebServer's NoRefuse states of the engine's worker     *)
(* (http_conn.cpp, process; get_service.h, services_table).                 *)
THEOREM ShippedNeverCloses ==
  ASSUME Registered = {}
  PROVE  Spec => [][Busy => stage' \notin {"writing", "closed"}]_vars
<1>1. ASSUME IInv, Next, Busy PROVE stage' \notin {"writing", "closed"}
  <2> USE <1>1 DEF Busy
  <2>1. CASE Open \/ Drop \/ Write \/ (\E lines \in Arrivals : Read(lines))
    BY <2>1 DEF Open, Drop, Write, Read, Goto
  <2>2. CASE Answer
    <3>1. serv = NoService
      BY DEF IInv, TypeOK
    <3>2. QED BY <2>2, <3>1 DEF Answer, Crash
  <2>3. CASE NoLine
    BY <2>3 DEF NoLine
  <2>4. CASE RequestLine \/ BlankLine \/ HeaderLine
    BY <2>4 DEF RequestLine, BlankLine, HeaderLine, Header, Parsing, Return, Crash
  <2>5. QED BY <2>1, <2>2, <2>3, <2>4 DEF Next, WorkerStep
<1>2. IInv /\ [Next]_vars => [Busy => stage' \notin {"writing", "closed"}]_vars
  BY <1>1 DEF vars
<1>3. QED BY <1>2, Invariants, PTL DEF Spec

(* HttpConn implements Exchange: whatever the text, the engine sees one of  *)
(* the four outcomes of process() (http_conn.cpp, process).                 *)
THEOREM Implements == Spec => ImplementsExchange
<1>1. Init => View!Init
  BY DEF Init, View!Init
<1>2. IInv /\ [Next]_vars => [View!Next]_(View!vars)
  <2> SUFFICES ASSUME IInv, [Next]_vars PROVE [View!Next]_(View!vars)
    OBVIOUS
  <2> USE DEF View!Next, View!vars, View!Goto, Goto
  <2>1. CASE Open
    BY <2>1 DEF Open, Reset, View!Open
  <2>2. CASE Drop
    BY <2>2 DEF Drop, request, View!Drop, IInv, TypeOK
  <2>3. CASE Write
    BY <2>3 DEF Write, Reset, View!Write
  <2>4. ASSUME NEW lines \in Arrivals, Read(lines) PROVE View!Read
    <3>1. lines \in Seq(Lines) /\ Len(lines) \in Nat \ {0}
      BY ArrivalsAreLines
    <3>2. Len(buf') \in Len(buf) + 1 .. Size - 1
      BY <2>4, <3>1 DEF Read, IInv, TypeOK
    <3>3. QED BY <2>4, <3>2 DEF Read, View!Read
  <2>5. CASE NoLine
    BY <2>5 DEF NoLine, Parsing, request, View!More
  <2>6. CASE RequestLine
    BY <2>6 DEF RequestLine, Parsing, Return
  <2>7. CASE BlankLine
    BY <2>7 DEF BlankLine, Header, Parsing, Return, Crash, request, View!Crash
  <2>8. CASE HeaderLine
    BY <2>8 DEF HeaderLine, Header, Parsing, Return, Crash, request, View!Crash
  <2>9. CASE Answer
    BY <2>9 DEF Answer, Crash, request, View!Crash, View!Respond, View!Refuse
  <2>10. CASE UNCHANGED vars
    BY <2>10 DEF vars
  <2>11. QED BY <2>1, <2>2, <2>3, <2>4, <2>5, <2>6, <2>7, <2>8, <2>9, <2>10 DEF Next, WorkerStep
<1>3. QED BY <1>1, <1>2, Invariants, PTL DEF Spec, View!Spec, ImplementsExchange
==============================================================================
