------------------------------ MODULE LineParser ------------------------------
(***************************************************************************)
(* parse_line and the read buffer under it, byte by byte: how process_read *)
(* finds the lines that HttpConn takes for granted (its HasLine, and its   *)
(* "broken" lines).  The text of a request arrives in pieces cut anywhere, *)
(* and parse_line goes on where it stopped: m_checked_idx is how far it    *)
(* has looked, m_start_line where the line began.                          *)
(*                                                                         *)
(* Only one thread has the object at a time (WebServer, OneOwner), so a    *)
(* call of parse_line is a step.  What the line says is left out: any line *)
(* may be the one that ends the request.                                   *)
(*                                                                         *)
(* Bounds: the buffer has Size bytes.                                      *)
(***************************************************************************)
EXTENDS Integers, Sequences

CONSTANTS CR, LF, NUL,
          Text,      \* the other characters (a NUL that was sent is one of them)
          Size       \* READ_BUFFER_SIZE

Ends  == {CR, LF}
Chars == Text \cup Ends \cup {NUL}

ASSUME ParserAssumption ==
  /\ Size \in Nat \ {0}
  /\ CR # LF /\ NUL \notin Ends
  /\ Text \cap Ends = {}

VARIABLES
  stage,       \* "closed", "armed", "working" or "answered", as in Exchange
  buf,         \* m_read_buf
  read_idx,    \* m_read_idx
  start_line,  \* m_start_line
  checked_idx, \* m_checked_idx
  line,        \* the text of the last get_line
  status       \* what parse_line last returned

indexes == <<read_idx, start_line, checked_idx>>
vars    == <<stage, buf, indexes, line, status>>

TypeOK ==
  /\ stage \in {"closed", "armed", "working", "answered"}
  /\ buf \in [0 .. Size - 1 -> Chars]
  /\ read_idx \in 0 .. Size
  /\ checked_idx \in 0 .. read_idx
  /\ start_line \in 0 .. checked_idx
  /\ line \in Seq(Chars)
  /\ status \in {"LINE_OK", "LINE_BAD", "LINE_OPEN"}

Blank == [i \in 0 .. Size - 1 |-> NUL]

Init ==
  /\ stage = "closed"
  /\ buf = Blank /\ read_idx = 0 /\ start_line = 0 /\ checked_idx = 0
  /\ line = <<>> /\ status = "LINE_OPEN"

Goto(from, to) == stage = from /\ stage' = to

------------------------------------------------------------------------------
(* The main thread *)

(* Mutant: init() forgets m_checked_idx. *)
ResetKeepsChecked ==
  /\ stage' = "armed"
  /\ buf' = Blank /\ read_idx' = 0 /\ start_line' = 0 /\ UNCHANGED checked_idx
  /\ line' = <<>> /\ status' = "LINE_OPEN"

(* init() *)
Reset ==
  /\ stage' = "armed"
  /\ buf' = Blank /\ read_idx' = 0 /\ start_line' = 0 /\ checked_idx' = 0
  /\ line' = <<>> /\ status' = "LINE_OPEN"

(* init( sockfd ) for a new client, write() after an answer. *)
Open  == stage = "closed" /\ Reset
Write == stage = "answered" /\ Reset

(* read(): the n bytes that arrived, behind those that are there. *)
Read(n) ==
  /\ Goto("armed", "working")
  /\ read_idx + n < Size
  /\ \E bytes \in [read_idx .. read_idx + n - 1 -> Text \cup Ends] :
       buf' = [i \in 0 .. Size - 1 |-> IF i \in DOMAIN bytes THEN bytes[i] ELSE buf[i]]
  /\ read_idx' = read_idx + n
  /\ UNCHANGED <<start_line, checked_idx, line, status>>

(* read() failed, or the client hung up; what a failed read() has put into  *)
(* the buffer is never looked at.  After an answer: process_write is false. *)
Close ==
  /\ stage \in {"armed", "answered"} /\ stage' = "closed"
  /\ UNCHANGED <<buf, indexes, line, status>>

------------------------------------------------------------------------------
(* The worker: process_read's loop over parse_line *)

(* The first CR or LF that parse_line meets. *)
Meets(i) ==
  /\ i \in checked_idx .. read_idx - 1
  /\ buf[i] \in Ends
  /\ \A j \in checked_idx .. i - 1 : buf[j] \notin Ends

MeetsNothing == \A i \in checked_idx .. read_idx - 1 : buf[i] \notin Ends

(* Where the CR of the line's end is, when i is what parse_line met: at i,  *)
(* or before i, unless i is one of the first two bytes of the buffer.       *)
LineEnd(i) == {cr \in {i, i - 1} :
                 /\ cr = i - 1 => i > 1
                 /\ cr + 1 < read_idx
                 /\ buf[cr] = CR /\ buf[cr + 1] = LF}

(* A CR that is the last byte that has arrived. *)
Dangling(i) == buf[i] = CR /\ i + 1 = read_idx

Return(result, checked) ==
  /\ Goto("working", "armed")
  /\ status' = result
  /\ checked_idx' = checked
  /\ UNCHANGED <<buf, read_idx, start_line, line>>

(* Mutant: at a CR that is the last byte, the next call starts behind it. *)
LineOpenPastCR ==
  \/ MeetsNothing /\ Return("LINE_OPEN", read_idx)
  \/ \E i \in checked_idx .. read_idx - 1 :
       Meets(i) /\ Dangling(i) /\ Return("LINE_OPEN", read_idx)

(* LINE_OPEN, process_read returns NO_REQUEST. *)
LineOpen ==
  \/ MeetsNothing /\ Return("LINE_OPEN", read_idx)
  \/ \E i \in checked_idx .. read_idx - 1 :
       Meets(i) /\ Dangling(i) /\ Return("LINE_OPEN", i)

(* LINE_BAD: process_read returns NO_REQUEST as well. *)
LineBad ==
  \E i \in checked_idx .. read_idx - 1 :
    Meets(i) /\ ~Dangling(i) /\ LineEnd(i) = {} /\ Return("LINE_BAD", i)

(* Mutant: process_read does not set m_start_line. *)
LineOkKeepsStart ==
  \E i \in checked_idx .. read_idx - 1 : \E cr \in LineEnd(i) :
    /\ Meets(i)
    /\ stage = "working" /\ stage' \in {"working", "answered"}
    /\ buf' = [buf EXCEPT ![cr] = NUL, ![cr + 1] = NUL]
    /\ checked_idx' = cr + 2
    /\ line' = [k \in 1 .. cr - start_line |-> buf[start_line + k - 1]]
    /\ status' = "LINE_OK"
    /\ UNCHANGED <<read_idx, start_line>>

(* Mutant: m_checked_idx stays at the line's end. *)
LineOkKeepsChecked ==
  \E i \in checked_idx .. read_idx - 1 : \E cr \in LineEnd(i) :
    /\ Meets(i)
    /\ stage = "working" /\ stage' \in {"working", "answered"}
    /\ buf' = [buf EXCEPT ![cr] = NUL, ![cr + 1] = NUL]
    /\ checked_idx' = cr /\ start_line' = cr
    /\ line' = [k \in 1 .. cr - start_line |-> buf[start_line + k - 1]]
    /\ status' = "LINE_OK"
    /\ UNCHANGED read_idx

(* LINE_OK: the line's end is overwritten, get_line is the text before it;  *)
(* the loop goes on, or the line ended the request.                         *)
LineOk ==
  \E i \in checked_idx .. read_idx - 1 : \E cr \in LineEnd(i) :
    /\ Meets(i)
    /\ stage = "working" /\ stage' \in {"working", "answered"}
    /\ buf' = [buf EXCEPT ![cr] = NUL, ![cr + 1] = NUL]
    /\ checked_idx' = cr + 2
    /\ start_line' = cr + 2
    /\ line' = [k \in 1 .. cr - start_line |-> buf[start_line + k - 1]]
    /\ status' = "LINE_OK"
    /\ UNCHANGED read_idx

Worker == LineOpen \/ LineBad \/ LineOk

Next == Open \/ Write \/ Close \/ Worker \/ \E n \in 1 .. Size - 1 : Read(n)

Spec == Init /\ [][Next]_vars

------------------------------------------------------------------------------
(* Properties *)

(* Whatever pieces the bytes arrive in, the lines are those of the bytes:   *)
(* going on at m_checked_idx is never noticed, no line end is missed at the *)
(* border of two reads, and LINE_BAD and LINE_OPEN are told apart           *)
(* (http_conn.cpp, parse_line, process_read and read).                      *)
pending == [k \in 1 .. read_idx - start_line |-> buf[start_line + k - 1]]
Stream == INSTANCE LineStream
ImplementsStream == Stream!Spec

(* The second half of parse_line (lines 111-118) never completes a line: a  *)
(* LF that it meets has no CR before it, for a CR never lets the scan past  *)
(* it.  So the test `m_checked_idx > 1', which misses an empty first line,  *)
(* does no harm.                                                            *)
NewlineAloneIsBad ==
  stage = "working" =>
    \A i \in 1 .. Size - 1 : Meets(i) /\ buf[i] = LF => buf[i - 1] # CR

(* process_read's loop ends, and its scan never goes back: a call of        *)
(* parse_line that keeps the loop going has used up a CR LF of what was     *)
(* read (http_conn.cpp lines 92-123 and 279).                               *)
ScanAdvances ==
  [][stage = "working" =>
       /\ checked_idx <= checked_idx' /\ checked_idx' <= read_idx /\ read_idx' = read_idx
       /\ stage' = "working" => checked_idx + 2 <= checked_idx']_vars
==============================================================================
