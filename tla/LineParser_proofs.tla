--------------------------- MODULE LineParser_proofs ---------------------------
(***************************************************************************)
(* Proofs about LineParser, for every length of the buffer and every set   *)
(* of characters.  The inductive invariant says what parse_line has left   *)
(* behind: no line end among the bytes it has looked at since the line     *)
(* began (Scanned), a NUL before the line (Cut), and, once it has returned *)
(* LINE_BAD, the bytes that made it do so (Spoilt).                        *)
(***************************************************************************)
EXTENDS LineParser, SequenceTheorems, TLAPS

Scanned == \A j \in start_line .. checked_idx - 1 : buf[j] \notin Ends

Cut == start_line > 0 => buf[start_line - 1] = NUL

Spoilt ==
  status = "LINE_BAD" /\ stage # "closed" =>
    /\ stage \in {"armed", "working"}
    /\ checked_idx < read_idx
    /\ \/ buf[checked_idx] = LF
       \/ buf[checked_idx] = CR /\ checked_idx + 1 < read_idx /\ buf[checked_idx + 1] # LF

(* After LINE_BAD no line is found until the connection is closed, whatever *)
(* the client sends: m_checked_idx stays where it is.                       *)
MalformedIsFinal ==
  [][status = "LINE_BAD" /\ stage # "closed" =>
       stage' # "answered" /\ line' = line /\ checked_idx' = checked_idx]_vars

Inv == TypeOK /\ Scanned /\ Cut /\ Spoilt

USE ParserAssumption DEF Ends

------------------------------------------------------------------------------
(* Types *)

(* The variables start with their types.                                    *)
LEMMA TypesInit == Init => TypeOK
  BY DEF Init, TypeOK, Blank, Chars

(* A line end lies in what has arrived.                                     *)
LEMMA LineEndIn ==
  ASSUME TypeOK, NEW i \in checked_idx .. read_idx - 1, NEW cr \in LineEnd(i)
  PROVE  /\ cr \in 0 .. Size - 1 /\ cr + 1 \in 0 .. Size - 1
         /\ cr + 1 < read_idx
         /\ buf[cr] = CR /\ buf[cr + 1] = LF
         /\ cr = i \/ cr = i - 1
         /\ cr = i - 1 => i > 1
  BY DEF TypeOK, LineEnd

(* read() keeps the types.                                                  *)
LEMMA ReadTypes ==
  ASSUME TypeOK, NEW n \in 1 .. Size - 1, Read(n)
  PROVE  TypeOK'
  <1>1. buf' \in [0 .. Size - 1 -> Chars]
    BY DEF TypeOK, Read, Chars
  <1>2. read_idx' \in 0 .. Size /\ read_idx' = read_idx + n /\ checked_idx' = checked_idx
    BY DEF TypeOK, Read, Goto
  <1>3. checked_idx' \in 0 .. read_idx'
    BY <1>2 DEF TypeOK
  <1> QED
    BY <1>1, <1>2, <1>3 DEF TypeOK, Read, Goto

(* Cutting a line off keeps the types.                                      *)
LEMMA LineOkTypes ==
  ASSUME TypeOK, LineOk
  PROVE  TypeOK'
  <1>1. PICK i \in checked_idx .. read_idx - 1 : \E c \in LineEnd(i) :
          /\ Meets(i)
          /\ stage = "working" /\ stage' \in {"working", "answered"}
          /\ buf' = [buf EXCEPT ![c] = NUL, ![c + 1] = NUL]
          /\ checked_idx' = c + 2
          /\ start_line' = c + 2
          /\ line' = [k \in 1 .. c - start_line |-> buf[start_line + k - 1]]
          /\ status' = "LINE_OK"
          /\ UNCHANGED read_idx
    BY DEF LineOk
  <1>2. PICK cr \in LineEnd(i) :
          /\ stage' \in {"working", "answered"}
          /\ buf' = [buf EXCEPT ![cr] = NUL, ![cr + 1] = NUL]
          /\ checked_idx' = cr + 2
          /\ start_line' = cr + 2
          /\ line' = [k \in 1 .. cr - start_line |-> buf[start_line + k - 1]]
          /\ status' = "LINE_OK"
          /\ UNCHANGED read_idx
    BY <1>1
  <1>3. cr \in 0 .. Size - 1 /\ cr + 1 < read_idx
    BY LineEndIn
  <1>4. buf' \in [0 .. Size - 1 -> Chars]
    BY <1>2, <1>3 DEF TypeOK, Chars
  <1>5. checked_idx' \in 0 .. read_idx' /\ start_line' \in 0 .. checked_idx'
    BY <1>2, <1>3 DEF TypeOK
  <1>6. \A k \in 1 .. cr - start_line : buf[start_line + k - 1] \in Chars
    BY <1>3 DEF TypeOK
  <1>7. line' \in Seq(Chars)
    <2>1. CASE cr - start_line \in Nat
      BY <1>2, <1>6, <2>1
    <2>2. CASE cr - start_line \notin Nat
      <3>1. 1 .. cr - start_line = {}
        BY <1>3, <2>2 DEF TypeOK
      <3>2. line' = <<>>
        BY <1>2, <3>1
      <3> QED
        BY <3>2
    <2> QED
      BY <2>1, <2>2
  <1> QED
    BY <1>2, <1>4, <1>5, <1>7 DEF TypeOK

(* Every step keeps the types.                                              *)
LEMMA TypesStep ==
  ASSUME TypeOK, [Next]_vars
  PROVE  TypeOK'
  <1>1. CASE Open \/ Write
    <2>1. Reset
      BY <1>1 DEF Open, Write
    <2>2. Blank \in [0 .. Size - 1 -> Chars]
      BY DEF Blank, Chars
    <2>3. <<>> \in Seq(Chars)
      OBVIOUS
    <2> HIDE DEF Blank
    <2> QED
      BY <2>1, <2>2, <2>3 DEF Reset, TypeOK
  <1>2. CASE Close
    BY <1>2 DEF Close, indexes, TypeOK
  <1>3. CASE LineOpen
    BY <1>3 DEF LineOpen, Return, Goto, TypeOK
  <1>4. CASE LineBad
    <2>1. PICK i \in checked_idx .. read_idx - 1 : Return("LINE_BAD", i)
      BY <1>4 DEF LineBad
    <2>2. i \in 0 .. read_idx /\ start_line \in 0 .. i
      BY DEF TypeOK
    <2> QED
      BY <2>1, <2>2 DEF Return, Goto, TypeOK
  <1>5. CASE LineOk
    BY <1>5, LineOkTypes
  <1>6. CASE \E n \in 1 .. Size - 1 : Read(n)
    BY <1>6, ReadTypes
  <1>7. CASE UNCHANGED vars
    BY <1>7 DEF vars, indexes, TypeOK
  <1> QED
    BY <1>1, <1>2, <1>3, <1>4, <1>5, <1>6, <1>7 DEF Next, Worker

(* The indexes stay in order and in the buffer, whatever arrives and        *)
(* however it is cut (http_conn.cpp, read and parse_line).                  *)
THEOREM ParserTypes == Spec => []TypeOK
  BY TypesInit, TypesStep, PTL DEF Spec

------------------------------------------------------------------------------
(* What parse_line has left behind *)

(* The invariant holds in the first state.                                  *)
LEMMA InvInit == Init => Inv
  BY TypesInit DEF Init, Inv, TypeOK, Scanned, Cut, Spoilt

(* A LF is met with no CR before it: the byte before it is one the scan has *)
(* passed, or the NUL of the last line's end, or there is none.             *)
LEMMA NoSecondHalf ==
  ASSUME Inv, NEW i \in checked_idx .. read_idx - 1, Meets(i), buf[i] = LF
  PROVE  i > 0 => buf[i - 1] # CR
  <1> SUFFICES ASSUME i > 0 PROVE buf[i - 1] # CR
    OBVIOUS
  <1> USE DEF Inv, TypeOK
  <1>1. CASE i - 1 >= checked_idx
    BY <1>1 DEF Meets
  <1>2. CASE i = checked_idx /\ start_line < i
    BY <1>2 DEF Scanned
  <1>3. CASE i = checked_idx /\ start_line = i
    BY <1>3 DEF Cut
  <1> QED
    BY <1>1, <1>2, <1>3

(* So a line ends where the scan stopped. *)
LEMMA EndIsHere ==
  ASSUME Inv, NEW i \in checked_idx .. read_idx - 1, Meets(i), NEW cr \in LineEnd(i)
  PROVE  cr = i
  <1>1. /\ cr + 1 < read_idx /\ buf[cr] = CR /\ buf[cr + 1] = LF
        /\ cr = i \/ (cr = i - 1 /\ i > 1)
    BY LineEndIn DEF Inv
  <1> QED
    BY <1>1, NoSecondHalf DEF Inv, TypeOK

(* read() changes nothing of what was there.                                *)
LEMMA ReadKeeps ==
  ASSUME TypeOK, NEW n \in 1 .. Size - 1, Read(n)
  PROVE  /\ read_idx' = read_idx + n /\ UNCHANGED <<start_line, checked_idx, line, status>>
         /\ stage = "armed" /\ stage' = "working"
         /\ \A j \in 0 .. read_idx - 1 : buf'[j] = buf[j]
  BY DEF TypeOK, Read, Goto

(* A line is found at the CR that the scan meets, never behind it.          *)
LEMMA LineOkStep ==
  ASSUME Inv, LineOk
  PROVE  \E cr \in checked_idx .. read_idx - 2 :
           /\ Meets(cr) /\ buf[cr] = CR /\ buf[cr + 1] = LF
           /\ stage = "working" /\ stage' \in {"working", "answered"}
           /\ buf' = [buf EXCEPT ![cr] = NUL, ![cr + 1] = NUL]
           /\ checked_idx' = cr + 2 /\ start_line' = cr + 2
           /\ line' = [k \in 1 .. cr - start_line |-> buf[start_line + k - 1]]
           /\ status' = "LINE_OK"
           /\ UNCHANGED read_idx
  <1>1. PICK i \in checked_idx .. read_idx - 1 : \E cr \in LineEnd(i) :
          /\ Meets(i)
          /\ stage = "working" /\ stage' \in {"working", "answered"}
          /\ buf' = [buf EXCEPT ![cr] = NUL, ![cr + 1] = NUL]
          /\ checked_idx' = cr + 2 /\ start_line' = cr + 2
          /\ line' = [k \in 1 .. cr - start_line |-> buf[start_line + k - 1]]
          /\ status' = "LINE_OK"
          /\ UNCHANGED read_idx
    BY DEF LineOk
  <1>2. \A cr \in LineEnd(i) : Meets(i) => cr = i
    BY EndIsHere
  <1>3. i \in LineEnd(i) /\ Meets(i)
    BY <1>1, <1>2
  <1>4. i + 1 < read_idx /\ buf[i] = CR /\ buf[i + 1] = LF
    BY <1>3, LineEndIn DEF Inv
  <1>5. i \in checked_idx .. read_idx - 2
    BY <1>4 DEF Inv, TypeOK
  <1> QED
    BY <1>1, <1>2, <1>3, <1>4, <1>5

(* LINE_OPEN leaves the scan at the end, or at a CR that is the last byte.  *)
LEMMA OpenStep ==
  ASSUME TypeOK, LineOpen
  PROVE  \E c \in checked_idx .. read_idx :
           /\ Return("LINE_OPEN", c)
           /\ \A j \in checked_idx .. c - 1 : buf[j] \notin Ends
           /\ c = read_idx \/ (c = read_idx - 1 /\ buf[c] = CR)
  <1>1. CASE MeetsNothing /\ Return("LINE_OPEN", read_idx)
    BY <1>1 DEF MeetsNothing, TypeOK
  <1>2. CASE \E i \in checked_idx .. read_idx - 1 :
               Meets(i) /\ Dangling(i) /\ Return("LINE_OPEN", i)
    BY <1>2 DEF Meets, Dangling, TypeOK
  <1> QED
    BY <1>1, <1>2 DEF LineOpen

(* LINE_BAD leaves the scan at the byte that is to blame.                   *)
LEMMA BadStep ==
  ASSUME Inv, LineBad
  PROVE  \E i \in checked_idx .. read_idx - 1 :
           /\ Return("LINE_BAD", i) /\ Meets(i)
           /\ \/ buf[i] = LF
              \/ buf[i] = CR /\ i + 1 < read_idx /\ buf[i + 1] # LF
  <1>1. PICK i \in checked_idx .. read_idx - 1 :
          Meets(i) /\ ~Dangling(i) /\ LineEnd(i) = {} /\ Return("LINE_BAD", i)
    BY DEF LineBad
  <1>2. buf[i] = CR => i + 1 < read_idx
    BY <1>1 DEF Dangling, Inv, TypeOK
  <1>3. buf[i] = CR => buf[i + 1] # LF
    <2>1. buf[i] = CR /\ buf[i + 1] = LF => i \in LineEnd(i)
      BY <1>2 DEF LineEnd, Inv, TypeOK
    <2> QED
      BY <1>1, <2>1
  <1> QED
    BY <1>1, <1>2, <1>3 DEF Meets

(* Every step keeps the invariant.                                          *)
LEMMA InvStep ==
  ASSUME Inv, [Next]_vars
  PROVE  Inv'
  <1>1. TypeOK'
    BY TypesStep DEF Inv
  <1> USE <1>1 DEF Inv, TypeOK
  <1>2. CASE Open \/ Write
    <2>1. start_line' = 0 /\ checked_idx' = 0 /\ status' = "LINE_OPEN"
      BY <1>2 DEF Open, Write, Reset
    <2>2. Scanned'
      BY <2>1 DEF Scanned
    <2>3. Cut' /\ Spoilt'
      BY <2>1 DEF Cut, Spoilt
    <2> QED
      BY <2>2, <2>3
  <1>3. CASE Close
    BY <1>3 DEF Close, indexes, Scanned, Cut, Spoilt
  <1>4. CASE LineOpen
    <2>1. PICK c \in checked_idx .. read_idx :
            /\ Return("LINE_OPEN", c)
            /\ \A j \in checked_idx .. c - 1 : buf[j] \notin Ends
      BY <1>4, OpenStep
    <2> QED
      BY <2>1 DEF Return, Goto, Scanned, Cut, Spoilt
  <1>5. CASE LineBad
    <2>1. PICK i \in checked_idx .. read_idx - 1 :
            /\ Return("LINE_BAD", i) /\ Meets(i)
            /\ \/ buf[i] = LF
               \/ buf[i] = CR /\ i + 1 < read_idx /\ buf[i + 1] # LF
      BY <1>5, BadStep
    <2>2. Scanned'
      BY <2>1 DEF Return, Goto, Scanned, Meets
    <2>3. Cut' /\ Spoilt'
      BY <2>1 DEF Return, Goto, Cut, Spoilt
    <2> QED
      BY <2>2, <2>3
  <1>6. CASE LineOk
    <2>1. PICK cr \in checked_idx .. read_idx - 2 :
            /\ stage' \in {"working", "answered"}
            /\ buf' = [buf EXCEPT ![cr] = NUL, ![cr + 1] = NUL]
            /\ checked_idx' = cr + 2 /\ start_line' = cr + 2
            /\ status' = "LINE_OK"
      BY <1>6, LineOkStep
    <2> QED
      BY <2>1 DEF Scanned, Cut, Spoilt
  <1>7. CASE \E n \in 1 .. Size - 1 : Read(n)
    <2>1. PICK n \in 1 .. Size - 1 : Read(n)
      BY <1>7
    <2>2. /\ read_idx' = read_idx + n /\ UNCHANGED <<start_line, checked_idx, line, status>>
          /\ stage = "armed" /\ stage' = "working"
          /\ \A j \in 0 .. read_idx - 1 : buf'[j] = buf[j]
      BY <2>1, ReadKeeps
    <2>3. Scanned'
      BY <2>2 DEF Scanned
    <2>4. Cut'
      BY <2>2 DEF Cut
    <2>5. Spoilt'
      BY <2>2 DEF Spoilt
    <2> QED
      BY <2>3, <2>4, <2>5
  <1>8. CASE UNCHANGED vars
    BY <1>8 DEF vars, indexes, Scanned, Cut, Spoilt
  <1> QED
    BY <1>2, <1>3, <1>4, <1>5, <1>6, <1>7, <1>8 DEF Next, Worker

(* The invariant holds in every state.                                      *)
THEOREM Invariance == Spec => []Inv
  BY InvInit, InvStep, PTL DEF Spec

(* A LF that the scan meets has no CR before it.                            *)
LEMMA NewlineInv == Inv => NewlineAloneIsBad
  <1> SUFFICES ASSUME Inv, NEW i \in 1 .. Size - 1, Meets(i), buf[i] = LF
               PROVE  buf[i - 1] # CR
    BY DEF NewlineAloneIsBad
  <1>1. i \in checked_idx .. read_idx - 1
    BY DEF Meets
  <1> QED
    BY <1>1, NoSecondHalf

(* The second half of parse_line never completes a line.                    *)
THEOREM SecondHalfIsDead == Spec => []NewlineAloneIsBad
  BY Invariance, NewlineInv, PTL

(* After LINE_BAD every step leaves the scan and the line where they are.   *)
LEMMA FinalStep ==
  ASSUME Inv, [Next]_vars, status = "LINE_BAD", stage # "closed"
  PROVE  stage' # "answered" /\ line' = line /\ checked_idx' = checked_idx
  <1> USE DEF Inv, TypeOK
  <1>1. Meets(checked_idx)
    BY DEF Spoilt, Meets
  <1>2. ~Open /\ ~Write
    BY DEF Open, Write, Spoilt
  <1>3. CASE Close
    BY <1>3 DEF Close, indexes
  <1>4. CASE LineOpen
    <2>1. PICK c \in checked_idx .. read_idx :
            /\ Return("LINE_OPEN", c)
            /\ \A j \in checked_idx .. c - 1 : buf[j] \notin Ends
      BY <1>4, OpenStep
    <2>2. c = checked_idx
      BY <1>1, <2>1 DEF Meets
    <2> QED
      BY <2>1, <2>2 DEF Return, Goto
  <1>5. CASE LineBad
    <2>1. PICK i \in checked_idx .. read_idx - 1 : Return("LINE_BAD", i) /\ Meets(i)
      BY <1>5, BadStep
    <2>2. i = checked_idx
      BY <1>1, <2>1 DEF Meets
    <2> QED
      BY <2>1, <2>2 DEF Return, Goto
  <1>6. CASE LineOk
    <2>1. PICK cr \in checked_idx .. read_idx - 2 :
            Meets(cr) /\ buf[cr] = CR /\ buf[cr + 1] = LF
      BY <1>6, LineOkStep
    <2>2. cr = checked_idx
      BY <1>1, <2>1 DEF Meets
    <2> QED
      BY <2>1, <2>2 DEF Spoilt
  <1>7. CASE \E n \in 1 .. Size - 1 : Read(n)
    BY <1>7, ReadKeeps
  <1>8. CASE UNCHANGED vars
    BY <1>8 DEF vars, indexes, Spoilt
  <1> QED
    BY <1>2, <1>3, <1>4, <1>5, <1>6, <1>7, <1>8 DEF Next, Worker

(* What the repository's notes and its code disagree on: an error that is   *)
(* found while a line is cut off is to be answered and the connection then  *)
(* closed (http_conn.h lines 193-195), but LINE_BAD makes process_read      *)
(* return NO_REQUEST, and from then on no request of the connection is      *)
(* completed or answered (http_conn.cpp lines 109, 119 and 327).            *)
THEOREM BadIsFinal == Spec => MalformedIsFinal
  <1>1. Inv /\ [Next]_vars =>
          [status = "LINE_BAD" /\ stage # "closed" =>
             stage' # "answered" /\ line' = line /\ checked_idx' = checked_idx]_vars
    BY FinalStep
  <1> QED
    BY <1>1, Invariance, PTL DEF Spec, MalformedIsFinal

(* parse_line only looks ahead: whatever it returns, the scan does not go   *)
(* back and stays in what was read, and a call after which process_read's   *)
(* loop goes on has used up a line's end (http_conn.cpp, parse_line and     *)
(* process_read).                                                           *)
THEOREM ScanOnlyAdvances == Spec => ScanAdvances
  <1>1. ASSUME Inv, Next, stage = "working"
        PROVE  /\ checked_idx <= checked_idx' /\ checked_idx' <= read_idx /\ read_idx' = read_idx
               /\ stage' = "working" => checked_idx + 2 <= checked_idx'
    <2>1. CASE LineOpen
      <3>1. PICK c \in checked_idx .. read_idx : Return("LINE_OPEN", c)
        BY <1>1, <2>1, OpenStep DEF Inv
      <3> QED
        BY <1>1, <3>1 DEF Return, Goto, Inv, TypeOK
    <2>2. CASE LineBad
      <3>1. PICK i \in checked_idx .. read_idx - 1 : Return("LINE_BAD", i)
        BY <1>1, <2>2, BadStep
      <3> QED
        BY <1>1, <3>1 DEF Return, Goto, Inv, TypeOK
    <2>3. CASE LineOk
      <3>1. PICK cr \in checked_idx .. read_idx - 2 : checked_idx' = cr + 2 /\ UNCHANGED read_idx
        BY <1>1, <2>3, LineOkStep
      <3> QED
        BY <1>1, <3>1 DEF Inv, TypeOK
    <2> QED
      BY <1>1, <2>1, <2>2, <2>3 DEF Next, Worker, Open, Write, Close, Read, Goto
  <1>2. Inv /\ [Next]_vars =>
          [stage = "working" =>
             /\ checked_idx <= checked_idx' /\ checked_idx' <= read_idx /\ read_idx' = read_idx
             /\ stage' = "working" => checked_idx + 2 <= checked_idx']_vars
    BY <1>1
  <1> QED
    BY <1>2, Invariance, PTL DEF Spec, ScanAdvances

------------------------------------------------------------------------------
(* The lines are those of the bytes *)

(* The bytes that are in no line yet, one by one.                           *)
LEMMA PendingIs ==
  ASSUME TypeOK
  PROVE  /\ pending \in Seq(Chars)
         /\ Len(pending) = read_idx - start_line
         /\ \A k \in 1 .. read_idx - start_line : pending[k] = buf[start_line + k - 1]
  <1> DEFINE n == read_idx - start_line
  <1>1. n \in Nat /\ \A k \in 1 .. n : buf[start_line + k - 1] \in Chars
    BY DEF TypeOK
  <1>2. pending = [k \in 1 .. n |-> buf[start_line + k - 1]]
    BY DEF pending
  <1> HIDE DEF n
  <1>3. pending \in Seq(Chars) /\ Len(pending) = n
    BY <1>1, <1>2
  <1> QED
    BY <1>2, <1>3 DEF n

(* The same after a step.                                                   *)
LEMMA PendingNext ==
  ASSUME TypeOK'
  PROVE  /\ pending' \in Seq(Chars)
         /\ Len(pending') = read_idx' - start_line'
         /\ \A k \in 1 .. read_idx' - start_line' : pending'[k] = buf'[start_line' + k - 1]
  <1> DEFINE n == read_idx' - start_line'
  <1>1. n \in Nat /\ \A k \in 1 .. n : buf'[start_line' + k - 1] \in Chars
    BY DEF TypeOK
  <1>2. pending' = [k \in 1 .. n |-> buf'[start_line' + k - 1]]
    BY DEF pending
  <1> HIDE DEF n
  <1>3. pending' \in Seq(Chars) /\ Len(pending') = n
    BY <1>1, <1>2
  <1> QED
    BY <1>2, <1>3 DEF n

(* The end of a sequence, one by one.                                       *)
LEMMA SubSeqOf ==
  ASSUME NEW S, NEW s \in Seq(S), NEW m \in 1 .. Len(s) + 1
  PROVE  /\ SubSeq(s, m, Len(s)) \in Seq(S)
         /\ Len(SubSeq(s, m, Len(s))) = Len(s) - m + 1
         /\ \A k \in 1 .. Len(s) - m + 1 : SubSeq(s, m, Len(s))[k] = s[m + k - 1]
  <1>1. Len(s) \in m - 1 .. Len(s)
    OBVIOUS
  <1> QED
    BY <1>1, SubSeqProperties

(* What the mapping takes from the state besides stage, line and status.    *)
LEMMA PendingSame ==
  ASSUME UNCHANGED <<buf, read_idx, start_line>>
  PROVE  pending' = pending
  BY DEF pending

(* A byte of the buffer that parse_line has not cut off, seen as a pending  *)
(* one.                                                                     *)
LEMMA PendingAt ==
  ASSUME TypeOK, NEW i \in start_line .. read_idx - 1
  PROVE  i - start_line + 1 \in 1 .. Len(pending) /\ pending[i - start_line + 1] = buf[i]
  <1>1. i - start_line + 1 \in 1 .. read_idx - start_line
    BY DEF TypeOK
  <1>2. start_line + (i - start_line + 1) - 1 = i
    BY DEF TypeOK
  <1> QED
    BY <1>1, <1>2, PendingIs

(* The scan up to a byte says that the line so far is text. *)
LEMMA TextBefore ==
  ASSUME Inv, NEW i \in checked_idx .. read_idx,
         \A j \in checked_idx .. i - 1 : buf[j] \notin Ends
  PROVE  /\ i - start_line \in 0 .. Len(pending)
         /\ \A k \in 1 .. i - start_line : pending[k] \notin Ends
  <1> USE DEF Inv, TypeOK
  <1>1. i - start_line \in 0 .. Len(pending)
    BY PendingIs
  <1> SUFFICES ASSUME NEW k \in 1 .. i - start_line PROVE pending[k] \notin Ends
    BY <1>1
  <1>2. pending[k] = buf[start_line + k - 1]
    BY PendingIs
  <1>3. start_line + k - 1 \in start_line .. i - 1
    OBVIOUS
  <1>4. buf[start_line + k - 1] \notin Ends
    BY <1>3 DEF Scanned
  <1> QED
    BY <1>2, <1>4

(* The first state of the parser is one of the stream.                      *)
LEMMA StreamInit == Init => Stream!Init
  BY DEF Init, Stream!Init, pending

(* Cutting a line off takes it from the stream.                             *)
LEMMA TakeMaps ==
  ASSUME Inv, TypeOK', LineOk
  PROVE  \E n \in 0 .. Len(pending) : Stream!Take(n)
  <1> USE DEF Inv, TypeOK
  <1>1. PICK cr \in checked_idx .. read_idx - 2 :
           /\ Meets(cr) /\ buf[cr] = CR /\ buf[cr + 1] = LF
           /\ stage = "working" /\ stage' \in {"working", "answered"}
           /\ buf' = [buf EXCEPT ![cr] = NUL, ![cr + 1] = NUL]
           /\ checked_idx' = cr + 2 /\ start_line' = cr + 2
           /\ line' = [k \in 1 .. cr - start_line |-> buf[start_line + k - 1]]
           /\ status' = "LINE_OK"
           /\ UNCHANGED read_idx
    BY LineOkStep
  <1> DEFINE n == cr - start_line
  <1>2. n \in 0 .. Len(pending) /\ \A k \in 1 .. n : pending[k] \notin Ends
    <2> HIDE DEF Inv, TypeOK
    <2>1. cr \in checked_idx .. read_idx /\ \A j \in checked_idx .. cr - 1 : buf[j] \notin Ends
      BY <1>1 DEF Meets, Inv, TypeOK
    <2> QED
      BY <2>1, TextBefore
  <1>3. pending \in Seq(Chars) /\ Len(pending) = read_idx - start_line
    BY PendingIs
  <1>4. n + 2 <= Len(pending)
    BY <1>3
  <1>5. pending[n + 1] = CR
    <2>1. cr \in start_line .. read_idx - 1
      OBVIOUS
    <2> HIDE DEF Inv
    <2>2. pending[cr - start_line + 1] = buf[cr]
      BY <2>1, PendingAt DEF Inv
    <2> QED
      BY <1>1, <2>2
  <1>6. pending[n + 2] = LF
    <2>1. cr + 1 \in start_line .. read_idx - 1 /\ cr + 1 - start_line + 1 = n + 2
      OBVIOUS
    <2> QED
      BY <1>1, <2>1, PendingAt
  <1>7. Stream!Complete(n)
    BY <1>2, <1>4, <1>5, <1>6 DEF Stream!Complete, Stream!Ends
  <1>8. line' = SubSeq(pending, 1, n)
    <2>1. \A k \in 1 .. n : pending[k] = buf[start_line + k - 1]
      BY <1>2, PendingIs
    <2>2. SubSeq(pending, 1, n) = [k \in 1 .. n |-> pending[k]]
      BY <1>2, <1>3, SubSeqProperties
    <2> HIDE DEF n
    <2>3. [k \in 1 .. n |-> pending[k]] = [k \in 1 .. n |-> buf[start_line + k - 1]]
      BY <2>1
    <2> QED
      BY <1>1, <2>2, <2>3 DEF n
  <1>9. pending' = SubSeq(pending, n + 3, Len(pending))
    <2> DEFINE rest == SubSeq(pending, n + 3, Len(pending))
    <2>1. pending' \in Seq(Chars) /\ Len(pending') = read_idx - (cr + 2)
      BY <1>1, PendingNext
    <2>2. /\ rest \in Seq(Chars) /\ Len(rest) = read_idx - (cr + 2)
          /\ \A k \in 1 .. read_idx - (cr + 2) : rest[k] = pending[n + 2 + k]
      <3> DEFINE p == pending
                 m == n + 3
      <3>1. /\ p \in Seq(Chars) /\ m \in 1 .. Len(p) + 1
            /\ Len(p) - m + 1 = read_idx - (cr + 2)
        BY <1>2, <1>3, <1>4
      <3> HIDE DEF p, m
      <3>2. /\ SubSeq(p, m, Len(p)) \in Seq(Chars)
            /\ Len(SubSeq(p, m, Len(p))) = Len(p) - m + 1
            /\ \A k \in 1 .. Len(p) - m + 1 : SubSeq(p, m, Len(p))[k] = p[m + k - 1]
        BY <3>1, SubSeqOf
      <3>3. ASSUME NEW k \in 1 .. read_idx - (cr + 2)
            PROVE  m + k - 1 = n + 2 + k
        BY DEF m
      <3> QED
        BY <3>1, <3>2, <3>3 DEF p, m
    <2>3. ASSUME NEW k \in 1 .. read_idx - (cr + 2)
          PROVE  pending'[k] = rest[k]
      <3>1. pending'[k] = buf'[cr + 2 + k - 1]
        BY <1>1, PendingNext
      <3>2. cr + 1 + k \in start_line .. read_idx - 1 /\ cr + 1 + k - start_line + 1 = n + 2 + k
        OBVIOUS
      <3>3. pending[n + 2 + k] = buf[cr + 1 + k]
        BY <3>2, PendingAt
      <3>4. buf'[cr + 1 + k] = buf[cr + 1 + k]
        BY <1>1
      <3>5. cr + 2 + k - 1 = cr + 1 + k
        OBVIOUS
      <3> HIDE DEF rest
      <3> QED
        BY <2>2, <3>1, <3>3, <3>4, <3>5
    <2> HIDE DEF rest
    <2>4. pending' = rest
      BY <2>1, <2>2, <2>3, SeqEqual
    <2> QED
      BY <2>4 DEF rest
  <1>10. Stream!Take(n)
    BY <1>1, <1>7, <1>8, <1>9 DEF Stream!Take
  <1> QED
    BY <1>2, <1>10

(* LINE_BAD is returned for bytes that are malformed.                       *)
LEMMA BadMaps ==
  ASSUME Inv, LineBad
  PROVE  \E n \in 0 .. Len(pending) : Stream!Bad(n)
  <1> USE DEF Inv, TypeOK
  <1>1. PICK i \in checked_idx .. read_idx - 1 :
           /\ Return("LINE_BAD", i) /\ Meets(i)
           /\ \/ buf[i] = LF
              \/ buf[i] = CR /\ i + 1 < read_idx /\ buf[i + 1] # LF
    BY BadStep
  <1> DEFINE n == i - start_line
  <1>2. n \in 0 .. Len(pending) /\ \A k \in 1 .. n : pending[k] \notin Ends
    BY <1>1, TextBefore DEF Meets
  <1>3. n + 1 <= Len(pending) /\ pending[n + 1] = buf[i]
    BY PendingAt, PendingIs
  <1>4. i + 1 < read_idx => n + 2 <= Len(pending) /\ pending[n + 2] = buf[i + 1]
    <2> SUFFICES ASSUME i + 1 < read_idx
                 PROVE  n + 2 <= Len(pending) /\ pending[n + 2] = buf[i + 1]
      OBVIOUS
    <2>1. i + 1 \in start_line .. read_idx - 1 /\ i + 1 - start_line + 1 = n + 2
      OBVIOUS
    <2> QED
      BY <2>1, PendingAt, PendingIs
  <1>5. Stream!Malformed(n)
    BY <1>1, <1>2, <1>3, <1>4 DEF Stream!Malformed, Stream!Ends
  <1>6. pending' = pending
    BY <1>1, PendingSame DEF Return
  <1>7. Stream!Bad(n)
    BY <1>1, <1>5, <1>6 DEF Stream!Bad, Stream!Stop, Return, Goto
  <1> QED
    BY <1>2, <1>7

(* LINE_OPEN is returned for bytes that are neither a line nor malformed.   *)
LEMMA OpenMaps ==
  ASSUME Inv, LineOpen
  PROVE  Stream!Open
  <1> USE DEF Inv, TypeOK
  <1>1. PICK c \in checked_idx .. read_idx :
           /\ Return("LINE_OPEN", c)
           /\ \A j \in checked_idx .. c - 1 : buf[j] \notin Ends
           /\ c = read_idx \/ (c = read_idx - 1 /\ buf[c] = CR)
    BY OpenStep
  <1> DEFINE m == c - start_line
  <1>2. m \in 0 .. Len(pending) /\ \A k \in 1 .. m : pending[k] \notin Ends
    BY <1>1, TextBefore
  <1>3. \/ m = Len(pending)
        \/ m + 1 = Len(pending) /\ pending[m + 1] = CR
    <2>1. Len(pending) = read_idx - start_line
      BY PendingIs
    <2>2. CASE c = read_idx
      BY <2>1, <2>2
    <2>3. CASE c = read_idx - 1 /\ buf[c] = CR
      <3>1. pending[c - start_line + 1] = buf[c]
        BY <2>3, PendingAt
      <3> QED
        BY <2>1, <2>3, <3>1
    <2> QED
      BY <1>1, <2>2, <2>3
  <1>4. ASSUME NEW n \in 0 .. Len(pending)
        PROVE  ~Stream!Complete(n) /\ ~Stream!Malformed(n)
    <2> HIDE DEF m
    <2>1. Len(pending) \in Nat
      BY PendingIs
    <2>2. n + 1 \notin 1 .. m \/ pending[n + 1] \notin Ends
      BY <1>2
    <2>3. ~Stream!Complete(n)
      BY <1>2, <1>3, <2>1, <2>2 DEF Stream!Complete
    <2>4. ~Stream!Malformed(n)
      BY <1>2, <1>3, <2>1, <2>2 DEF Stream!Malformed
    <2> QED
      BY <2>3, <2>4
  <1>5. pending' = pending
    BY <1>1, PendingSame DEF Return
  <1> QED
    BY <1>1, <1>4, <1>5 DEF Stream!Open, Stream!Stop, Return, Goto

(* read() makes bytes arrive.                                               *)
LEMMA ArriveMaps ==
  ASSUME Inv, TypeOK', NEW n \in 1 .. Size - 1, Read(n)
  PROVE  Stream!Arrive
  <1> USE DEF Inv, TypeOK
  <1>1. /\ read_idx' = read_idx + n /\ UNCHANGED <<start_line, checked_idx, line, status>>
        /\ stage = "armed" /\ stage' = "working"
        /\ \A j \in 0 .. read_idx - 1 : buf'[j] = buf[j]
    BY ReadKeeps
  <1>2. Len(pending) = read_idx - start_line /\ Len(pending') = read_idx + n - start_line
    BY <1>1, PendingIs, PendingNext
  <1>3. ASSUME NEW k \in 1 .. Len(pending)
        PROVE  pending'[k] = pending[k]
    <2>1. pending[k] = buf[start_line + k - 1]
      BY <1>2, PendingIs
    <2>2. k \in 1 .. read_idx' - start_line'
      BY <1>1, <1>2
    <2>3. pending'[k] = buf'[start_line + k - 1]
      BY <1>1, <2>2, PendingNext
    <2>4. start_line + k - 1 \in 0 .. read_idx - 1
      BY <1>2
    <2> QED
      BY <1>1, <2>1, <2>3, <2>4
  <1> QED
    BY <1>1, <1>2, <1>3 DEF Stream!Arrive

(* init() empties the stream.                                               *)
LEMMA ClearMaps ==
  ASSUME TypeOK', Open \/ Write
  PROVE  Stream!Clear
  <1>1. Len(pending') = 0 /\ pending' \in Seq(Chars)
    BY PendingNext DEF Open, Write, Reset
  <1>2. pending' = <<>>
    BY <1>1
  <1> QED
    BY <1>2 DEF Open, Write, Reset, Stream!Clear

(* Every step of the parser is a step of the stream, or none.               *)
LEMMA StreamStep ==
  ASSUME Inv, [Next]_vars
  PROVE  [Stream!Next]_(Stream!vars)
  <1>1. TypeOK'
    BY TypesStep DEF Inv
  <1>2. CASE Open \/ Write
    BY <1>1, <1>2, ClearMaps DEF Stream!Next
  <1>3. CASE Close
    BY <1>3, PendingSame DEF Close, indexes, Stream!Next, Stream!Close
  <1>4. CASE LineOpen
    BY <1>4, OpenMaps DEF Stream!Next
  <1>5. CASE LineBad
    BY <1>5, BadMaps DEF Stream!Next
  <1>6. CASE LineOk
    BY <1>1, <1>6, TakeMaps DEF Stream!Next
  <1>7. CASE \E n \in 1 .. Size - 1 : Read(n)
    BY <1>1, <1>7, ArriveMaps DEF Stream!Next
  <1>8. CASE UNCHANGED vars
    BY <1>8, PendingSame DEF vars, indexes, Stream!vars
  <1> QED
    BY <1>2, <1>3, <1>4, <1>5, <1>6, <1>7, <1>8 DEF Next, Worker

(* In whatever pieces the bytes arrive, parse_line cuts them where a reader *)
(* of the whole text would: it implements LineStream.                       *)
THEOREM ParserRefines == Spec => ImplementsStream
  <1>1. Inv /\ [Next]_vars => [Stream!Next]_(Stream!vars)
    BY StreamStep
  <1> QED
    BY <1>1, StreamInit, Invariance, PTL DEF Spec, ImplementsStream, Stream!Spec
==============================================================================
