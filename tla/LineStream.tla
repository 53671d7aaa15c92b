------------------------------ MODULE LineStream ------------------------------
(***************************************************************************)
(* What parse_line promises its caller: the bytes of a request, in         *)
(* whatever pieces they arrive, are cut at each CR LF, a line at a time.   *)
(* A CR or a LF anywhere else ends the cutting.  There is no position in   *)
(* this specification: what a line is depends on the bytes alone.          *)
(***************************************************************************)
EXTENDS Naturals, Sequences

CONSTANTS CR, LF

VARIABLES stage,    \* "closed", "armed", "working" or "answered"
          pending,  \* the bytes that arrived and are in no line yet
          line,     \* the last line
          status    \* LINE_STATUS

vars == <<stage, pending, line, status>>

Ends == {CR, LF}

Init == stage = "closed" /\ pending = <<>> /\ line = <<>> /\ status = "LINE_OPEN"

(* The first n bytes are a line, and its CR LF follows. *)
Complete(n) ==
  /\ n + 2 <= Len(pending)
  /\ \A k \in 1 .. n : pending[k] \notin Ends
  /\ pending[n + 1] = CR /\ pending[n + 2] = LF

(* The first n bytes are text, and then comes what can be no line's end. *)
Malformed(n) ==
  /\ n + 1 <= Len(pending)
  /\ \A k \in 1 .. n : pending[k] \notin Ends
  /\ \/ pending[n + 1] = LF
     \/ pending[n + 1] = CR /\ n + 2 <= Len(pending) /\ pending[n + 2] # LF

(* Some bytes arrive after those that are there. *)
Arrive ==
  /\ stage = "armed" /\ stage' = "working"
  /\ Len(pending') > Len(pending)
  /\ \A k \in 1 .. Len(pending) : pending'[k] = pending[k]
  /\ UNCHANGED <<line, status>>

(* The line may be the last one of its request. *)
Take(n) ==
  /\ stage = "working" /\ stage' \in {"working", "answered"}
  /\ Complete(n)
  /\ line' = SubSeq(pending, 1, n)
  /\ pending' = SubSeq(pending, n + 3, Len(pending))
  /\ status' = "LINE_OK"

Stop(reason) ==
  /\ stage = "working" /\ stage' = "armed"
  /\ status' = reason
  /\ UNCHANGED <<pending, line>>

Bad(n) == Malformed(n) /\ Stop("LINE_BAD")

Open == /\ \A n \in 0 .. Len(pending) : ~Complete(n) /\ ~Malformed(n)
        /\ Stop("LINE_OPEN")

(* A new client, or the next request of this one. *)
Clear ==
  /\ stage \in {"closed", "answered"} /\ stage' = "armed"
  /\ pending' = <<>> /\ line' = <<>>
  /\ status' = "LINE_OPEN"

Close ==
  /\ stage \in {"armed", "answered"} /\ stage' = "closed"
  /\ UNCHANGED <<pending, line, status>>

Next == \/ Arrive \/ Open \/ Clear \/ Close
        \/ \E n \in 0 .. Len(pending) : Take(n) \/ Bad(n)

Spec == Init /\ [][Next]_vars
==============================================================================
