------------------------------- MODULE Exchange -------------------------------
(***************************************************************************)
(* The contract between the engine and a connection object.  The engine    *)
(* fills the object's buffer, hands it to a worker, and writes or closes,  *)
(* in this order and no other; the object asks for more, leaves a response *)
(* to be written, closes the connection or kills the process.              *)
(*                                                                         *)
(* Both sides implement it: WebServer, which abstracts from the text,      *)
(* for every connection object (ObjectsAreExchanges), and HttpConn, which  *)
(* says what process() does with the text, for one (ImplementsExchange).   *)
(***************************************************************************)
EXTENDS Integers

CONSTANT Size      \* the length of the buffer

VARIABLES stage,   \* "armed", "working", "writing" or "closed"
          fill,    \* m_read_idx
          up       \* the process is alive

vars == <<stage, fill, up>>

Init == stage = "closed" /\ fill \in 0 .. Size /\ up = TRUE

Goto(from, to) == up /\ stage = from /\ stage' = to

(* init( sockfd ): a client was accepted. *)
Open == Goto("closed", "armed") /\ fill' = 0 /\ UNCHANGED up

(* read() succeeded: something arrived, and there is room left. *)
Read == Goto("armed", "working") /\ fill' \in fill + 1 .. Size - 1 /\ UNCHANGED up

(* read() failed, or the client hung up, before or after it had an answer. *)
Drop ==
  /\ up /\ stage \in {"armed", "writing"} /\ stage' = "closed"
  /\ fill' \in fill .. Size
  /\ UNCHANGED up

More    == Goto("working", "armed")   /\ UNCHANGED <<fill, up>>
Respond == Goto("working", "writing") /\ UNCHANGED <<fill, up>>
Refuse  == Goto("working", "closed")  /\ UNCHANGED <<fill, up>>
Crash   == Goto("working", "working") /\ up' = FALSE /\ UNCHANGED fill

(* write() with nothing to send resets the connection. *)
Write == Goto("writing", "armed") /\ fill' = 0 /\ UNCHANGED up

Next == Open \/ Read \/ Drop \/ More \/ Respond \/ Refuse \/ Crash \/ Write

Spec == Init /\ [][Next]_vars
==============================================================================
