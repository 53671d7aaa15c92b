------------------------------ MODULE MCServices -------------------------------
(***************************************************************************)
(* Services for TLC: the four services of the journal.  In Private every   *)
(* object is in the table of one connection; in Shared both have the GET   *)
(* service.  The lengths have the order of those of the texts.             *)
(***************************************************************************)
EXTENDS Services, TLC

CONSTANTS a, b   \* the connections

Kinds     == [o \in Objects |-> o]
Private   == (a :> {"GET", "PUT"}) @@ (b :> {"POST", "DELETE"})
Shared    == (a :> {"GET", "PUT"}) @@ (b :> {"GET", "DELETE"})
Lengths   == [p \in Pieces |-> IF p = "content" THEN 3 ELSE IF p = "blank" THEN 1 ELSE 2]

(* The workers are interchangeable. *)
Symmetry == Permutations(Workers)
==============================================================================
