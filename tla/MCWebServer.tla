----------------------------- MODULE MCWebServer -----------------------------
EXTENDS WebServer, TLC

(* Clients and workers are interchangeable (descriptors are not: accept     *)
(* returns the lowest).                                                     *)
Symmetry == Permutations(Clients) \cup Permutations(Workers)
==============================================================================
