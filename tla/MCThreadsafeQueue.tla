-------------------------- MODULE MCThreadsafeQueue --------------------------
EXTENDS ThreadsafeQueue, TLC

(* Threads and items are interchangeable: sound for the invariants and the  *)
(* refinement, not used by the liveness run.                                *)
Symmetry == Permutations(Producers) \cup Permutations(Consumers) \cup Permutations(Items)
==============================================================================
