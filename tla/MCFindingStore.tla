-------------------------- MODULE MCFindingStore --------------------------
(* Two collections over a cap of one, so that trims happen, and a list      *)
(* request that prices a row meanwhile.                                     *)
EXTENDS FindingStore, TLC

Symmetry == Permutations(Contracts) \cup Permutations(Recorders)
============================================================================
