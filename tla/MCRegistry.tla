----------------------------- MODULE MCRegistry -----------------------------
(***************************************************************************)
(* Symmetry of the constants of Registry.                                  *)
(***************************************************************************)
EXTENDS Registry, TLC

Symmetry == Permutations(Groups) \cup Permutations(Threads)
=============================================================================
