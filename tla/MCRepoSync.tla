----------------------------- MODULE MCRepoSync -----------------------------
(***************************************************************************)
(* Values for the constants of RepoSync: snapshots of one, two and one     *)
(* files, so that a later revision may have as many as an earlier one.     *)
(***************************************************************************)
EXTENDS RepoSync, TLC

FileCounts == [r \in Revs |-> IF r = 2 THEN 2 ELSE 1]
Symmetry == Permutations(Pushes)
=============================================================================
