------------------------------ MODULE MCShares ------------------------------
(***************************************************************************)
(* Values for the constants of Shares.  Users, shares, row ids and         *)
(* coroutines are alike.                                                   *)
(***************************************************************************)
EXTENDS Shares, TLC

CONSTANTS u1, u2, s1, s2, i1, i2, i3, h1, h2

Symmetry == Permutations(Users) \cup Permutations(Shares) \cup Permutations(Ids)
            \cup Permutations(Handlers)
=============================================================================
