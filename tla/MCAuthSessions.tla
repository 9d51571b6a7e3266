--------------------------- MODULE MCAuthSessions ---------------------------
(***************************************************************************)
(* Values for the constants of AuthSessions.  Tokens are random and threads *)
(* alike, so both are symmetric.                                           *)
(***************************************************************************)
EXTENDS AuthSessions, TLC

CONSTANTS t1, t2, k1, k2, k3

Symmetry == Permutations(Threads) \cup Permutations(Tokens)
=============================================================================
