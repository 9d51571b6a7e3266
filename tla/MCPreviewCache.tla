--------------------------- MODULE MCPreviewCache ---------------------------
(***************************************************************************)
(* Values for the constants of PreviewCache: two paths that share a cache  *)
(* file in one revision, and a second revision of one of them.             *)
(***************************************************************************)
EXTENDS PreviewCache

CONSTANTS p1, p2

MCFileName == [p \in Paths |-> "shared"]
MCKeys == {<<p1, 1>>, <<p2, 1>>, <<p1, 2>>}
=============================================================================
