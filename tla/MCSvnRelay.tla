----------------------------- MODULE MCSvnRelay -----------------------------
(***************************************************************************)
(* Values for the constants of SvnRelay: ann has two sockets, ben one.     *)
(***************************************************************************)
EXTENDS SvnRelay

CONSTANTS ann, ben, b1

OwnerOf == [c \in Conns |-> IF c = b1 THEN ben ELSE ann]
=============================================================================
