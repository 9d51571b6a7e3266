--------------------------- MODULE MCFileRequests ---------------------------
(***************************************************************************)
(* Values for the constants of FileRequests: every request is about a      *)
(* repository of ann, who has two sockets; ben has one.                    *)
(***************************************************************************)
EXTENDS FileRequests

CONSTANTS ann, ben, b1

OwnerOf == [c \in Conns |-> IF c = b1 THEN ben ELSE ann]
AskedOf == [t \in Requests |-> ann]
=============================================================================
