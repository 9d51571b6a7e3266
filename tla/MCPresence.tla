----------------------------- MODULE MCPresence -----------------------------
(***************************************************************************)
(* Values for the constants of Presence.                                   *)
(***************************************************************************)
EXTENDS Presence
=============================================================================
