---------------------------- MODULE MCEventLoop ----------------------------
(***************************************************************************)
(* EventLoop with a pool and a number of threads that the requests can     *)
(* exhaust.                                                                *)
(***************************************************************************)
EXTENDS EventLoop
=============================================================================
