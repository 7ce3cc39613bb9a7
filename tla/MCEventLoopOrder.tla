-------------------------- MODULE MCEventLoopOrder --------------------------
(* EventLoopOrder with a few events. *)
EXTENDS EventLoopOrder
=============================================================================
