------------------------------ MODULE MCMsqEnv ------------------------------
(* One client connection, one offered to a listener, a shared Registration. *)
EXTENDS MsqEnv
=============================================================================
