---------------------------- MODULE MCNwStreams -----------------------------
(* NwStreams for TLC; the configurations give the constants their values.  *)
EXTENDS NwStreams
=============================================================================
