---------------------------- MODULE MCApiSession ----------------------------
(* Instances of ApiSession for TLC.                                        *)
EXTENDS ApiSession, TLC
=============================================================================
