---------------------------- MODULE MCSessions ----------------------------
(* Sessions on small instances, for TLC.                                   *)
EXTENDS SessionsInv
=============================================================================
