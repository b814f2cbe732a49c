---------------------------- MODULE MCAppClaims ----------------------------
(* AppClaims on small instances, for TLC.                                   *)
EXTENDS AppClaims
=============================================================================
