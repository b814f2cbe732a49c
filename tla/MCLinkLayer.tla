---------------------------- MODULE MCLinkLayer ----------------------------
(* LinkLayer on small instances, for TLC.                                   *)
EXTENDS LinkLayerInv
=============================================================================
