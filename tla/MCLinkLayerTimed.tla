------------------------- MODULE MCLinkLayerTimed -------------------------
(* LinkLayerTimed on small instances, for TLC.                             *)
EXTENDS LinkLayerTimedInv
=============================================================================
