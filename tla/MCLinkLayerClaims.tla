------------------------- MODULE MCLinkLayerClaims -------------------------
(* The documented claims of LinkLayerClaims on small instances, for TLC.    *)
EXTENDS LinkLayerClaims
=============================================================================
