------------------------- MODULE MCDiscoveryUntracked -------------------------
(* Instance of DiscoveryUntracked for TLC.                                   *)
EXTENDS DiscoveryUntracked
=============================================================================
