-------------------------- MODULE MCMessageSequence --------------------------
(***************************************************************************)
(* Instances of MessageSequence for TLC.                                   *)
(***************************************************************************)
EXTENDS MessageSequence
=============================================================================
