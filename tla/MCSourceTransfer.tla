--------------------------- MODULE MCSourceTransfer ---------------------------
(* Instances of SourceTransfer for TLC.                                       *)
EXTENDS SourceTransfer, TLC
=============================================================================
