--------------------------- MODULE MCTransferStats ---------------------------
(***************************************************************************)
(* A small instance of TransferStats for TLC.                              *)
(***************************************************************************)
EXTENDS TransferStats

\* Two files of one length, so that the timer of the first finds the second.
TwoFiles == <<2, 2>>
=============================================================================
