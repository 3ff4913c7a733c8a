---------------------------- MODULE MCTransferEvm ----------------------------
(* TransferEvm for TLC; the configurations give the bounds. *)
EXTENDS TransferEvm
=============================================================================
