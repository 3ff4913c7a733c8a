--------------------------- MODULE MCTransferTron ---------------------------
(* TransferTron for TLC; the configurations give the bounds. *)
EXTENDS TransferTron

=============================================================================
