--------------------------- MODULE MCTransferUtxo ---------------------------
(***************************************************************************)
(* Outputs of two transactions, one of which pays the from address twice,  *)
(* and a from address that can be signed for, or one that cannot.          *)
(***************************************************************************)
EXTENDS TransferUtxo

MCCoins == {<<1, 0>>, <<1, 1>>, <<2, 0>>}

MCAmount == [c \in MCCoins |-> IF c[1] = 1 THEN 1000 ELSE 300]

MCFrom ==
    {BtcGenerateAddress("P2WPKH", 1, 1).address, BtcGenerateAddress("P2SH", 1, 1).address}

MCTo == BtcGenerateAddress("P2PKH", 1, 0).address

=============================================================================
