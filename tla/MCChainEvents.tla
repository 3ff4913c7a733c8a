--------------------------- MODULE MCChainEvents ---------------------------
(***************************************************************************)
(* 1 a payment of the processing wallet for a hot wallet to burn; 2 a      *)
(* deposit without key; 3 a payment between wallets of Bitcoin Cash that   *)
(* the explorer names by their legacy addresses; 4 a transfer of nothing   *)
(* that somebody else initiated; 5 a transaction that failed.              *)
(***************************************************************************)
EXTENDS ChainEvents, TLC

A(k, form) == [key |-> k, form |-> form]

MCWalletType ==
    (A("processing", "cashaddr") :> "processing") @@ (A("hot", "cashaddr") :> "hot")

MCBlockchain == <<"tron", "tron", "bitcoincash", "ethereum", "ethereum">>

Transfer(from, form, asset, zero, initiator, key, failed) ==
    [type |-> "transfer", success |-> TRUE, zero |-> zero, initiator |-> A(initiator, form),
     from |-> A(from, form), to |-> A("hot", form), asset |-> asset, key |-> key, failed |-> failed]

MCEvent ==
    <<Transfer("processing", "cashaddr", "trx", FALSE, "processing", TRUE, FALSE),
      Transfer("payer", "cashaddr", "trx", FALSE, "payer", FALSE, FALSE),
      Transfer("processing", "legacy", "bch", FALSE, "processing", TRUE, FALSE),
      Transfer("processing", "cashaddr", "usdt", TRUE, "payer", TRUE, FALSE),
      Transfer("payer", "cashaddr", "usdt", FALSE, "payer", TRUE, TRUE)>>

=============================================================================
