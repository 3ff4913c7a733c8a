----------------------------- MODULE MCWatcher -----------------------------
(***************************************************************************)
(* Two wallets, one of them on a chain that the external watcher does not  *)
(* support, and a transaction that pays both and an address of nobody.     *)
(***************************************************************************)
EXTENDS Watcher, TLC

CONSTANTS w1, w2, t1, other

MCTo == t1 :> {w1, w2, other}

=============================================================================
