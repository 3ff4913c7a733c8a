----------------------------- MODULE MCWallets -----------------------------
(***************************************************************************)
(* Wallets on two EVM chains, Tron and Bitcoin, of which Polygon has just  *)
(* been added.  The two owners yet to be created have the same mnemonic.   *)
(***************************************************************************)
EXTENDS Wallets, TLC

CONSTANTS o1, o2, o3

MCOwner == {o1, o2, o3}

Symmetry == Permutations(Request) \cup Permutations({o2, o3}) \cup Permutations(Pass) \cup Permutations(External)

MCSeed == [o \in MCOwner |-> IF o = o1 THEN 1 ELSE 2]

=============================================================================
