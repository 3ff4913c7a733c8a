----------------------------- MODULE WalletSDK -----------------------------
(***************************************************************************)
(* The part of pkg/walletsdk that makes addresses and keys.                *)
(*                                                                         *)
(* A private key is named by the path that derives it from a seed, and an  *)
(* address by the network that reads it, its type and the key that         *)
(* controls it.  Hashing, encoding and the curves are left out: two paths  *)
(* have two keys, and two keys have two addresses.  A seed stands for a    *)
(* mnemonic with its passphrase.                                           *)
(***************************************************************************)
EXTENDS Naturals

EVMBlockchains == {"ethereum", "bsc", "polygon", "arbitrum", "optimism", "linea"}

AllBlockchains == EVMBlockchains \cup {"bitcoin", "litecoin", "bitcoincash", "dogecoin", "tron"}

AddressType == {"P2PKH", "P2SH", "P2WPKH", "P2TR"}

\* The chains whose addresses have a type of their own.
Typed == {"bitcoin", "litecoin"}

\* The answer that is an error.
NoKey == [error |-> "address mismatch"]

\* The networks that read an address: one for all EVM chains.
Network(b) == IF b \in EVMBlockchains THEN "evm" ELSE b

\* m / purpose' / coin' / 0' / 0 / sequence
Key(seed, purpose, coin, n) == [seed |-> seed, purpose |-> purpose, coin |-> coin, n |-> n]

PublicKey(k) == [public |-> k]

Purpose(t) ==
    CASE t = "P2PKH"  -> 44
      [] t = "P2SH"   -> 49
      [] t = "P2WPKH" -> 84
      [] t = "P2TR"   -> 86

(***************************************************************************)
(* GenerateAddress of the chains, and WalletPubKeyHash of EVM and Tron: the *)
(* key and the address it controls.                                        *)
(***************************************************************************)

Generated(b, t, k) == [address |-> [network |-> Network(b), type |-> t, key |-> k], key |-> k]

BtcGenerateAddress(t, seed, n) == Generated("bitcoin", t, Key(seed, Purpose(t), 0, n))

LtcGenerateAddress(t, seed, n) == Generated("litecoin", t, Key(seed, Purpose(t), 2, n))

BchGenerateAddress(seed, n) == Generated("bitcoincash", "", Key(seed, 44, 145, n))

DogeGenerateAddress(seed, n) == Generated("dogecoin", "", Key(seed, 44, 3, n))

EvmWalletPubKeyHash(seed, n) == Generated("ethereum", "", Key(seed, 44, 60, n))

TronWalletPubKeyHash(seed, n) == Generated("tron", "", Key(seed, 44, 195, n))

\* DecodeAddressType of Bitcoin and of Litecoin.
BtcDecodeAddressType(a) == a.type

LtcDecodeAddressType(a) == a.type

\* AddressSecret and AddressPublic of EVM and Tron: the derived address is
\* compared with the one that was asked for.
EvmAddressSecret(a, seed, n) ==
    LET w == EvmWalletPubKeyHash(seed, n) IN IF w.address = a THEN w.key ELSE NoKey

EvmAddressPublic(a, seed, n) ==
    LET w == EvmWalletPubKeyHash(seed, n) IN IF w.address = a THEN PublicKey(w.key) ELSE NoKey

TronAddressSecret(a, seed, n) ==
    LET w == TronWalletPubKeyHash(seed, n) IN IF w.address = a THEN w.key ELSE NoKey

TronAddressPublic(a, seed, n) ==
    LET w == TronWalletPubKeyHash(seed, n) IN IF w.address = a THEN PublicKey(w.key) ELSE NoKey

(***************************************************************************)
(* SDK                                                                     *)
(***************************************************************************)

AddressWallet(b, t, seed, n) ==
    CASE b = "bitcoin"        -> BtcGenerateAddress(t, seed, n).address
      [] b = "litecoin"       -> LtcGenerateAddress(t, seed, n).address
      [] b = "bitcoincash"    -> BchGenerateAddress(seed, n).address
      [] b = "dogecoin"       -> DogeGenerateAddress(seed, n).address
      [] b \in EVMBlockchains -> EvmWalletPubKeyHash(seed, n).address
      [] b = "tron"           -> TronWalletPubKeyHash(seed, n).address

\* Bitcoin and its relatives generate the key of the sequence and do not look at
\* the address again.
AddressSecret(b, a, seed, n) ==
    CASE b = "bitcoin"        -> BtcGenerateAddress(BtcDecodeAddressType(a), seed, n).key
      [] b = "litecoin"       -> LtcGenerateAddress(LtcDecodeAddressType(a), seed, n).key
      [] b = "bitcoincash"    -> BchGenerateAddress(seed, n).key
      [] b = "dogecoin"       -> DogeGenerateAddress(seed, n).key
      [] b \in EVMBlockchains -> EvmAddressSecret(a, seed, n)
      [] b = "tron"           -> TronAddressSecret(a, seed, n)

AddressPublic(b, a, seed, n) ==
    CASE b = "bitcoin"        -> PublicKey(BtcGenerateAddress(BtcDecodeAddressType(a), seed, n).key)
      [] b = "litecoin"       -> PublicKey(LtcGenerateAddress(LtcDecodeAddressType(a), seed, n).key)
      [] b = "bitcoincash"    -> PublicKey(BchGenerateAddress(seed, n).key)
      [] b = "dogecoin"       -> PublicKey(DogeGenerateAddress(seed, n).key)
      [] b \in EVMBlockchains -> EvmAddressPublic(a, seed, n)
      [] b = "tron"           -> TronAddressPublic(a, seed, n)

=============================================================================
