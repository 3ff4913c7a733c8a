------------------------------- MODULE UtxoTx -------------------------------
(***************************************************************************)
(* TxBuilder of the packages btc, ltc, bch and doge of pkg/walletsdk: the  *)
(* transaction that sweeps the outputs of an address, its size, its fee    *)
(* and its signatures.                                                     *)
(*                                                                         *)
(* A method that may return an error is a set of results, empty when there *)
(* is an error.  Scripts and signatures are reduced to what decides        *)
(* whether a signature is accepted and how many bytes it takes: sig gives  *)
(* each input the length of its ECDSA signature with the sighash byte,     *)
(* which depends on all that is signed.                                    *)
(***************************************************************************)
EXTENDS WalletSDK, Integers, Sequences, FiniteSetsExt

UtxoChains == {"bitcoin", "litecoin", "bitcoincash", "dogecoin"}

\* Scripts: the kind, and for a script hash what is hashed.
Script(a) ==
    LET kind == IF a.type = "" THEN "P2PKH" ELSE a.type
    IN  [kind |-> kind, key |-> a.key, redeem |-> IF kind = "P2SH" THEN "OP_0 key hash" ELSE ""]

TxInput(outpoint, key, script, amount) ==
    [outpoint |-> outpoint, key |-> key, script |-> script, amount |-> amount]

NewTxBuilder == [in |-> {}, out |-> <<>>]

\* Inputs are added one by one; the first that is there already is an error.
AddInputs(tx, I) ==
    IF \E i \in I, j \in tx.in : i.outpoint = j.outpoint THEN {}
    ELSE {[tx EXCEPT !.in = @ \cup I]}

AddOutput(tx, a, value) ==
    IF \E n \in DOMAIN tx.out : tx.out[n].address = a THEN {}
    ELSE {[tx EXCEPT !.out = Append(@, [address |-> a, value |-> value])]}

(***************************************************************************)
(* Signatures                                                              *)
(***************************************************************************)

\* signTxIn of the chains, with the verdict of the engine that runs the script.
\* For a script hash the signature is made for a script with the whole public key,
\* which is not the one that GenerateAddress hashes.
BtcSigns(i) == i.script.key = i.key /\ (i.script.kind = "P2SH" => i.script.redeem = "OP_0 key")

LtcSigns(i) == i.script.key = i.key /\ (i.script.kind = "P2SH" => i.script.redeem = "OP_0 key")

\* Dogecoin knows no Taproot outputs ...
DogeSigns(i) ==
    /\ i.script.key = i.key /\ i.script.kind # "P2TR"
    /\ i.script.kind = "P2SH" => i.script.redeem = "OP_0 key"

\* ... and Bitcoin Cash gives the script of the output for the script that is
\* hashed.
BchSigns(i) == i.script.key = i.key /\ i.script.kind = "P2PKH"

SignTxIn(b, i) ==
    CASE b = "bitcoin"     -> BtcSigns(i)
      [] b = "litecoin"    -> LtcSigns(i)
      [] b = "bitcoincash" -> BchSigns(i)
      [] b = "dogecoin"    -> DogeSigns(i)

SignTx(b, tx) == tx.in # {} /\ \A i \in tx.in : SignTxIn(b, i)

(***************************************************************************)
(* Sizes and fees                                                          *)
(***************************************************************************)

\* The two places of a signature of n bytes; that of a Taproot input is a Schnorr
\* signature, which has one length.
SignatureScript(i, n) == IF i.script.kind = "P2PKH" THEN 35 + n ELSE 0

Witness(i, n) ==
    CASE i.script.kind = "P2WPKH" -> 36 + n [] i.script.kind = "P2TR" -> 66 [] OTHER -> 0

ScriptLength(a) ==
    LET kind == Script(a).kind IN
    CASE kind = "P2PKH" -> 25 [] kind = "P2SH" -> 23 [] kind = "P2WPKH" -> 22 [] kind = "P2TR" -> 34

SerializeSizeStripped(tx, sig) ==
    10 + MapThenSumSet(LAMBDA i : 41 + SignatureScript(i, sig[i]), tx.in)
       + MapThenSumSet(LAMBDA n : 9 + ScriptLength(tx.out[n].address), DOMAIN tx.out)

SerializeSize(tx, sig) ==
    LET witness == MapThenSumSet(LAMBDA i : Witness(i, sig[i]), tx.in)
    IN  SerializeSizeStripped(tx, sig) + (IF witness > 0 THEN 2 + witness ELSE 0)

\* Rounded up.  Bitcoin Cash has no witnesses: its weight counts the whole
\* transaction four times.
BchCalculateTxSize(tx, sig, feePerByte) == SerializeSize(tx, sig) * feePerByte

CalculateTxSize(b, tx, sig, feePerByte) ==
    LET weight == 3 * SerializeSizeStripped(tx, sig) + SerializeSize(tx, sig)
    IN  IF b = "bitcoincash" THEN BchCalculateTxSize(tx, sig, feePerByte)
        ELSE (weight * feePerByte + 3) \div 4

\* How many bytes the signatures sig are longer than emu, where they are longer.
Longer(tx, emu, sig) ==
    MapThenSumSet(LAMBDA i : Max({0, SignatureScript(i, sig[i]) + Witness(i, sig[i])
                                       - SignatureScript(i, emu[i]) - Witness(i, emu[i])}), tx.in)

\* Mutant of EmulateTxSize: the copy is not signed.
EmulateUnsigned(b, tx, emu, feePerByte) == {CalculateTxSize(b, tx, [i \in tx.in |-> -35], feePerByte)}

\* The copy of the transaction is signed, its fee is taken from the output, and it
\* is signed again, which makes the signatures emu: the fee of the second copy counts.
EmulateTxSize(b, tx, emu, feePerByte) ==
    IF SignTx(b, tx) THEN {CalculateTxSize(b, tx, emu, feePerByte)} ELSE {}

=============================================================================
