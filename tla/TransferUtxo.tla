---------------------------- MODULE TransferUtxo ----------------------------
(***************************************************************************)
(* The transfer state machine of the Bitcoin family.  The packages         *)
(* fsmbtc, fsmltc, fsmbch and fsmdoge hold four copies of it that differ   *)
(* in the wallet SDK they call, and in fsmbch waiting for the node without *)
(* a timeout.  It sweeps the outputs of the from addresses (only transfers *)
(* of the whole amount are accepted) in one transaction.                   *)
(*                                                                         *)
(* The node and the explorer are external.  The transfer has one from      *)
(* address (a list of them is swept address by address); a coin is an      *)
(* output that pays it, named by the transaction that created it and its   *)
(* index there.  Every run of sendTransfer builds a transaction of its     *)
(* own, as the inputs come out of a Go map in an arbitrary order.          *)
(***************************************************************************)
EXTENDS Transfer, UtxoTx

CONSTANTS
    Coins,             \* outputs paying the from address: <<tx, index>>
    Amount,            \* what each is worth
    From,              \* the from addresses that the transfer may have
    To,                \* the to address
    Signature,         \* lengths of an ECDSA signature with its sighash byte
    MinUTXOAmount,     \* smallest output that is swept, from the configuration
    FeePerByte,        \* from the configuration, 0 when it is not set
    Testnet,           \* the network of the configuration is testnet
    Fee, FeeMax,       \* of the request, 0 when they are not set
    MinConfirmations   \* constants.GetMinConfirmations

ASSUME UtxoAssumption ==
    /\ Coins \subseteq Nat \X Nat
    /\ Amount \in [Coins -> Nat]
    /\ \A a \in From \cup {To} : a.network \in UtxoChains
    /\ MinUTXOAmount \in Nat /\ FeePerByte \in Nat /\ Fee \in Nat /\ FeeMax \in Nat
    /\ Testnet \in BOOLEAN
    /\ MinConfirmations \in Nat \ {0}

\* The sums are over finitely many outputs, and their scripts have a length.
ASSUME ScriptsAssumption ==
    /\ IsFiniteSet(Coins)
    /\ \A a \in From \cup {To} : a.type \in AddressType \cup {""}

\* A signature is the DER encoding of two numbers, the second one in its lower half.
ASSUME SignatureAssumption == Signature \subseteq 9..72

VARIABLES
    from,      \* the from address of the transfer
    arrived,   \* coins that have been paid to the address
    built,     \* the transactions built so far, by number
    inflight,  \* built transactions whose submission has no outcome yet
    chain      \* number of a transaction the node accepted -> confirmations

utxoVars == <<from, arrived, built, inflight, chain>>
vars == <<wfVars, trVars, utxoVars>>

validate_request == 1
sending == 2
waiting_in_mempool == 3
waiting_for_the_first_confirmation == 4
waiting_confirmations == 5
send_success_event == 6

\* Stages before_sending, sending and after_sending.
UtxoStageOf == <<1, 2, 3, 3, 3, 3>>
after_sending == 3

ASSUME UtxoSteps == StepCount = 6 /\ StageOf = UtxoStageOf

InitUtxo ==
    /\ InitTransfer
    /\ from \in From
    /\ arrived \in (SUBSET Coins) \ {{}}
    /\ built = <<>>
    /\ inflight = {}
    /\ chain = <<>>

Sent == DOMAIN chain

Spent == UNION {built[t].inputs : t \in Sent}

Accepts(inputs) == inputs \cap Spent = {}

\* The chain with transaction t in the node's mempool.
InMempool(t) == [u \in Sent \cup {t} |-> IF u \in Sent THEN chain[u] ELSE 0]

(***************************************************************************)
(* Environment                                                             *)
(***************************************************************************)

\* Another payment reaches the from address.
Deposit ==
    /\ \E c \in Coins \ arrived : arrived' = arrived \cup {c}
    /\ UNCHANGED <<wfVars, trVars, from, built, inflight, chain>>

\* The submission that sendTransfer no longer waits for ends after all.
LateSubmission ==
    /\ \E t \in inflight :
        /\ inflight' = inflight \ {t}
        /\ \/ Accepts(built[t].inputs) /\ chain' = InMempool(t)
           \/ UNCHANGED chain
    /\ UNCHANGED <<wfVars, trVars, from, arrived, built>>

\* A block with the transaction, or a block on top of it.
NewBlock ==
    /\ \E t \in Sent :
        /\ chain[t] < MinConfirmations
        /\ chain' = [chain EXCEPT ![t] = @ + 1]
    /\ UNCHANGED <<wfVars, trVars, from, arrived, built, inflight>>

(***************************************************************************)
(* The step functions                                                      *)
(***************************************************************************)

\* The checks of the request and of the wallets, or the calls behind them, may
\* fail.
validateRequest ==
    /\ InStep(validate_request)
    /\ \/ Returns("error") /\ UNCHANGED trVars
       \/ setTransferStatus("processing", "nil")
    /\ UNCHANGED utxoVars

\* Outputs that are too small, or worth nothing, are left where they are.  The
\* others go through a map by transaction hash, which keeps one of each.
getAddressUTXO(reported) ==
    LET large == {c \in reported : Amount[c] >= MinUTXOAmount /\ Amount[c] > 0} IN
    {kept \in SUBSET large :
        /\ \A c \in large : \E k \in kept : k[1] = c[1]
        /\ \A c, k \in kept : c[1] = k[1] => c = k}

\* The outputs that the transaction may spend: the explorer may still report some
\* that are spent, and must report one at least.
processAddressesUTXOs ==
    (UNION {getAddressUTXO((arrived \ Spent) \cup stale) : stale \in SUBSET (arrived \cap Spent)}) \ {{}}

\* The fee of the request comes before that of the testnet and of the
\* configuration.
feePerByte == IF Fee > 0 THEN Fee ELSE IF Testnet THEN 5 ELSE FeePerByte

FeeIsAllowed == FeeMax > 0 => feePerByte <= FeeMax

Worth(coins) == MapThenSumSet(LAMBDA c : Amount[c], coins)

\* The inputs with the key that GenerateAddress derives again, and the output
\* with all they are worth.
newTx(coins) ==
    UNION {AddOutput(tx, To, Worth(coins)) :
             tx \in AddInputs(NewTxBuilder,
                              {TxInput(c, from.key, Script(from), Amount[c]) : c \in coins})}

\* The fee of the emulation, with the signatures emu, is taken from the output, and
\* the signatures sig are made.  short is history: what the fee lacks for the size
\* that the transaction has then, but for the bytes that its signatures became longer.
signed(coins, tx, emu, sig) ==
    {[inputs |-> coins,
      short |-> Max({0, CalculateTxSize(from.network, tx, sig, feePerByte)
                            - (fee + Longer(tx, emu, sig) * feePerByte)})] :
        fee \in {f \in EmulateTxSize(from.network, tx, emu, feePerByte) : f <= Worth(coins)}}

\* The transactions that may come of it: every signature is one of its own, in the
\* emulation and in the end.
buildTransaction(coins) ==
    UNION {UNION {signed(coins, tx, emu, sig) : emu, sig \in [tx.in -> Signature]} : tx \in newTx(coins)}

\* The hash of transaction t is written, then the state data, which may fail.
setTxHash(t) == row' = [row EXCEPT !.txHash = t]

hashNotWritten(t) ==
    /\ (LostRun /\ UNCHANGED row) \/ (Abort /\ setTxHash(t))
    /\ UNCHANGED <<inflight, chain>>

\* The goroutine that submits transaction t: the node accepts it, and the answer
\* may be lost; or it refuses it; or the five minutes are over.
sendRawTransaction(t, inputs) ==
    \/ /\ Accepts(inputs)
       /\ chain' = InMempool(t)
       /\ Returns("nil") \/ Returns("error") \/ Abort
       /\ UNCHANGED inflight
    \/ Returns("error") /\ UNCHANGED <<inflight, chain>>
    \/ /\ inflight' = inflight \cup {t}
       /\ Returns("error")
       /\ UNCHANGED chain

\* The transaction is built, its hash is written to the transfer, and then it is
\* submitted to the node.
sendTransfer ==
    /\ InStep(sending)
    /\ \/ Returns("error") /\ UNCHANGED <<trVars, utxoVars>>
       \/ FeeIsAllowed /\ \E inputs \in processAddressesUTXOs : \E tx \in buildTransaction(inputs) :
            /\ built' = Append(built, tx)
            /\ \/ hashNotWritten(Len(built'))
               \/ setTxHash(Len(built')) /\ sendRawTransaction(Len(built'), inputs)
            /\ UNCHANGED <<events, from, arrived>>

\* Explorer: no error, and it has seen the transaction of the transfer.
Found == row.txHash \in Sent

waitingInMempool ==
    /\ InStep(waiting_in_mempool)
    /\ \/ Returns("error") /\ UNCHANGED trVars
       \/ Returns("snooze") /\ UNCHANGED trVars
       \/ Found /\ setTransferStatus("in_mempool", "nil")
    /\ UNCHANGED utxoVars

waitingForTheFirstConfirmation ==
    /\ InStep(waiting_for_the_first_confirmation)
    /\ \/ Returns("error") /\ UNCHANGED trVars
       \/ Returns("snooze") /\ UNCHANGED trVars
       \/ Found /\ chain[row.txHash] > 0 /\ setTransferStatus("unconfirmed", "nil")
    /\ UNCHANGED utxoVars

\* Mutant of waitingConfirmations: one confirmation too few.
waitingFewerConfirmations ==
    /\ InStep(waiting_confirmations)
    /\ \/ Returns("snooze")
       \/ Found /\ chain[row.txHash] + 1 >= MinConfirmations /\ Returns("nil")
    /\ UNCHANGED <<trVars, utxoVars>>

waitingConfirmations ==
    /\ InStep(waiting_confirmations)
    /\ \/ Returns("error")
       \/ Returns("snooze")
       \/ Found /\ chain[row.txHash] >= MinConfirmations /\ Returns("nil")
    /\ UNCHANGED <<trVars, utxoVars>>

sendSuccessEvent ==
    /\ InStep(send_success_event)
    /\ setTransferStatus("completed", "nil")
    /\ UNCHANGED utxoVars

\* Mutant of OnFailure: an error of the step sending is left to River.
OnFailureRetriesSending ==
    /\ \/ CurrentStep = validate_request /\ sendFailureEvent(0..2)
       \/ CurrentStep # validate_request /\ IgnoreFailure /\ UNCHANGED trVars
    /\ UNCHANGED utxoVars

\* Mutant of OnFailure: errors of the stage after_sending fail the transfer too.
OnFailureAlways == sendFailureEvent(0..2) /\ UNCHANGED utxoVars

\* OnFailureFn: any error before the stage after_sending fails the transfer.
OnFailure ==
    /\ \/ StageOf[CurrentStep] # after_sending /\ (sendFailureEvent(0..2) \/ failureEventLost)
       \/ StageOf[CurrentStep] = after_sending /\ IgnoreFailure /\ UNCHANGED trVars
    /\ UNCHANGED utxoVars

StepFunction ==
    \/ validateRequest \/ sendTransfer \/ waitingInMempool
    \/ waitingForTheFirstConfirmation \/ waitingConfirmations \/ sendSuccessEvent

Environment == Deposit \/ LateSubmission \/ NewBlock

NextUtxo ==
    \/ Engine /\ UNCHANGED <<trVars, utxoVars>>
    \/ StepFunction
    \/ OnFailure
    \/ Environment

SpecUtxo == InitUtxo /\ [][NextUtxo]_vars

\* River keeps working on the job, blocks keep coming, and an explorer that is
\* asked again and again answers at last.
Fairness ==
    /\ WF_vars(Engine /\ UNCHANGED <<faults, trVars, utxoVars>>)
    /\ WF_vars(StepFunction /\ UNCHANGED faults)
    /\ SF_vars(StepFunction /\ UNCHANGED faults /\ result' = "nil")
    /\ WF_vars(OnFailure /\ UNCHANGED faults)
    /\ WF_vars(NewBlock)

FairSpecUtxo == SpecUtxo /\ Fairness

(***************************************************************************)
(* Properties                                                              *)
(***************************************************************************)

UtxoTypeOK ==
    /\ TransferTypeOK
    /\ arrived \subseteq Coins
    /\ from \in From
    /\ \A t \in DOMAIN built : built[t].inputs \subseteq Coins
    /\ inflight \subseteq DOMAIN built
    /\ Sent \subseteq DOMAIN built
    /\ \A t \in Sent : chain[t] \in 0..MinConfirmations

\* A completed transfer names a transaction with enough confirmations, however
\* often a crash made sendTransfer build and submit another one.
CompletedIsConfirmed ==
    row.status = "completed" => Found /\ chain[row.txHash] >= MinConfirmations

\* Only a failed write or a crash makes sendTransfer build another transaction:
\* errors of the node and timeouts end the transfer instead of repeating it.
ResendNeedsFault == Len(built) =< 1 + (MaxFaults - faults)

\* The fee of a transaction is that of an emulation of it.  It pays for the size all
\* the same, but for the bytes by which signatures have become longer: nothing else
\* differs, and rounding adds nothing.
FeeIsPaid == \A t \in DOMAIN built : built[t].short = 0

=============================================================================
