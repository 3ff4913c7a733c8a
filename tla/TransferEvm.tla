----------------------------- MODULE TransferEvm -----------------------------
(***************************************************************************)
(* The transfer state machine of the EVM chains (internal/fsm/fsmevm).     *)
(* A token transfer from a hot wallet first sends the base asset it burns  *)
(* as gas; then the asset itself is sent and its confirmations awaited.    *)
(*                                                                         *)
(* transfer_transactions records what was sent.  A transaction is          *)
(* submitted to the node inside the database transaction that inserts its  *)
(* record, so a record that is rolled back does not take the transaction   *)
(* back.  The record is filed under the furthest step of the workflow,     *)
(* which need not be the one that submits.  Node and explorer are         *)
(* external.                                                               *)
(***************************************************************************)
EXTENDS Transfer, Sequences

CONSTANT MinConfirmations   \* constants.GetMinConfirmations

ASSUME EvmAssumption == MinConfirmations \in Nat \ {0}

VARIABLES
    kind,     \* "direct": no base asset is needed; "token": it may be
    age,      \* time since the transfer was created: 0, 1: > 5 min, 2: > 1 h
    loaded,   \* the status in the FSM's copy of the transfer
    stepWh,   \* the last webhook of createTransferStepWh
    records,  \* transfer_transactions: tx_type and number of the transaction
    chain     \* what the node was given: what it pays, confirmations, state

evmVars == <<kind, age, loaded, stepWh, records, chain>>
vars == <<wfVars, trVars, evmVars>>

validate_request == 1
send_base_asset_for_burn == 2
waiting_send_base_asset_for_burn_confirmations == 3
sending == 4
waiting_for_the_first_confirmation == 5
waiting_confirmations == 6
send_success_event == 7

\* Stages before_sending, sending and after_sending.
EvmStageOf == <<1, 1, 1, 2, 3, 3, 3>>

ASSUME EvmSteps == StepCount = 7 /\ StageOf = EvmStageOf

\* Mutant of exitOnFailedSteps: the step sending is retried.
exitBeforeSending == {validate_request, send_base_asset_for_burn}

exitOnFailedSteps == {validate_request, send_base_asset_for_burn, sending}

InitEvm ==
    /\ InitTransfer
    /\ kind \in {"direct", "token"}
    /\ age = 0
    /\ loaded = row.status
    /\ stepWh = [step |-> None, status |-> "processing"]
    /\ records = {}
    /\ chain = <<>>

\* FindTransactionByType
RecordsOf(type) == {t \in DOMAIN chain : <<type, t>> \in records}

\* prepareTransferTransactionTypeByStep: by the furthest step, not by the one that
\* is executed.
TxType ==
    CASE CurrentStep = send_base_asset_for_burn -> "base"
      [] CurrentStep = sending -> "transfer"
      [] OTHER -> "unknown"

(***************************************************************************)
(* Environment                                                             *)
(***************************************************************************)

TimePasses ==
    /\ age < 2
    /\ age' = age + 1
    /\ UNCHANGED <<wfVars, trVars, kind, loaded, stepWh, records, chain>>

\* A pending transaction is mined, successfully or reverted, or dropped by the
\* node; a mined one gets another confirmation.
Moved(tx) ==
    CASE tx.state = "pending" ->
            {[type |-> tx.type, state |-> s, confirmations |-> 1] : s \in {"success", "reverted"}}
                \cup {[type |-> tx.type, state |-> "dropped", confirmations |-> 0]}
      [] tx.confirmations \in 1..(MinConfirmations - 1) ->
            {[type |-> tx.type, state |-> tx.state, confirmations |-> tx.confirmations + 1]}
      [] OTHER -> {}

ChainMoves ==
    /\ \E t \in DOMAIN chain : \E tx \in Moved(chain[t]) : chain' = [chain EXCEPT ![t] = tx]
    /\ UNCHANGED <<wfVars, trVars, kind, age, loaded, stepWh, records>>

(***************************************************************************)
(* The step functions                                                      *)
(***************************************************************************)

\* The request, the wallets or the gas price are refused, or a call fails.
validateRequest ==
    /\ InStep(validate_request)
    /\ \/ Returns("error") /\ UNCHANGED trVars
       \/ setTransferStatus("processing", "nil")
    /\ UNCHANGED evmVars

\* The node takes a new transaction: the base asset or the payment itself.  The
\* record needs its type; only the payment of a token (sendERC20) is submitted
\* before that is known, and the step sending always finds a type.
Submitted(type) ==
    /\ TxType # "unknown"
    /\ chain' = Append(chain, [type |-> type, state |-> "pending", confirmations |-> 0])

\* sendBaseAsset and sendERC20 up to the point where the step goes on: there is no
\* type for the record, or the node refuses the transaction, or takes it and the
\* answer is lost, or takes it and the record is rolled back because the insert
\* or the commit fails.
SubmitFails(type) ==
    /\ \/ Returns("error") /\ UNCHANGED chain
       \/ Abort /\ UNCHANGED chain
       \/ Submitted(type) /\ (Returns("error") \/ Abort)
    /\ UNCHANGED records

\* ... or takes it and the record is committed.
SubmitRecorded(type) ==
    /\ Submitted(type)
    /\ records' = records \cup {<<TxType, Len(chain')>>}

\* SetTxHash returns the row as it is now, and the FSM keeps that copy.
SetTxHash(t) == row' = [row EXCEPT !.txHash = t] /\ loaded' = row.status

\* BeforeFn of three steps: a webhook with the step's name and the status in
\* the FSM's copy of the transfer.  That status was announced before, so events
\* stays; setTransferStatus does not touch the copy.
createTransferStepWh == stepWh' = [step |-> pos, status |-> loaded]

stepWhFails == Abort /\ UNCHANGED <<trVars, evmVars>>

\* The state data is written last; a failure of that is only logged.
sendBaseAssetForBurn ==
    /\ InStep(send_base_asset_for_burn)
    /\ \/ stepWhFails
       \/ /\ createTransferStepWh
          /\ \/ Returns("error") /\ UNCHANGED <<records, chain>>
             \/ /\ kind = "direct" \/ RecordsOf("base") = {}
                /\ ReturnsJump(sending)
                /\ UNCHANGED <<records, chain>>
             \/ /\ kind = "token"
                /\ RecordsOf("base") # {}
                /\ Returns("nil")
                /\ UNCHANGED <<records, chain>>
             \/ /\ kind = "token"
                /\ RecordsOf("base") = {}
                /\ \/ SubmitFails("base")
                   \/ SubmitRecorded("base") /\ Returns("nil")
          /\ UNCHANGED <<trVars, kind, age, loaded>>

\* The explorer does not know a transaction that is not mined, and may not know
\* one that is; an explorer that fails gives no answer either.
Unknown == "unknown"
Answers(t) == {Unknown} \cup (IF chain[t].confirmations > 0 THEN {chain[t].state} ELSE {})

\* ensureTxInBlockchain, with what it returns other than nil: after an hour any
\* error of the explorer counts as a transaction that was not found.
ensureTxFails(t) ==
    \E a \in Answers(t) :
        \/ a = Unknown /\ age = 2 /\ Returns("failed")
        \/ a = Unknown /\ age < 2 /\ (Returns("snooze") \/ Returns("error"))
        \/ a = "reverted" /\ Returns("failed")
        \/ a = "success" /\ Returns("snooze")
        \/ a = "success" /\ Fault /\ Return("failed", state) /\ UNCHANGED snapshot

waitingSendBurnBaseAssetConfirmations ==
    /\ InStep(waiting_send_base_asset_for_burn_confirmations)
    /\ \/ Returns("error")
       \/ \E t \in RecordsOf("base") :
            /\ RecordsOf("base") = {t}
            /\ \/ ensureTxFails(t)
               \/ "success" \in Answers(t) /\ ReturnsJump(sending)
    /\ UNCHANGED <<trVars, evmVars>>

\* The transfer itself.  A recorded transaction is taken up again; otherwise a
\* new one is submitted, and its state data and hash are written after it.
sendingStep ==
    /\ InStep(sending)
    /\ \/ Returns("error") /\ UNCHANGED <<row, loaded, records, chain>>
       \/ \E t \in RecordsOf("transfer") :
            /\ \/ row.txHash = t /\ Returns("nil") /\ UNCHANGED <<row, loaded>>
               \/ row.txHash # t /\ SetTxHash(t) /\ Returns("nil")
               \/ row.txHash # t /\ LostRun /\ UNCHANGED <<row, loaded>>
            /\ UNCHANGED <<records, chain>>
       \/ /\ RecordsOf("transfer") = {}
          /\ \/ SubmitFails("transfer") /\ UNCHANGED <<row, loaded>>
             \/ /\ SubmitRecorded("transfer")
                /\ \/ SetTxHash(Len(chain')) /\ Returns("nil")
                   \/ (Abort \/ LostRun) /\ UNCHANGED <<row, loaded>>
    /\ UNCHANGED <<events, kind, age, stepWh>>

\* TransactionByHash of the node first, then the explorer.
waitingForTheFirstConfirmation ==
    LET t == row.txHash IN
    /\ InStep(waiting_for_the_first_confirmation)
    /\ \/ stepWhFails
       \/ /\ createTransferStepWh
          /\ \/ Returns("error") /\ UNCHANGED trVars
             \/ /\ chain[t].state = "dropped" /\ age > 0
                /\ Returns("failed")
                /\ UNCHANGED trVars
             \/ /\ chain[t].state = "pending"
                /\ Returns("snooze")
                /\ UNCHANGED trVars
             \/ /\ chain[t].confirmations > 0
                /\ \/ ensureTxFails(t) /\ UNCHANGED trVars
                   \/ "success" \in Answers(t) /\ setTransferStatus("unconfirmed", "nil")
          /\ UNCHANGED <<kind, age, loaded, records, chain>>

\* Mutant of waitingConfirmations: one confirmation too few.
waitingFewerConfirmations ==
    /\ InStep(waiting_confirmations)
    /\ createTransferStepWh
    /\ \/ Returns("snooze")
       \/ /\ "success" \in Answers(row.txHash)
          /\ chain[row.txHash].confirmations + 1 >= MinConfirmations
          /\ Returns("nil")
    /\ UNCHANGED <<trVars, kind, age, loaded, records, chain>>

\* checkTransactionConfirmations
waitingConfirmations ==
    LET t == row.txHash IN
    /\ InStep(waiting_confirmations)
    /\ \/ stepWhFails
       \/ /\ createTransferStepWh
          /\ \/ Returns("error")
             \/ Returns("snooze")
             \/ "reverted" \in Answers(t) /\ Returns("failed")
             \/ "success" \in Answers(t) /\ Abort
             \/ /\ "success" \in Answers(t)
                /\ chain[t].confirmations >= MinConfirmations
                /\ Returns("nil")
          /\ UNCHANGED <<trVars, kind, age, loaded, records, chain>>

sendSuccessEvent ==
    /\ InStep(send_success_event)
    /\ setTransferStatus("completed", "nil")
    /\ UNCHANGED evmVars

\* OnFailureFn: errFailedTransfer and the errors of exitOnFailedSteps fail the
\* transfer, in one database transaction; other errors leave it to River.
OnFailure ==
    /\ LET exit == result = "failed" \/ CurrentStep \in exitOnFailedSteps IN
       \/ exit /\ (sendFailureEvent({0}) \/ failureEventLost)
       \/ ~exit /\ IgnoreFailure /\ UNCHANGED trVars
    /\ UNCHANGED evmVars

StepFunction ==
    \/ validateRequest \/ sendBaseAssetForBurn \/ waitingSendBurnBaseAssetConfirmations
    \/ sendingStep \/ waitingForTheFirstConfirmation \/ waitingConfirmations \/ sendSuccessEvent

\* Work loads the transfer when the run starts.
EngineStep ==
    /\ Engine
    /\ loaded' = IF pc = "idle" THEN row.status ELSE loaded
    /\ UNCHANGED <<trVars, kind, age, stepWh, records, chain>>

NextEvm ==
    \/ EngineStep
    \/ StepFunction
    \/ OnFailure
    \/ TimePasses
    \/ ChainMoves

SpecEvm == InitEvm /\ [][NextEvm]_vars

\* River keeps working on the job, the chain moves, time passes, and an explorer
\* that is asked again and again answers at last.
Fairness ==
    /\ WF_vars(EngineStep /\ UNCHANGED faults)
    /\ WF_vars(StepFunction /\ UNCHANGED faults)
    /\ SF_vars(StepFunction /\ UNCHANGED faults /\ result' = "nil")
    /\ WF_vars(OnFailure /\ UNCHANGED faults)
    /\ WF_vars(ChainMoves)
    /\ WF_vars(TimePasses)

FairSpecEvm == SpecEvm /\ Fairness

(***************************************************************************)
(* Properties                                                              *)
(***************************************************************************)

EvmTypeOK ==
    /\ TransferTypeOK
    /\ age \in 0..2
    /\ loaded \in TransferStatus
    /\ stepWh \in [step: Nat, status: TransferStatus]
    /\ chain \in Seq([type: {"base", "transfer"}, state: {"pending", "success", "reverted", "dropped"},
                       confirmations: 0..MinConfirmations])
    /\ records \subseteq {"base", "transfer"} \X DOMAIN chain

\* Writes that failed and crashes so far.
Spent == MaxFaults - faults

Payments(type) == {t \in DOMAIN chain : chain[t].type = type}

\* A completed transfer names a transaction that succeeded and has enough
\* confirmations, and it is the payment of the transfer: only after three faults can
\* it be the base asset, which a step executed behind the jump has filed as one.
CompletedIsConfirmed ==
    row.status = "completed" =>
        /\ row.txHash \in DOMAIN chain
        /\ chain[row.txHash].state = "success"
        /\ chain[row.txHash].confirmations >= MinConfirmations
        /\ chain[row.txHash].type = "transfer" \/ Spent >= 3

\* The step that jumps to sending is settled in memory only.  After a crash
\* before sending begins, the jump passes over it (SkipStage), and once the jump
\* is taken a later attempt executes it again, behind the payment.
PassedOver ==
    /\ snapshot.status[sending] # "unset"
    /\ \E i \in {send_base_asset_for_burn, waiting_send_base_asset_for_burn_confirmations} :
            snapshot.status[i] \notin Settled

\* Only a failed write or a crash can make the FSM pay the transfer or the base asset
\* a second time.  A step that was passed over is no exception: while sending is the
\* furthest step, the base asset it sends is filed as the payment and the run fails
\* for want of its record; behind sending it submits nothing.
RepaymentNeedsFault ==
    \A type \in {"base", "transfer"} : Cardinality(Payments(type)) =< 1 + Spent

\* The failure of a step that was passed over and executed again.
FailsLate == PassedOver /\ pc = "failure" /\ pos < sending /\ snapshot'.state.IsFailed

\* The row, the webhooks and the snapshot keep to the promise of TransferLifecycle
\* through every retry and crash, unless a step that was passed over fails: then
\* a transfer that is completed, or announced to be, is failed.
LifecycleUnlessLate == Lifecycle!Init /\ [][Lifecycle!Next \/ FailsLate]_(Lifecycle!vars)

=============================================================================
