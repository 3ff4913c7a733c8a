---------------------------- MODULE TransferTron ----------------------------
(***************************************************************************)
(* The transfer state machine of Tron (internal/fsm/fsmtron).  A transfer  *)
(* from a hot wallet first activates the wallet, then gets what the        *)
(* transaction will consume, by kind: TRX to burn, energy and bandwidth    *)
(* delegated by the processing wallet, or the same from an external        *)
(* provider.  After the payment the delegated resources are reclaimed.  A  *)
(* failure redirects the next attempt to the stage compensate.             *)
(*                                                                         *)
(* Every transaction is broadcast inside the database transaction that     *)
(* inserts its record.  Node, explorer and provider are external.          *)
(***************************************************************************)
EXTENDS Transfer, SequencesExt

CONSTANT Resources   \* resourcesToDelegate

VARIABLES
    req,           \* the request: kind, asset and wallet, and the way to activate
    active,        \* the from wallet is activated on the chain
    delegateFrom,  \* in memory: the step delegate_resources has its argument
    savedFrom,     \* the same in the snapshot
    stateData,     \* transfers.state_data: resources with a delegate key
    loaded,        \* the same in the FSM's copy of the transfer
    records,       \* transfer_transactions: <<type, number>>
    chain,         \* transactions the node was given, by number
    frozen         \* resources delegated to the from wallet on the chain

tronVars == <<req, active, delegateFrom, savedFrom, stateData, loaded, records, chain, frozen>>
sendVars == <<req, active, delegateFrom, savedFrom, stateData, loaded, frozen>>
vars == <<wfVars, trVars, tronVars>>

validate_request == 1
check_activate_wallet == 2
before_activation_check_transfer_kind == 3
activate_wallet_resources == 4
waiting_resources_activate_wallet_confirmations == 5
waiting_external_activate_confirmations == 6
activate_wallet_burn_trx == 7
waiting_activate_confirmations == 8
before_sending_check_transfer_kind == 9
send_trx_for_burn == 10
waiting_send_trx_for_burn_confirmations == 11
delegate_resources == 12
waiting_delegate_confirmations == 13
waiting_external_delegate_confirmations == 14
sending == 15
waiting_for_the_first_confirmation == 16
waiting_confirmations == 17
after_sending_check_transfer_kind == 18
reclaim_resources == 19
waiting_reclaim_resources_confirmations == 20
send_success_event == 21
determine_compensation_flow == 22
reclaim_on_error == 23
waiting_reclaim_on_error_confirmation == 24
send_failure_event == 25

\* Stages before_sending, sending, after_sending and compensate.
TronStageOf ==
    [i \in 1..25 |-> IF i < sending THEN 1 ELSE IF i = sending THEN 2
                     ELSE IF i =< send_success_event THEN 3 ELSE 4]

ASSUME TronSteps == StepCount = 25 /\ StageOf = TronStageOf

ASSUME ResourcesFinite == IsFiniteSet(Resources)

\* Mutant of exitOnFailedSteps: the step sending is retried.
exitOnOtherSteps == {validate_request, delegate_resources, reclaim_resources}

exitOnFailedSteps ==
    {validate_request, check_activate_wallet, activate_wallet_resources,
     activate_wallet_burn_trx, before_sending_check_transfer_kind, send_trx_for_burn,
     delegate_resources, sending, after_sending_check_transfer_kind, reclaim_resources}

Requests ==
    [kind: {"burntrx", "resources", "cloud_delegate"}, asset: {"trx", "token"},
     wallet: {"hot", "processing"}, UseBurnTRXActivation: BOOLEAN]

InitTron ==
    /\ InitTransfer
    /\ req \in Requests
    /\ active \in BOOLEAN
    /\ delegateFrom = FALSE
    /\ savedFrom = FALSE
    /\ stateData = {}
    /\ loaded = {}
    /\ records = {}
    /\ chain = <<>>
    /\ frozen = {}

\* FindTransactionByType
RecordsOf(type) == {t \in DOMAIN chain : <<type, t>> \in records}

(***************************************************************************)
(* Environment                                                             *)
(***************************************************************************)

\* A pending transaction is mined, or a successful one gets the confirmations
\* it needs.  A reclaim succeeds only while there is something to reclaim.
ChainMoves ==
    /\ \E t \in DOMAIN chain, s \in {"success", "reverted", "confirmed"} :
        LET tx == chain[t] IN
        /\ tx.state = IF s = "confirmed" THEN "success" ELSE "pending"
        /\ (s = "success" /\ tx.purpose = "reclaim") => tx.res \in frozen
        /\ chain' = [chain EXCEPT ![t].state = s]
        /\ active' = (active \/ (s = "success" /\ tx.purpose = "activation"))
        /\ frozen' = CASE s = "success" /\ tx.purpose = "delegate" -> frozen \cup {tx.res}
                       [] s = "success" /\ tx.purpose = "reclaim" -> frozen \ {tx.res}
                       [] OTHER -> frozen
    /\ UNCHANGED <<wfVars, trVars, req, delegateFrom, savedFrom, stateData, loaded, records>>

\* Somebody else sends TRX to the from wallet.
ActivatedByOthers ==
    /\ ~active
    /\ active' = TRUE
    /\ UNCHANGED <<wfVars, trVars, req, delegateFrom, savedFrom, stateData, loaded,
                   records, chain, frozen>>

(***************************************************************************)
(* Broadcasting                                                            *)
(***************************************************************************)

\* prepareTransferTransactionTypeByStep, by CurrentStep: in a run that repeats
\* earlier steps that is not the step that broadcasts.
TxType ==
    CASE CurrentStep \in {activate_wallet_resources, activate_wallet_burn_trx} -> "activation"
      [] CurrentStep = send_trx_for_burn -> "burn"
      [] CurrentStep = delegate_resources -> "delegate"
      [] CurrentStep = sending -> "transfer"
      [] CurrentStep \in {reclaim_resources, reclaim_on_error,
                          waiting_reclaim_resources_confirmations,
                          waiting_for_the_first_confirmation} -> "reclaim"
      [] OTHER -> "unresolved"

\* What becomes of a broadcast: it is taken and recorded; it is refused (by the
\* node or because the record cannot be written before); the node takes it but
\* the record is rolled back, as the answer is lost, the context of the other
\* resource's goroutine is cancelled, or the commit fails.
Outcomes == IF TxType = "unresolved" THEN {"refused"} ELSE {"done", "refused", "lost"}

\* Broadcasts for the resources in the domain of outcome.
Broadcast(purpose, outcome) ==
    LET taken == SetToSeq({r \in DOMAIN outcome : outcome[r] # "refused"})
        new == [i \in DOMAIN taken |-> [purpose |-> purpose, res |-> taken[i], state |-> "pending"]]
    IN /\ chain' = chain \o new
       /\ records' = records \cup
            {<<TxType, Len(chain) + i>> : i \in {j \in DOMAIN taken : outcome[taken[j]] = "done"}}

AllDone(outcome) == \A r \in DOMAIN outcome : outcome[r] = "done"

NoRes == "none"

\* sendTRX, sendTrc20, systemActivation and the broadcast of
\* activateWalletResources; a crash, or a failed SetStateData before, aborts.
SendOne(purpose, o) == Broadcast(purpose, [r \in {NoRes} |-> o])

SendFails(purpose) ==
    /\ \E o \in Outcomes \ {"done"} : SendOne(purpose, o) /\ (Returns("error") \/ Abort)
    /\ UNCHANGED <<trVars, sendVars>>

SendSucceeds(purpose) == "done" \in Outcomes /\ SendOne(purpose, "done")

\* The step function ends without an effect outside of the run.
Quietly == UNCHANGED <<trVars, tronVars>>

\* BeforeFn: createTransferStepWh (its webhook is modelled in TransferEvm).
StepWhFails == Abort /\ Quietly

(***************************************************************************)
(* Confirmations                                                           *)
(***************************************************************************)

\* checkTransactionConfirmations of all of ts, with anything but nil; an update
\* of a record that fails aborts.
Unconfirmed(ts) ==
    /\ ts # {}
    /\ \/ Returns("error")
       \/ Returns("snooze")
       \/ (\E t \in ts : chain[t].state = "reverted") /\ Returns("failed")
       \/ (\E t \in ts : chain[t].state # "pending") /\ Abort

\* Mutant of Confirmed: the first confirmation is enough.
ConfirmedWhenMined(ts) == \A t \in ts : chain[t].state \in {"success", "confirmed"}

Confirmed(ts) == \A t \in ts : chain[t].state = "confirmed"

\* The waiting steps that expect exactly one transaction.
AwaitOne(type, Continue) ==
    LET ts == RecordsOf(type) IN
    /\ \/ Cardinality(ts) # 1 /\ Returns("error")
       \/ Cardinality(ts) = 1 /\ Unconfirmed(ts)
       \/ Cardinality(ts) = 1 /\ Confirmed(ts) /\ Continue
    /\ Quietly

\* The waiting steps that accept any number of them.
AwaitAll(type, Continue) ==
    /\ \/ Returns("error")
       \/ Unconfirmed(RecordsOf(type))
       \/ Confirmed(RecordsOf(type)) /\ Continue
    /\ Quietly

\* checkExternalOrderStatus: the provider's answer.
AwaitOrder(Continue) ==
    /\ Returns("error") \/ Returns("snooze") \/ Returns("failed") \/ Continue
    /\ Quietly

(***************************************************************************)
(* Stage before_sending                                                    *)
(***************************************************************************)

validateRequest ==
    /\ InStep(validate_request)
    /\ \/ Returns("error") /\ UNCHANGED trVars
       \/ setTransferStatus("processing", "nil")
    /\ UNCHANGED tronVars

\* A hot wallet found active on the chain is marked activated, which may fail.
checkActivateWallet ==
    /\ InStep(check_activate_wallet)
    /\ \/ Returns("error")
       \/ req.asset = "trx" /\ ReturnsJump(before_sending_check_transfer_kind)
       \/ /\ req.asset = "token" /\ active
          /\ \/ ReturnsJump(before_sending_check_transfer_kind)
             \/ req.wallet = "hot" /\ Abort
       \/ /\ req.asset = "token" /\ ~active
          /\ ReturnsJump(before_activation_check_transfer_kind)
    /\ Quietly

beforeActivationCheckTransferKind ==
    /\ InStep(before_activation_check_transfer_kind)
    /\ \/ /\ req.kind = "cloud_delegate"
          /\ ReturnsJump(waiting_external_activate_confirmations)
       \/ /\ req.kind # "cloud_delegate" /\ req.wallet # "hot"
          /\ Returns("error")
       \/ /\ req.kind # "cloud_delegate" /\ req.wallet = "hot"
          /\ ReturnsJump(IF req.UseBurnTRXActivation THEN activate_wallet_burn_trx
                         ELSE activate_wallet_resources)
    /\ Quietly

activateWalletResources ==
    /\ InStep(activate_wallet_resources)
    /\ \/ StepWhFails
       \/ Returns("error") /\ Quietly
       \/ SendFails("activation")
       \/ SendSucceeds("activation") /\ Returns("nil") /\ UNCHANGED <<trVars, sendVars>>

\* ActivateWallet writes the flag of the hot wallet after the wait.
waitingResourcesActivateWalletConfirmations ==
    /\ InStep(waiting_resources_activate_wallet_confirmations)
    /\ AwaitOne("activation", ReturnsJump(before_sending_check_transfer_kind) \/ Abort)

waitingExternalActivateWalletConfirmations ==
    /\ InStep(waiting_external_activate_confirmations)
    /\ AwaitOrder(ReturnsJump(before_sending_check_transfer_kind) \/ Abort)

\* When the wallet needs no fee any more the step only sets NextStep of its own
\* StepState, which the engine does not read: the next step is executed.
activateWalletBurnTRX ==
    /\ InStep(activate_wallet_burn_trx)
    /\ \/ StepWhFails
       \/ Returns("error") /\ Quietly
       \/ active /\ Returns("nil") /\ Quietly
       \/ ~active /\ SendFails("activation")
       \/ /\ ~active /\ SendSucceeds("activation")
          /\ Returns("nil")
          /\ UNCHANGED <<trVars, sendVars>>

waitingActivateWalletConfirmations ==
    /\ InStep(waiting_activate_confirmations)
    /\ AwaitOne("activation", Returns("nil") \/ Abort)

beforeSendingCheckTransferKind ==
    /\ InStep(before_sending_check_transfer_kind)
    /\ ReturnsJump(CASE req.kind = "burntrx" -> send_trx_for_burn
                     [] req.kind = "resources" -> delegate_resources
                     [] OTHER -> waiting_external_delegate_confirmations)
    /\ Quietly

sendTRXForBurn ==
    LET needed == req.wallet = "hot" /\ req.asset = "token" IN
    /\ InStep(send_trx_for_burn)
    /\ \/ ~needed /\ ReturnsJump(sending) /\ Quietly
       \/ needed /\ Returns("error") /\ Quietly
       \/ needed /\ SendFails("burn")
       \/ needed /\ SendSucceeds("burn") /\ Returns("nil") /\ UNCHANGED <<trVars, sendVars>>

waitingSendBurnTrxConfirmations ==
    /\ InStep(waiting_send_trx_for_burn_confirmations)
    /\ AwaitOne("burn", ReturnsJump(sending))

\* The resources that the hot wallet lacks are delegated by a goroutine each; the
\* failure of any is a FailedTransferError.  The deferred SetStateData may fail,
\* which is only logged.
delegateResources ==
    /\ InStep(delegate_resources)
    /\ \/ StepWhFails
       \/ Returns("error") /\ Quietly
       \/ req.wallet = "processing" /\ ReturnsJump(sending) /\ Quietly
       \/ /\ req.wallet = "hot"
          /\ \E need \in SUBSET Resources : \E outcome \in [need -> Outcomes] :
                LET done == {r \in need : outcome[r] = "done"}
                    r == IF AllDone(outcome) THEN "nil" ELSE "failed"
                IN
                /\ Broadcast("delegate", outcome)
                /\ \/ /\ delegateFrom' = (delegateFrom \/ done # {})
                      /\ \/ stateData' = stateData \cup done /\ Returns(r)
                         \/ UNCHANGED stateData /\ Fault /\ Return(r, state) /\ UNCHANGED snapshot
                   \/ /\ Fault /\ Forget /\ job' = Retry
                      /\ stateData' \in {stateData, stateData \cup done}
                      /\ UNCHANGED <<snapshot, delegateFrom>>
          /\ UNCHANGED <<trVars, req, active, savedFrom, loaded, frozen>>

waitingDelegateConfirmations ==
    /\ InStep(waiting_delegate_confirmations)
    /\ AwaitAll("delegate", ReturnsJump(sending))

waitingExternalDelegateResources ==
    /\ InStep(waiting_external_delegate_confirmations)
    /\ AwaitOrder(Returns("nil"))

(***************************************************************************)
(* Stages sending and after_sending                                        *)
(***************************************************************************)

\* The payment, with no look at what an earlier attempt has sent; SetTxHash
\* also reloads the transfer.
sendingStep ==
    /\ InStep(sending)
    /\ \/ Returns("error") /\ Quietly
       \/ SendFails("transfer")
       \/ /\ SendSucceeds("transfer")
          /\ \/ /\ row' = [row EXCEPT !.txHash = Len(chain')]
                /\ loaded' = stateData
                /\ Returns("nil")
             \/ LostRun /\ UNCHANGED <<row, loaded>>
          /\ UNCHANGED <<events, req, active, delegateFrom, savedFrom, stateData, frozen>>

\* ensureTxInBlockchain makes a failed update of the record a FailedTransferError.
waitingForTheFirstConfirmation ==
    LET ts == RecordsOf("transfer") IN
    /\ InStep(waiting_for_the_first_confirmation)
    /\ \/ StepWhFails
       \/ Returns("error") /\ Quietly
       \/ /\ Cardinality(ts) = 1
          /\ \E t \in ts :
                \/ Returns("snooze") /\ UNCHANGED trVars
                \/ chain[t].state = "reverted" /\ Returns("failed") /\ UNCHANGED trVars
                \/ /\ chain[t].state # "pending"
                   /\ Fault /\ Return("failed", state)
                   /\ UNCHANGED <<snapshot, trVars>>
                \/ /\ chain[t].state \in {"success", "confirmed"}
                   /\ setTransferStatus("unconfirmed", "nil")
          /\ UNCHANGED tronVars

waitingConfirmations ==
    /\ InStep(waiting_confirmations)
    /\ \/ StepWhFails
       \/ AwaitOne("transfer", Returns("nil"))

\* Mutant of afterSendingCheckTransferKind: nothing is reclaimed.
afterSendingSucceed ==
    /\ InStep(after_sending_check_transfer_kind)
    /\ ReturnsJump(send_success_event)
    /\ Quietly

afterSendingCheckTransferKind ==
    /\ InStep(after_sending_check_transfer_kind)
    /\ ReturnsJump(IF req.wallet = "hot" /\ req.kind = "resources" THEN reclaim_resources
                   ELSE send_success_event)
    /\ Quietly

\* The loops of reclaimResources and reclaimOnError: what is frozen on the chain
\* and has a delegate key in the FSM's copy of the state data is reclaimed.  The
\* state data written at the end is not read by any step.
Reclaim ==
    /\ \/ Returns("error") /\ UNCHANGED <<records, chain>>
       \/ \E outcome \in [frozen \cap loaded -> Outcomes] :
            /\ Broadcast("reclaim", outcome)
            /\ Returns(IF AllDone(outcome) THEN "nil" ELSE "error") \/ Abort
    /\ UNCHANGED <<trVars, sendVars>>

reclaimResources ==
    /\ InStep(reclaim_resources)
    /\ \/ status[delegate_resources] = "unset" /\ Returns("error") /\ Quietly
       \/ /\ status[delegate_resources] # "unset"
          /\ \/ ~delegateFrom /\ ReturnsJump(send_success_event) /\ Quietly
             \/ delegateFrom /\ Reclaim

waitingReclaimResourcesConfirmations ==
    /\ InStep(waiting_reclaim_resources_confirmations)
    /\ \/ StepWhFails
       \/ AwaitAll("reclaim", Returns("nil"))

sendSuccessEvent ==
    /\ InStep(send_success_event)
    /\ setTransferStatus("completed", "exit")
    /\ UNCHANGED tronVars

(***************************************************************************)
(* Stage compensate                                                        *)
(***************************************************************************)

determineCompensationFlow ==
    /\ InStep(determine_compensation_flow)
    /\ ReturnsJump(IF state.CustomError /\ req.kind = "resources" THEN reclaim_on_error
                   ELSE send_failure_event)
    /\ Quietly

reclaimOnError ==
    /\ InStep(reclaim_on_error)
    /\ \/ status[delegate_resources] = "unset" /\ Returns("error") /\ Quietly
       \/ /\ status[delegate_resources] # "unset"
          /\ \/ ~delegateFrom /\ Returns("nil") /\ Quietly
             \/ delegateFrom /\ Reclaim

waitingReclaimOnErrorConfirmations ==
    /\ InStep(waiting_reclaim_on_error_confirmation)
    /\ AwaitAll("reclaim", Returns("nil"))

\* Here the failure is recorded by a step.  IsFailed and the skipped error are
\* set before the writes, so the job is completed even when one of them fails.
sendFailureEventStep ==
    /\ InStep(send_failure_event)
    /\ \/ /\ \/ FailureWrites(3) /\ UNCHANGED faults /\ result' = "nil"
             \/ Fault /\ (\E n \in 0..2 : FailureWrites(n)) /\ result' = "error"
          /\ state' = FailedState
          /\ skipError' = TRUE
          /\ pc' = "post"
          /\ UNCHANGED <<status, pos, stage, job>>
       \/ /\ Fault /\ \E n \in 0..2 : FailureWrites(n)
          /\ Forget
          /\ job' = Retry
       \/ Abort /\ UNCHANGED trVars
    /\ UNCHANGED tronVars

\* OnFailureFn: a FailedTransferError or an error of exitOnFailedSteps sends the
\* next attempt to the stage compensate.
OnFailure ==
    /\ IF result = "failed" \/ CurrentStep \in exitOnFailedSteps
       THEN /\ RedirectFailure(determine_compensation_flow, result = "failed")
            /\ savedFrom' = IF faults' = faults THEN delegateFrom ELSE savedFrom
       ELSE IgnoreFailure /\ UNCHANGED savedFrom
    /\ UNCHANGED <<trVars, req, active, delegateFrom, stateData, loaded, records, chain, frozen>>

StepFunction ==
    \/ validateRequest \/ checkActivateWallet \/ beforeActivationCheckTransferKind
    \/ activateWalletResources \/ waitingResourcesActivateWalletConfirmations
    \/ waitingExternalActivateWalletConfirmations \/ activateWalletBurnTRX
    \/ waitingActivateWalletConfirmations \/ beforeSendingCheckTransferKind
    \/ sendTRXForBurn \/ waitingSendBurnTrxConfirmations
    \/ delegateResources \/ waitingDelegateConfirmations \/ waitingExternalDelegateResources
    \/ sendingStep \/ waitingForTheFirstConfirmation \/ waitingConfirmations
    \/ afterSendingCheckTransferKind \/ reclaimResources
    \/ waitingReclaimResourcesConfirmations \/ sendSuccessEvent
    \/ determineCompensationFlow \/ reclaimOnError \/ waitingReclaimOnErrorConfirmations
    \/ sendFailureEventStep

\* The run loads the transfer when it starts; a snapshot that is written carries
\* the argument of the step (it is new only at "post" and "end").
EngineStep ==
    /\ Engine
    /\ loaded' = IF pc = "idle" THEN stateData ELSE loaded
    /\ delegateFrom' = IF pc = "idle" THEN savedFrom ELSE delegateFrom
    /\ savedFrom' = IF pc \in {"post", "end"} /\ faults' = faults THEN delegateFrom ELSE savedFrom
    /\ UNCHANGED <<trVars, req, active, stateData, records, chain, frozen>>

NextTron ==
    \/ EngineStep
    \/ StepFunction
    \/ OnFailure
    \/ ChainMoves
    \/ ActivatedByOthers

SpecTron == InitTron /\ [][NextTron]_vars

\* River keeps working on the job, the chain moves, and explorer and provider,
\* asked again and again, answer at last.
Fairness ==
    /\ WF_vars(EngineStep /\ UNCHANGED faults)
    /\ WF_vars(StepFunction /\ UNCHANGED faults)
    /\ SF_vars(StepFunction /\ UNCHANGED faults /\ result' \in {"nil", "failed"})
    /\ WF_vars(OnFailure /\ UNCHANGED faults)
    /\ WF_vars(ChainMoves)

FairSpecTron == SpecTron /\ Fairness

(***************************************************************************)
(* Properties                                                              *)
(***************************************************************************)

Purposes == {"activation", "burn", "delegate", "transfer", "reclaim"}

\* A delegation and its reclaim are about a resource, the others about none.
About(purpose) == IF purpose \in {"delegate", "reclaim"} THEN Resources ELSE {NoRes}

Tx == {t \in [purpose: Purposes, res: Resources \cup {NoRes},
              state: {"pending", "success", "reverted", "confirmed"}] : t.res \in About(t.purpose)}

TronTypeOK ==
    /\ TransferTypeOK
    /\ req \in Requests
    /\ active \in BOOLEAN /\ delegateFrom \in BOOLEAN /\ savedFrom \in BOOLEAN
    /\ stateData \subseteq Resources /\ loaded \subseteq Resources
    /\ frozen \subseteq Resources
    /\ chain \in Seq(Tx)
    /\ records \subseteq Purposes \X DOMAIN chain

Payments == {t \in DOMAIN chain : chain[t].purpose = "transfer"}

\* The stage compensate has been entered by this or an earlier attempt.
Compensating == snapshot.status[determine_compensation_flow] # "unset"

\* A completed transfer names a confirmed payment, whatever was sent twice.
CompletedIsConfirmed ==
    row.status = "completed" =>
        row.txHash \in Payments /\ chain[row.txHash].state = "confirmed"

\* Until the compensation begins only a failed write or a crash can make the
\* step sending pay a second time: errors of the node never do.
RepaymentNeedsFault ==
    ~Compensating => Cardinality(Payments) =< 1 + (MaxFaults - faults)

\* Unless a write failed or the process crashed, no resource is left delegated
\* when the transfer is completed.
ReclaimNeedsNoFault == (row.status = "completed" /\ faults = MaxFaults) => frozen = {}

=============================================================================
