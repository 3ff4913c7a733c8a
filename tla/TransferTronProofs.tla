------------------------- MODULE TransferTronProofs -------------------------
(***************************************************************************)
(* Proofs about the transfers of Tron, for every number of attempts and    *)
(* faults and any finite set of resources.                                 *)
(***************************************************************************)
EXTENDS TransferTron, TransferProofs, FiniteSetTheorems, SequenceTheorems,
        WellFoundedInduction

(***************************************************************************)
(* How the step functions end                                              *)
(***************************************************************************)

LEMMA StepNumbers ==
    /\ StepCount = 25 /\ Steps = 1..25
    /\ \A i \in 1..14 : StageOf[i] = 1
    /\ StageOf[15] = 2
    /\ \A i \in 16..21 : StageOf[i] = 3
    /\ \A i \in 22..25 : StageOf[i] = 4
BY TronSteps DEF Steps, TronStageOf, sending, send_success_event

\* The steps that succeed by the jump to sending only.
MayPass(p) ==
    \/ p = send_trx_for_burn /\ ~(req.wallet = "hot" /\ req.asset = "token")
    \/ p = waiting_send_trx_for_burn_confirmations
    \/ p = delegate_resources /\ req.wallet = "processing"
    \/ p = waiting_delegate_confirmations

\* Why step p asks for the jump to sending: with this it asks again whenever it is
\* executed again.
Passed(p) ==
    /\ MayPass(p)
    /\ p = waiting_send_trx_for_burn_confirmations => Confirmed(RecordsOf("burn"))
    /\ p = waiting_delegate_confirmations => Confirmed(RecordsOf("delegate"))

\* Where before_sending_check_transfer_kind leads.
Choice ==
    CASE req.kind = "burntrx" -> send_trx_for_burn
      [] req.kind = "resources" -> delegate_resources
      [] OTHER -> waiting_external_delegate_confirmations

\* The jumps within the stage before_sending.
JumpsBefore(k) ==
    \/ pos = 2 /\ k \in {3, 9}
    \/ pos = 3 /\ k \in {4, 6, 7}
    \/ pos \in {5, 6} /\ k = 9
    \/ pos = 9 /\ k = Choice

\* The jumps of the FSM from the current step.
MayJump(k) ==
    \/ pos < k /\ k < sending /\ ~MayPass(pos) /\ JumpsBefore(k)
    \/ k = sending /\ pos < sending /\ Passed(pos)
    \/ pos = after_sending_check_transfer_kind /\ k \in {reclaim_resources, send_success_event}
    \/ pos = reclaim_resources /\ k = send_success_event
    \/ /\ pos = determine_compensation_flow
       /\ \/ k = reclaim_on_error /\ state.CustomError /\ req.kind = "resources"
          \/ k = send_failure_event

\* What the engine sees of a step function: most end with any result, and those
\* that jump, succeed for good or fail the transfer differ.
Ends ==
    \/ \E r \in {"nil", "snooze", "error"} :
        /\ Finishes(r)
        /\ r # "error" => pos \notin {send_success_event, determine_compensation_flow, send_failure_event}
        /\ r = "nil" => ~MayPass(pos)
    \/ /\ Finishes("failed")
       /\ pos \notin {sending, send_success_event, determine_compensation_flow, send_failure_event}
       /\ ~Passed(pos)
    \/ Finishes("exit") /\ pos = send_success_event
    \/ \E k \in Steps : JumpsTo(k) /\ MayJump(k) /\ Quietly
    \/ Dies
    \/ pc = "func" /\ pos = send_failure_event /\ (StepGivesUp \/ CrashAfterVerdict)

Plain == pos \notin {21, 22, 25}

LEMMA EndsNumbers ==
    /\ \A r \in {"nil", "snooze", "error"} :
            (Finishes(r) /\ (r = "error" \/ Plain) /\ (r = "nil" => ~MayPass(pos))) => Ends
    /\ Finishes("failed") /\ pos # 15 /\ Plain /\ ~Passed(pos) => Ends
    /\ Finishes("exit") /\ pos = 21 => Ends
    /\ Dies => Ends
    /\ pc = "func" /\ pos = 25 /\ (StepGivesUp \/ CrashAfterVerdict) => Ends
    /\ \A k \in Steps : JumpsTo(k) /\ MayJump(k) /\ Quietly => Ends
BY DEF Ends, Plain, sending, send_success_event, determine_compensation_flow, send_failure_event

LEMMA MayJumpNumbers ==
    \A k : MayJump(k) <=>
        \/ pos < k /\ k < 15 /\ ~MayPass(pos) /\ JumpsBefore(k)
        \/ k = 15 /\ pos < 15 /\ Passed(pos)
        \/ pos = 18 /\ k \in {19, 21}
        \/ pos = 19 /\ k = 21
        \/ pos = 22 /\ ((k = 23 /\ state.CustomError /\ req.kind = "resources") \/ k = 25)
BY DEF MayJump, sending, after_sending_check_transfer_kind, reclaim_resources, send_success_event,
   determine_compensation_flow, reclaim_on_error, send_failure_event

LEMMA ChoiceNumbers ==
    Choice = IF req.kind = "burntrx" THEN 10 ELSE IF req.kind = "resources" THEN 12 ELSE 14
BY DEF Choice, send_trx_for_burn, delegate_resources, waiting_external_delegate_confirmations

LEMMA PassedNumbers ==
    /\ \A p : MayPass(p) <=>
            \/ p = 10 /\ ~(req.wallet = "hot" /\ req.asset = "token")
            \/ p = 11
            \/ p = 12 /\ req.wallet = "processing"
            \/ p = 13
    /\ \A p : Passed(p) <=>
            /\ MayPass(p)
            /\ p = 11 => Confirmed(RecordsOf("burn"))
            /\ p = 13 => Confirmed(RecordsOf("delegate"))
BY DEF Passed, MayPass, send_trx_for_burn, waiting_send_trx_for_burn_confirmations, delegate_resources,
   waiting_delegate_confirmations

LEMMA ResultEnds ==
    ASSUME NEW r \in {"nil", "snooze", "error"}, pc = "func", Returns(r), r = "error" \/ Plain,
           r = "nil" => ~MayPass(pos)
    PROVE  Ends
BY ReturnsEnds, EndsNumbers

LEMMA FailedEnds ==
    ASSUME pc = "func", Returns("failed"), pos # 15, Plain, ~Passed(pos) PROVE Ends
BY ReturnsEnds, EndsNumbers

LEMMA AbortedEnds == ASSUME pc = "func", Abort PROVE Ends
BY AbortEnds, EndsNumbers

LEMMA JumpEnds == ASSUME NEW k \in 1..25, pc = "func", ReturnsJump(k), MayJump(k), Quietly PROVE Ends
<1>1. JumpsTo(k)
  BY DEF JumpsTo
<1> QED
  BY <1>1, StepNumbers, EndsNumbers

LEMMA UnconfirmedEnds ==
    ASSUME NEW ts, pc = "func", Unconfirmed(ts), Plain, pos # 15, Confirmed(ts) \/ ~Passed(pos)
    PROVE  Ends
<1>1. CASE (\E t \in ts : chain[t].state = "reverted") /\ Returns("failed")
  <2>1. ~Confirmed(ts)
    BY <1>1 DEF Confirmed
  <2> QED
    BY <1>1, <2>1, FailedEnds DEF Plain
<1> QED
  BY <1>1, ResultEnds, AbortedEnds DEF Unconfirmed

LEMMA SendFailsEnds == ASSUME NEW purpose, pc = "func", SendFails(purpose) PROVE Ends
BY ResultEnds, AbortedEnds DEF SendFails

\* The steps of the stage before_sending.
LEMMA BeforeSendingEnds ==
    ASSUME \/ validateRequest \/ checkActivateWallet \/ beforeActivationCheckTransferKind
           \/ activateWalletResources \/ waitingResourcesActivateWalletConfirmations
           \/ waitingExternalActivateWalletConfirmations \/ activateWalletBurnTRX
           \/ waitingActivateWalletConfirmations \/ beforeSendingCheckTransferKind
           \/ sendTRXForBurn \/ waitingSendBurnTrxConfirmations
           \/ delegateResources \/ waitingDelegateConfirmations \/ waitingExternalDelegateResources
    PROVE  Ends
<1> USE DEF InStep, Plain
<1>1. CASE validateRequest
  <2>1. pc = "func" /\ pos = 1 /\ ~MayPass(pos)
    BY <1>1, PassedNumbers DEF validateRequest, validate_request
  <2>2. CASE setTransferStatus("processing", "nil")
    BY <2>1, <2>2, SetStatusEnds, EndsNumbers
  <2> QED
    BY <1>1, <2>1, <2>2, ResultEnds DEF validateRequest
<1>2. CASE checkActivateWallet
  <2>1. pc = "func" /\ pos = 2 /\ ~MayPass(pos)
    BY <1>2, PassedNumbers DEF checkActivateWallet, check_activate_wallet
  <2>2. (ReturnsJump(9) \/ ReturnsJump(3)) /\ Quietly => Ends
    BY <2>1, JumpEnds, MayJumpNumbers DEF JumpsBefore
  <2> QED
    BY <1>2, <2>1, <2>2, ResultEnds, AbortedEnds DEF checkActivateWallet, before_sending_check_transfer_kind,
       before_activation_check_transfer_kind
<1>3. CASE beforeActivationCheckTransferKind
  <2>1. pc = "func" /\ pos = 3 /\ ~MayPass(pos)
    BY <1>3, PassedNumbers DEF beforeActivationCheckTransferKind, before_activation_check_transfer_kind
  <2>2. (ReturnsJump(6) \/ ReturnsJump(7) \/ ReturnsJump(4)) /\ Quietly => Ends
    BY <2>1, JumpEnds, MayJumpNumbers DEF JumpsBefore
  <2> QED
    BY <1>3, <2>1, <2>2, ResultEnds DEF beforeActivationCheckTransferKind, waiting_external_activate_confirmations,
       activate_wallet_burn_trx, activate_wallet_resources
<1>4. CASE activateWalletResources
  <2>1. pc = "func" /\ pos = 4 /\ ~MayPass(pos)
    BY <1>4, PassedNumbers DEF activateWalletResources, activate_wallet_resources
  <2> QED
    BY <1>4, <2>1, ResultEnds, AbortedEnds, SendFailsEnds DEF activateWalletResources, StepWhFails
<1>5. CASE waitingResourcesActivateWalletConfirmations
  <2>1. pc = "func" /\ pos = 5 /\ ~MayPass(pos)
    BY <1>5, PassedNumbers DEF waitingResourcesActivateWalletConfirmations,
         waiting_resources_activate_wallet_confirmations
  <2>2. ReturnsJump(9) /\ Quietly => Ends
    BY <2>1, JumpEnds, MayJumpNumbers DEF JumpsBefore
  <2>3. ~Passed(pos)
    BY <2>1, PassedNumbers
  <2> QED
    BY <1>5, <2>1, <2>2, <2>3, ResultEnds, AbortedEnds, UnconfirmedEnds
       DEF waitingResourcesActivateWalletConfirmations, AwaitOne, before_sending_check_transfer_kind
<1>6. CASE waitingExternalActivateWalletConfirmations
  <2>1. pc = "func" /\ pos = 6 /\ ~MayPass(pos)
    BY <1>6, PassedNumbers DEF waitingExternalActivateWalletConfirmations, waiting_external_activate_confirmations
  <2>2. ReturnsJump(9) /\ Quietly => Ends
    BY <2>1, JumpEnds, MayJumpNumbers DEF JumpsBefore
  <2>3. ~Passed(pos)
    BY <2>1, PassedNumbers
  <2> QED
    BY <1>6, <2>1, <2>2, <2>3, ResultEnds, AbortedEnds, FailedEnds
       DEF waitingExternalActivateWalletConfirmations, AwaitOrder, before_sending_check_transfer_kind
<1>7. CASE activateWalletBurnTRX
  <2>1. pc = "func" /\ pos = 7 /\ ~MayPass(pos)
    BY <1>7, PassedNumbers DEF activateWalletBurnTRX, activate_wallet_burn_trx
  <2> QED
    BY <1>7, <2>1, ResultEnds, AbortedEnds, SendFailsEnds DEF activateWalletBurnTRX, StepWhFails
<1>8. CASE waitingActivateWalletConfirmations
  <2>1. pc = "func" /\ pos = 8 /\ ~MayPass(pos)
    BY <1>8, PassedNumbers DEF waitingActivateWalletConfirmations, waiting_activate_confirmations
  <2>2. ~Passed(pos)
    BY <2>1, PassedNumbers
  <2> QED
    BY <1>8, <2>1, <2>2, ResultEnds, AbortedEnds, UnconfirmedEnds DEF waitingActivateWalletConfirmations, AwaitOne
<1>9. CASE beforeSendingCheckTransferKind
  <2>1. pc = "func" /\ pos = 9 /\ ~MayPass(pos)
    BY <1>9, PassedNumbers DEF beforeSendingCheckTransferKind, before_sending_check_transfer_kind
  <2>2. Choice \in {10, 12, 14}
    BY ChoiceNumbers
  <2>3. ReturnsJump(Choice) /\ Quietly => Ends
    BY <2>1, <2>2, JumpEnds, MayJumpNumbers DEF JumpsBefore
  <2> QED
    BY <1>9, <2>3 DEF beforeSendingCheckTransferKind, Choice
<1>10. CASE sendTRXForBurn
  <2>1. pc = "func" /\ pos = 10
    BY <1>10 DEF sendTRXForBurn, send_trx_for_burn
  <2>2. ReturnsJump(15) /\ Passed(10) /\ Quietly => Ends
    BY <2>1, JumpEnds, MayJumpNumbers
  <2> QED
    BY <1>10, <2>1, <2>2, ResultEnds, SendFailsEnds, PassedNumbers DEF sendTRXForBurn, sending
<1>11. CASE waitingSendBurnTrxConfirmations
  <2>1. pc = "func" /\ pos = 11
    BY <1>11 DEF waitingSendBurnTrxConfirmations, waiting_send_trx_for_burn_confirmations
  <2>2. ReturnsJump(15) /\ Passed(11) /\ Quietly => Ends
    BY <2>1, JumpEnds, MayJumpNumbers
  <2>3. Passed(11) <=> Confirmed(RecordsOf("burn"))
    BY PassedNumbers
  <2> QED
    BY <1>11, <2>1, <2>2, <2>3, ResultEnds, UnconfirmedEnds DEF waitingSendBurnTrxConfirmations, AwaitOne, sending
<1>12. CASE delegateResources
  <2>1. pc = "func" /\ pos = 12
    BY <1>12 DEF delegateResources, delegate_resources
  <2>2. ReturnsJump(15) /\ Passed(12) /\ Quietly => Ends
    BY <2>1, JumpEnds, MayJumpNumbers
  <2>3. CASE req.wallet = "hot"
    <3>1. ~Passed(12)
      BY <2>3, PassedNumbers
    <3>2. ASSUME NEW r \in {"nil", "failed"}, Returns(r) \/ (Fault /\ Return(r, state) /\ UNCHANGED snapshot)
          PROVE Ends
      <4>1. Finishes(r)
        BY <2>1, <3>2, ReturnsEnds DEF Finishes
      <4> QED
        BY <2>1, <2>3, <3>1, <4>1, EndsNumbers, PassedNumbers
    <3>3. ASSUME Fault, Forget, job' = Retry, UNCHANGED snapshot PROVE Ends
      BY <2>1, <3>3, EndsNumbers DEF Dies, LostRun
    <3> QED
      BY <1>12, <2>1, <2>3, <3>2, <3>3, ResultEnds, AbortedEnds DEF delegateResources, StepWhFails
  <2>4. CASE req.wallet # "hot"
    BY <1>12, <2>1, <2>2, <2>4, ResultEnds, AbortedEnds, PassedNumbers DEF delegateResources, StepWhFails, sending
  <2> QED
    BY <2>3, <2>4
<1>13. CASE waitingDelegateConfirmations
  <2>1. pc = "func" /\ pos = 13
    BY <1>13 DEF waitingDelegateConfirmations, waiting_delegate_confirmations
  <2>2. ReturnsJump(15) /\ Passed(13) /\ Quietly => Ends
    BY <2>1, JumpEnds, MayJumpNumbers
  <2>3. Passed(13) <=> Confirmed(RecordsOf("delegate"))
    BY PassedNumbers
  <2> QED
    BY <1>13, <2>1, <2>2, <2>3, ResultEnds, UnconfirmedEnds DEF waitingDelegateConfirmations, AwaitAll, sending
<1>14. CASE waitingExternalDelegateResources
  <2>1. pc = "func" /\ pos = 14 /\ ~MayPass(pos)
    BY <1>14, PassedNumbers DEF waitingExternalDelegateResources, waiting_external_delegate_confirmations
  <2>2. ~Passed(pos)
    BY <2>1, PassedNumbers
  <2> QED
    BY <1>14, <2>1, <2>2, ResultEnds, FailedEnds DEF waitingExternalDelegateResources, AwaitOrder
<1> QED
  BY <1>1, <1>2, <1>3, <1>4, <1>5, <1>6, <1>7, <1>8, <1>9, <1>10, <1>11, <1>12, <1>13, <1>14

\* The steps of the stages sending and after_sending.
LEMMA SendingEnds ==
    ASSUME \/ sendingStep \/ waitingForTheFirstConfirmation \/ waitingConfirmations
           \/ afterSendingCheckTransferKind \/ reclaimResources
           \/ waitingReclaimResourcesConfirmations \/ sendSuccessEvent
    PROVE  Ends
<1> USE DEF InStep, Plain
<1>1. CASE sendingStep
  <2>1. pc = "func" /\ pos = 15 /\ ~MayPass(pos)
    BY <1>1, PassedNumbers DEF sendingStep, sending
  <2>2. LostRun => Ends
    BY <2>1, EndsNumbers DEF Dies
  <2> QED
    BY <1>1, <2>1, <2>2, ResultEnds, SendFailsEnds DEF sendingStep
<1>2. CASE waitingForTheFirstConfirmation
  <2>1. pc = "func" /\ pos = 16 /\ ~MayPass(pos)
    BY <1>2, PassedNumbers DEF waitingForTheFirstConfirmation, waiting_for_the_first_confirmation
  <2>2. ~Passed(pos)
    BY <2>1, PassedNumbers
  <2>3. setTransferStatus("unconfirmed", "nil") => Ends
    BY <2>1, SetStatusEnds, EndsNumbers
  <2>4. Fault /\ Return("failed", state) /\ UNCHANGED snapshot => Ends
    BY <2>1, <2>2, EndsNumbers DEF Finishes
  <2> QED
    BY <1>2, <2>1, <2>2, <2>3, <2>4, ResultEnds, AbortedEnds, FailedEnds
       DEF waitingForTheFirstConfirmation, StepWhFails
<1>3. CASE waitingConfirmations
  <2>1. pc = "func" /\ pos = 17 /\ ~MayPass(pos)
    BY <1>3, PassedNumbers DEF waitingConfirmations, waiting_confirmations
  <2>2. ~Passed(pos)
    BY <2>1, PassedNumbers
  <2> QED
    BY <1>3, <2>1, <2>2, ResultEnds, AbortedEnds, UnconfirmedEnds DEF waitingConfirmations, StepWhFails, AwaitOne
<1>4. CASE afterSendingCheckTransferKind
  <2>1. pc = "func" /\ pos = 18 /\ ~MayPass(pos)
    BY <1>4, PassedNumbers DEF afterSendingCheckTransferKind, after_sending_check_transfer_kind
  <2>2. (ReturnsJump(19) \/ ReturnsJump(21)) /\ Quietly => Ends
    BY <2>1, JumpEnds, MayJumpNumbers
  <2> QED
    BY <1>4, <2>2 DEF afterSendingCheckTransferKind, reclaim_resources, send_success_event
<1>5. CASE reclaimResources
  <2>1. pc = "func" /\ pos = 19 /\ ~MayPass(pos)
    BY <1>5, PassedNumbers DEF reclaimResources, reclaim_resources
  <2>2. ReturnsJump(21) /\ Quietly => Ends
    BY <2>1, JumpEnds, MayJumpNumbers
  <2> QED
    BY <1>5, <2>1, <2>2, ResultEnds, AbortedEnds DEF reclaimResources, Reclaim, send_success_event
<1>6. CASE waitingReclaimResourcesConfirmations
  <2>1. pc = "func" /\ pos = 20 /\ ~MayPass(pos)
    BY <1>6, PassedNumbers DEF waitingReclaimResourcesConfirmations, waiting_reclaim_resources_confirmations
  <2>2. ~Passed(pos)
    BY <2>1, PassedNumbers
  <2> QED
    BY <1>6, <2>1, <2>2, ResultEnds, AbortedEnds, UnconfirmedEnds
       DEF waitingReclaimResourcesConfirmations, StepWhFails, AwaitAll
<1>7. CASE sendSuccessEvent
  <2>1. pc = "func" /\ pos = 21 /\ ~MayPass(pos)
    BY <1>7, PassedNumbers DEF sendSuccessEvent, send_success_event
  <2> QED
    BY <1>7, <2>1, SetStatusEnds, EndsNumbers DEF sendSuccessEvent
<1> QED
  BY <1>1, <1>2, <1>3, <1>4, <1>5, <1>6, <1>7

\* The steps of the stage compensate.
LEMMA CompensateEnds ==
    ASSUME \/ determineCompensationFlow \/ reclaimOnError \/ waitingReclaimOnErrorConfirmations
           \/ sendFailureEventStep
    PROVE  Ends
<1> USE DEF InStep, Plain
<1>1. CASE determineCompensationFlow
  <2>1. pc = "func" /\ pos = 22 /\ ~MayPass(pos)
    BY <1>1, PassedNumbers DEF determineCompensationFlow, determine_compensation_flow
  <2>2. ReturnsJump(23) /\ state.CustomError /\ req.kind = "resources" /\ Quietly => Ends
    BY <2>1, JumpEnds, MayJumpNumbers
  <2>3. ReturnsJump(25) /\ Quietly => Ends
    BY <2>1, JumpEnds, MayJumpNumbers
  <2> QED
    BY <1>1, <2>2, <2>3 DEF determineCompensationFlow, reclaim_on_error, send_failure_event
<1>2. CASE reclaimOnError
  <2>1. pc = "func" /\ pos = 23 /\ ~MayPass(pos)
    BY <1>2, PassedNumbers DEF reclaimOnError, reclaim_on_error
  <2> QED
    BY <1>2, <2>1, ResultEnds, AbortedEnds DEF reclaimOnError, Reclaim
<1>3. CASE waitingReclaimOnErrorConfirmations
  <2>1. pc = "func" /\ pos = 24 /\ ~MayPass(pos)
    BY <1>3, PassedNumbers DEF waitingReclaimOnErrorConfirmations, waiting_reclaim_on_error_confirmation
  <2>2. ~Passed(pos)
    BY <2>1, PassedNumbers
  <2> QED
    BY <1>3, <2>1, <2>2, ResultEnds, UnconfirmedEnds DEF waitingReclaimOnErrorConfirmations, AwaitAll
<1>4. CASE sendFailureEventStep
  <2>1. pc = "func" /\ pos = 25 /\ ~MayPass(pos)
    BY <1>4, PassedNumbers DEF sendFailureEventStep, send_failure_event
  <2>2. ASSUME NEW n \in 0..3, FailureWrites(n) PROVE SaveVerdict \/ UNCHANGED snapshot
    BY <2>2 DEF FailureWrites, SaveVerdict
  <2>3. FailureWrites(3) => SaveVerdict
    BY DEF FailureWrites, SaveVerdict
  <2>4. CASE /\ \/ FailureWrites(3) /\ UNCHANGED faults /\ result' = "nil"
                \/ Fault /\ (\E n \in 0..2 : FailureWrites(n)) /\ result' = "error"
             /\ state' = FailedState /\ skipError' = TRUE /\ pc' = "post"
             /\ UNCHANGED <<status, pos, stage, job>>
    <3>1. VerdictWrites /\ result' \in {"nil", "error"}
      BY <2>2, <2>3, <2>4 DEF VerdictWrites, SaveFails
    <3> QED
      BY <2>1, <2>4, <3>1, EndsNumbers DEF StepGivesUp
  <2>5. CASE Fault /\ (\E n \in 0..2 : FailureWrites(n)) /\ Forget /\ job' = Retry
    <3>1. SaveVerdict \/ UNCHANGED snapshot
      BY <2>2, <2>5
    <3> QED
      BY <2>1, <2>5, <3>1, EndsNumbers DEF CrashAfterVerdict, Dies, LostRun
  <2> QED
    BY <1>4, <2>1, <2>4, <2>5, AbortedEnds DEF sendFailureEventStep
<1> QED
  BY <1>1, <1>2, <1>3, <1>4

LEMMA StepFunctionEnds == StepFunction => Ends
BY BeforeSendingEnds, SendingEnds, CompensateEnds DEF StepFunction

(***************************************************************************)
(* The current step, and OnFailureFn                                       *)
(***************************************************************************)

\* A set of numbers with a bound has a largest one.
LEMMA MaxOf ==
    ASSUME NEW n \in Nat, NEW S \in SUBSET (0..n), S # {}
    PROVE  Max(S) \in S /\ \A i \in S : i =< Max(S)
<1> DEFINE D == {m \in Nat : n - m \in S}
           R == OpToRel(<, Nat)
           N == Nat
<1>1. D # {} /\ D \subseteq N
  <2>1. PICK i \in S : TRUE
    OBVIOUS
  <2>2. n - i \in Nat /\ n - (n - i) = i
    BY <2>1
  <2>3. n - i \in D
    BY <2>1, <2>2
  <2> QED
    BY <2>3
<1>2. IsWellFoundedOn(R, N)
  BY NatLessThanWellFounded
<1>3. PICK m \in D : \A k \in D : <<k, m>> \notin R
  <2> HIDE DEF D, R, N
  <2> QED
    BY <1>1, <1>2, WFMin
<1>4. n - m \in S /\ m \in Nat
  OBVIOUS
<1>5. ASSUME NEW i \in S PROVE i =< n - m
  <2>1. i \in 0..n /\ n - i \in Nat /\ n - (n - i) = i
    OBVIOUS
  <2>2. n - i \in D
    BY <2>1
  <2>3. <<n - i, m>> \notin R
    BY <1>3, <2>2
  <2>4. ~(n - i < m)
    BY <1>4, <2>1, <2>3 DEF OpToRel
  <2> QED
    BY <1>4, <2>1, <2>4
<1>6. \A x \in S : (\A y \in S : x >= y) => x = n - m
  <2> HIDE DEF D, R, N
  <2> QED
    BY <1>4, <1>5
<1>7. Max(S) = n - m
  <2> HIDE DEF D, R, N
  <2>1. \A y \in S : n - m >= y
    BY <1>4, <1>5
  <2> QED
    BY <1>4, <1>6, <2>1 DEF Max
<1> HIDE DEF D, R, N
<1> QED
  BY <1>4, <1>5, <1>7

LEMMA CurrentIsFurthest ==
    /\ CurrentStep \in 1..25
    /\ CurrentStep = 1 \/ status[CurrentStep] # "unset"
    /\ \A i \in 1..25 : status[i] # "unset" => i =< CurrentStep
<1> DEFINE S == {i \in Steps : status[i] # "unset"} \cup {1}
<1>1. S \in SUBSET (0..25) /\ S # {} /\ 25 \in Nat
  BY StepNumbers
<1>2. CurrentStep = Max(S)
  BY DEF CurrentStep
<1> HIDE DEF S
<1>3. CurrentStep \in S /\ \A i \in S : i =< CurrentStep
  BY <1>1, <1>2, MaxOf
<1> QED
  BY <1>3, StepNumbers DEF S

\* OnFailureFn leaves the failure to River, or sends the next attempt to the stage
\* compensate: only for a step that failed the transfer, or from a step before the
\* reclaim when no later one was reached.
Redirects ==
    /\ RedirectFailure(22, result = "failed")
    /\ result = "failed" \/ \A j \in 20..25 : status[j] = "unset"

LeavesToRiver == IgnoreFailure /\ CurrentStep \notin {12, 15}

LEMMA OnFailureCases ==
    OnFailure => /\ pc = "failure" /\ UNCHANGED trVars /\ (LeavesToRiver \/ Redirects)
                 /\ UNCHANGED <<req, active, delegateFrom, stateData, loaded, records, chain, frozen>>
<1> SUFFICES ASSUME OnFailure PROVE pc = "failure" /\ UNCHANGED trVars /\ (LeavesToRiver \/ Redirects)
  BY DEF OnFailure, trVars
<1>1. CASE result = "failed" \/ CurrentStep \in exitOnFailedSteps
  <2>1. RedirectFailure(22, result = "failed")
    BY <1>1 DEF OnFailure, determine_compensation_flow
  <2>2. CurrentStep \in exitOnFailedSteps => CurrentStep =< 19
    BY DEF exitOnFailedSteps, validate_request, check_activate_wallet, activate_wallet_resources,
     activate_wallet_burn_trx, before_sending_check_transfer_kind, send_trx_for_burn,
     delegate_resources, sending, after_sending_check_transfer_kind, reclaim_resources
  <2>3. CurrentStep \in exitOnFailedSteps => \A j \in 20..25 : status[j] = "unset"
    BY <2>2, CurrentIsFurthest
  <2> QED
    BY <1>1, <2>1, <2>3 DEF Redirects, RedirectFailure, OnFailure
<1>2. CASE ~(result = "failed" \/ CurrentStep \in exitOnFailedSteps)
  BY <1>2 DEF OnFailure, IgnoreFailure, LeavesToRiver, exitOnFailedSteps, sending, delegate_resources
<1> QED
  BY <1>1, <1>2

\* The steps of the FSM as the engine sees them.
Moves ==
    \/ Engine
    \/ Ends
    \/ LeavesToRiver
    \/ Redirects
    \/ UNCHANGED wfVars

LEMMA TronMoves == [NextTron]_vars => Moves
<1> SUFFICES ASSUME [NextTron]_vars PROVE Moves
  OBVIOUS
<1> QED
  BY StepFunctionEnds, OnFailureCases DEF NextTron, EngineStep, ChainMoves, ActivatedByOthers, vars, Moves

LEMMA MovesAreNext == Moves => [Next]_wfVars
<1> SUFFICES ASSUME Moves PROVE [Next]_wfVars
  OBVIOUS
<1>1. CASE Ends
  <2>1. ASSUME NEW k \in Steps, JumpsTo(k), MayJump(k) PROVE StepFunc
    <3>1. k > pos
      BY <2>1, MayJumpNumbers
    <3> QED
      BY <2>1, <3>1, StepEnds
  <2> QED
    BY <1>1, <2>1, StepEnds DEF Ends, Results, Next, Engine
<1>2. CASE Redirects
  <2>1. 22 \in Steps
    BY StepNumbers
  <2> QED
    BY <1>2, <2>1 DEF Redirects, Next
<1> QED
  BY <1>1, <1>2 DEF Moves, Next, LeavesToRiver

\* The FSM of Tron runs on the workflow engine: what is proved of the engine holds
\* of it.
THEOREM TronRunsOnEngine == SpecTron => Spec
<1>1. InitTron => Init
  BY DEF InitTron, InitTransfer
<1>2. [NextTron]_vars => [Next]_wfVars
  BY TronMoves, MovesAreNext
<1> QED
  BY <1>1, <1>2, PTL DEF SpecTron, Spec


(***************************************************************************)
(* The way through the steps                                               *)
(*                                                                         *)
(* Steps by number: 1..14 are the stage before_sending, 15 is sending, 16  *)
(* and 17 wait for the payment, 18..20 are the rest of after_sending, 21   *)
(* announces the success, 22..25 are the stage compensate, 23 and 24 its   *)
(* reclaim and 25 the failure.                                             *)
(***************************************************************************)

Begun == {"processing", "failed", "completed"}

\* The payment and the waits for it.
Main == {15, 16, 17}

\* The jumps that memory or a snapshot may hold.
JumpShape(st) ==
    /\ st.NextStage \in {0, 2, 4}
    /\ st.NextStage = 2 => st.NextStep = 15
    /\ st.NextStage = 4 => st.NextStep = 22
    /\ st.NextStep \in {0, 19, 21, 22, 23, 25} \cup 2..15

\* A jump is ahead of the loops until it is consumed; the jump to a stage is
\* consumed in two parts, both before a step of that stage begins.
TronJumps ==
    /\ JumpShape(state)
    /\ JumpShape(snapshot.state)
    /\ snapshot.state.NextStep = 22 => snapshot.state.NextStage = 4
    /\ snapshot.state.NextStep = 15 => snapshot.state.NextStage = 2
    /\ (InLoop /\ state.NextStep # 0) => pos =< state.NextStep
    /\ pc = "func" => state.NextStep = 0
    /\ (pc \in {"post", "end", "failure"} /\ state.NextStep # 0) =>
            /\ pos < state.NextStep
            /\ state.NextStep # 22
            /\ state.NextStep >= 22 => pos = 22
            /\ state.NextStep = 15 => state.NextStage = 2
    /\ (InLoop /\ pos >= 23) => stage = 4
    /\ (InLoop /\ state.NextStage = 4) => stage = 0
    /\ (pc = "scan" /\ state.NextStep = 22) =>
            \/ state.NextStage = 4 /\ stage = 0
            \/ state.NextStage = 0 /\ stage = 4 /\ pos = 22
    /\ (pc = "scan" /\ state.NextStep = 15) => state.NextStage = 2 \/ (stage = 2 /\ pos = 15)
    /\ (pc = "scan" /\ stage = 0 /\ pos > 1) => state.NextStage # 0

\* What the steps may have returned; and a run that goes on after the verdict of
\* the last step is leaving.
TronResults ==
    /\ result \in {"nil", "exit", "snooze", "failed", "error"}
    /\ result = "exit" => pc = "post" /\ pos = 21
    /\ (pc = "post" /\ pos = 21) => result \in {"exit", "error"}
    /\ (pc = "post" /\ pos = 22 /\ result = "nil") => state.NextStep \in {23, 25}
    /\ (pc = "post" /\ MayPass(pos) /\ result = "nil") => state.NextStage = 2
    /\ (result = "failed" /\ pc \in {"post", "end", "failure"}) => pos \notin {15, 21, 22, 25}
    /\ skipError =>
            \/ pc = "post" /\ pos = 25 /\ result \in {"nil", "error"}
            \/ pc = "scan" /\ pos = 26
            \/ pc \in {"end", "failure"} /\ pos = 25 /\ result = "error"
            \/ pc = "return"

\* The payment and its waits are done one after the other, unless a jump within
\* the stage compensate is repeated after a restart: then all are passed over.
MainInTurn(s, st) ==
    /\ st.NextStep \in 16..21 => \A i \in Main : s[i] = "completed"
    /\ \A i \in Main, j \in 16..21 : (i < j /\ s[j] \in Begun) => s[i] = "completed"

AllSettled(s) == \A j \in 1..21 : s[j] \in Settled

TronWay ==
    /\ MainInTurn(status, state)
    /\ MainInTurn(snapshot.status, snapshot.state)
    /\ (\E i \in Main : snapshot.status[i] = "skipped") => AllSettled(snapshot.status)
    /\ (\E i \in Main : status[i] = "skipped") =>
            \/ pc = "scan" /\ state.NextStep \in {23, 25} /\ pos =< 21
            \/ AllSettled(status)
    /\ (InLoop /\ state.NextStep < 22) =>
            \/ \A j \in 1..21 : pos =< j => status[j] \in Settled
            \/ \A i \in Main : i < pos => status[i] = "completed"
    /\ (pc = "scan" /\ state.NextStep \in {23, 25}) =>
            \/ pos >= 22
            \/ \A j \in 1..21 : j < pos => status[j] \in Settled

\* The reclaim of the stage compensate is begun only for a FailedTransferError,
\* and is passed over only on the way to the last step.
Compensation(s, st) ==
    /\ (s[23] = "skipped" /\ s[25] = "unset") => st.NextStep = 25
    /\ s[23] \in Begun => req.kind = "resources" /\ st.CustomError
    /\ (s[22] \in Settled /\ s[23] = "unset") => st.NextStep \in {23, 25}
    /\ st.NextStep = 23 => req.kind = "resources" /\ st.CustomError

\* A run that knows of the failure read it in the snapshot, and begins no step
\* before the stage compensate is reached.
TronCompensation ==
    /\ Compensation(status, state)
    /\ Compensation(snapshot.status, snapshot.state)
    /\ snapshot.state.CustomError => snapshot.state.NextStage = 4 \/ snapshot.status[22] # "unset"
    /\ (pc \in {"scan", "func", "post", "end", "failure"} /\ state.CustomError) => snapshot.state.CustomError
    /\ (pc \in {"func", "post", "end", "failure"} /\ (snapshot.state.CustomError \/ snapshot.state.NextStage = 4)) =>
            status[22] # "unset"

\* Once the payment is reached the first step before it that is not settled would
\* ask for the jump to the payment again.
JumpsAgain(s) ==
    \A i \in 1..14 : (s[i] \notin Settled /\ \A j \in 1..14 : j < i => s[j] \in Settled) => Passed(i)

AheadOfPayment ==
    \/ state.NextStage = 2
    \/ status[15] # "unset"
    \/ InLoop /\ stage = 2

TronSent ==
    /\ snapshot.state.NextStage = 2 \/ snapshot.status[15] # "unset" => JumpsAgain(snapshot.status)
    /\ snapshot.status[15] # "unset" => snapshot.state.NextStep \notin 2..14
    /\ status[15] # "unset" => state.NextStep \notin 2..14
    /\ (AheadOfPayment /\ ~(pc = "scan" /\ stage = 1 /\ state.NextStage = 2)) =>
            \/ JumpsAgain(status)
            \/ /\ pc = "scan" /\ state.NextStep \in {19, 21, 23, 25}
               /\ \A j \in 1..14 : j < pos => status[j] \in Settled

\* A success that was begun is not followed by a compensation.
TronEnds ==
    /\ status[21] \in Begun => state.NextStep =< 21
    /\ snapshot.status[21] \in Begun => snapshot.state.NextStep =< 21
    /\ (pc # "idle" /\ snapshot.status[21] \in Begun) => status[21] \in Begun
    /\ (pc \in {"scan", "func", "post", "end", "failure"} /\ status[21] \in Begun) => pos =< 21
    /\ (result = "failed" /\ pc \in {"post", "end", "failure"}) => status[21] \notin Begun
    /\ status[21] # "completed" /\ snapshot.status[21] # "completed"

TronTypes ==
    /\ status \in [1..25 -> StepStatus]
    /\ snapshot.status \in [1..25 -> StepStatus]
    /\ state \in WorkflowState
    /\ snapshot.state \in WorkflowState
    /\ pos \in 1..26
    /\ stage \in Nat
    /\ pc \in {"idle", "scan", "func", "post", "end", "failure", "return"}
    /\ result \in Results /\ skipError \in BOOLEAN /\ faults \in Nat
    /\ pc = "idle" => pos = 1 /\ stage = 0
    /\ pc \in {"func", "post"} => pos \in 1..25 /\ StageOf[pos] = stage /\ status[pos] = "processing"
    /\ pc \in {"idle", "scan", "func"} => result = "nil"

LEMMA TypesOf == EngineInv => TronTypes
BY StepNumbers, WorkflowAssumption DEF TronTypes, EngineInv, IndInv, TypeOK, Snapshot, Loops, InLoop, OutcomeInv, None

LEMMA StageNumbers ==
    \A i \in 1..25 : /\ StageOf[i] \in 1..4
                     /\ StageOf[i] = 1 <=> i < 15
                     /\ StageOf[i] = 2 <=> i = 15
                     /\ StageOf[i] = 3 <=> i \in 16..21
                     /\ StageOf[i] = 4 <=> i >= 22
BY StepNumbers

\* The run is over, or lost, and the snapshot stays or has the verdict.
Leaves ==
    /\ Forget
    /\ (pc = "return" /\ UNCHANGED faults) \/ Fault
    /\ \/ UNCHANGED snapshot
       \/ snapshot' = [status |-> status, state |-> FailedState] /\ pc = "func" /\ pos = 25

\* The steps as the cases of the proofs below.
Cases ==
    \/ Start
    \/ ExitFinished
    \/ EnterStage
    \/ SkipStage
    \/ SkipStep
    \/ BeginStep
    \/ AfterStep
    \/ EndExecute
    \/ Leaves
    \/ \E r \in {"nil", "snooze", "error"} :
            Finishes(r) /\ (r # "error" => pos \notin {21, 22, 25}) /\ (r = "nil" => ~MayPass(pos))
    \/ Finishes("failed") /\ pos \notin {15, 21, 22, 25} /\ ~Passed(pos)
    \/ Finishes("exit") /\ pos = 21
    \/ \E k \in 1..25 : JumpsTo(k) /\ MayJump(k)
    \/ StepGivesUp /\ pos = 25
    \/ LeavesToRiver
    \/ Redirects
    \/ UNCHANGED wfVars

LEMMA MovesAreCases == Moves => Cases
<1> SUFFICES ASSUME Moves PROVE Cases
  OBVIOUS
<1> USE DEF sending, send_success_event, determine_compensation_flow, send_failure_event
<1>1. CASE Ends
  <2>1. CASE \E r \in {"nil", "snooze", "error"} :
                /\ Finishes(r)
                /\ r # "error" => pos \notin {send_success_event, determine_compensation_flow, send_failure_event}
                /\ r = "nil" => ~MayPass(pos)
    BY <2>1 DEF Cases
  <2>2. CASE Dies
    BY <2>2 DEF Cases, Leaves, Dies, LostRun
  <2>3. CASE pc = "func" /\ pos = send_failure_event /\ CrashAfterVerdict
    BY <2>3 DEF Cases, Leaves, CrashAfterVerdict, SaveVerdict
  <2>4. CASE \E k \in Steps : JumpsTo(k) /\ MayJump(k) /\ Quietly
    BY <2>4, StepNumbers DEF Cases
  <2> QED
    BY <1>1, <2>1, <2>2, <2>3, <2>4 DEF Ends, Cases
<1>2. CASE ReturnToRiver \/ Crash
  BY <1>2 DEF ReturnToRiver, Crash, Cases, Leaves
<1> QED
  BY <1>1, <1>2 DEF Moves, Engine, Cases

\* How the actions change a state, field by field.
LEMMA StateFields ==
    ASSUME TronTypes
    PROVE  /\ ConsumeNextStep.NextStage = state.NextStage
           /\ ConsumeNextStep.NextStep = IF state.NextStep = pos THEN 0 ELSE state.NextStep
           /\ ConsumeNextStep.CustomError = state.CustomError
           /\ ConsumeNextStep.IsFailed = state.IsFailed
           /\ FailedState.NextStage = state.NextStage
           /\ FailedState.NextStep = state.NextStep
           /\ FailedState.CustomError = state.CustomError
           /\ FailedState.IsFailed
           /\ FreshState.NextStage = 0 /\ FreshState.NextStep = 0
           /\ FreshState.CustomError = FALSE /\ FreshState.IsFailed = FALSE
BY DEF TronTypes, ConsumeNextStep, FailedState, FreshState, WorkflowState, None

LEMMA EnterFields ==
    ASSUME TronTypes, EnterStage
    PROVE  /\ pc = "scan" /\ pos \in 1..25 /\ StageOf[pos] # stage /\ state.NextStage \in {0, StageOf[pos]}
           /\ state'.NextStage = 0 /\ state'.NextStep = state.NextStep
           /\ state'.CustomError = state.CustomError /\ state'.IsFailed = state.IsFailed
           /\ stage' = StageOf[pos]
           /\ UNCHANGED <<status, snapshot, pc, pos, result, skipError, job, faults>>
BY StepNumbers DEF TronTypes, EnterStage, AtStage, WorkflowState, None

LEMMA SkipFields ==
    ASSUME TronTypes, SkipStep
    PROVE  /\ pc = "scan" /\ pos \in 1..25 /\ StageOf[pos] = stage
           /\ pos' = pos + 1
           /\ state'.NextStage = state.NextStage
           /\ state'.NextStep = IF state.NextStep = pos THEN 0 ELSE state.NextStep
           /\ state'.CustomError = state.CustomError /\ state'.IsFailed = state.IsFailed
           /\ UNCHANGED <<snapshot, pc, stage, result, skipError, job, faults>>
           /\ \A i \in 1..25 : i # pos => status'[i] = status[i]
           /\ \/ status[pos] \in Settled /\ status'[pos] = status[pos]
              \/ /\ status[pos] \notin Settled /\ state.NextStep \notin {0, pos}
                 /\ status'[pos] = "skipped"
BY StepNumbers, StateFields DEF TronTypes, SkipStep, AtStep, None

LEMMA BeginFields ==
    ASSUME EngineInv, TronTypes, BeginStep
    PROVE  /\ pc = "scan" /\ pos \in 1..25 /\ StageOf[pos] = stage /\ status[pos] \notin Settled
           /\ state.NextStage = 0 /\ state.NextStep \in {0, pos}
           /\ state'.NextStage = 0 /\ state'.NextStep = 0
           /\ state'.CustomError = state.CustomError /\ state'.IsFailed = state.IsFailed
           /\ UNCHANGED <<pos, stage, skipError, job>>
           /\ \A i \in 1..25 : i # pos => status'[i] = status[i]
           /\ \/ /\ snapshot' = [status |-> status', state |-> state'] /\ UNCHANGED faults
                 /\ pc' = "func" /\ result' = "nil" /\ status'[pos] = "processing"
              \/ /\ UNCHANGED snapshot /\ faults' = faults - 1 /\ faults > 0
                 /\ pc' = "end" /\ result' = "error" /\ status'[pos] = "failed"
<1>1. state.NextStage = 0
  BY NoStagePending DEF BeginStep, EngineInv, None
<1>2. /\ pc = "scan" /\ pos \in 1..25 /\ StageOf[pos] = stage /\ status[pos] \notin Settled
      /\ state.NextStep \in {0, pos} /\ state' = ConsumeNextStep
      /\ UNCHANGED <<pos, stage, skipError, job>>
  BY StepNumbers DEF BeginStep, AtStep, None
<1>3. \/ /\ status' = [status EXCEPT ![pos] = "processing"]
         /\ snapshot' = [status |-> status', state |-> state'] /\ UNCHANGED faults
         /\ pc' = "func" /\ UNCHANGED result
      \/ /\ status' = [status EXCEPT ![pos] = "failed"]
         /\ UNCHANGED snapshot /\ faults' = faults - 1 /\ faults > 0
         /\ pc' = "end" /\ result' = "error"
  BY DEF BeginStep, SaveSnapshot, SaveFails, Fault
<1>4. result = "nil" /\ status \in [1..25 -> StepStatus]
  BY <1>2 DEF TronTypes
<1>5. \A i \in 1..25 : i # pos => status'[i] = status[i]
  BY <1>3, <1>4
<1>6. state'.NextStage = 0 /\ state'.NextStep = 0
  BY <1>1, <1>2, StateFields
<1>7. state'.CustomError = state.CustomError /\ state'.IsFailed = state.IsFailed
  BY <1>2, StateFields
<1>8. \/ /\ snapshot' = [status |-> status', state |-> state'] /\ UNCHANGED faults
         /\ pc' = "func" /\ result' = "nil" /\ status'[pos] = "processing"
      \/ /\ UNCHANGED snapshot /\ faults' = faults - 1 /\ faults > 0
         /\ pc' = "end" /\ result' = "error" /\ status'[pos] = "failed"
  BY <1>2, <1>3, <1>4
<1> QED
  BY <1>1, <1>2, <1>5, <1>6, <1>7, <1>8

LEMMA AfterFields ==
    ASSUME TronTypes, AfterStep, result \notin {"skipStep", "breakStages"}
    PROVE  /\ pc = "post" /\ pos \in 1..25 /\ StageOf[pos] = stage /\ status[pos] = "processing"
           /\ UNCHANGED <<state, stage, skipError, job>>
           /\ \/ snapshot' = [status |-> status, state |-> state] /\ UNCHANGED faults
              \/ UNCHANGED snapshot /\ faults' = faults - 1 /\ faults > 0 /\ pc' # "scan" /\ result' = "error"
           /\ \A i \in 1..25 : i # pos => status'[i] = status[i]
           /\ \/ pc' = "scan" /\ pos' = pos + 1 /\ result = "nil" /\ result' = "nil" /\ status'[pos] = "completed"
              \/ pc' = "return" /\ pos' = pos /\ result = "exit" /\ result' = "nil" /\ status'[pos] = "failed"
              \/ pc' = "end" /\ pos' = pos /\ result' \in {result, "error"} /\ result' \notin {"nil", "exit"}
                 /\ status'[pos] = "failed"
BY DEF TronTypes, AfterStep, Settle, SaveFails, Fault

LEMMA EndFields ==
    ASSUME EngineInv, TronTypes, EndExecute
    PROVE  /\ pc = "end" \/ (pc = "scan" /\ pos = 26)
           /\ state'.NextStage = state.NextStage /\ state'.NextStep = state.NextStep
           /\ state'.CustomError = state.CustomError /\ state'.IsFailed = state.IsFailed
           /\ UNCHANGED <<status, pos, stage, result, skipError, job>>
           /\ pc' = IF result = "nil" THEN "return" ELSE "failure"
           /\ pc = "scan" => pc' = "return"
           /\ \/ snapshot' = [status |-> status, state |-> state'] /\ UNCHANGED faults
              \/ UNCHANGED snapshot /\ faults' = faults - 1 /\ faults > 0
BY StepNumbers DEF TronTypes, EndExecute, SaveSnapshot, SaveFails, Fault, WorkflowState, EngineInv, OutcomeInv

LEMMA LeavesFields ==
    ASSUME TronTypes, Leaves
    PROVE  /\ pc' = "idle" /\ pos' = 1 /\ stage' = 0 /\ result' = "nil" /\ skipError' = FALSE
           /\ state' = FreshState
           /\ \A i \in 1..25 : status'[i] = "unset"
           /\ \/ UNCHANGED snapshot
              \/ snapshot' = [status |-> status, state |-> FailedState] /\ pc = "func" /\ pos = 25
BY StepNumbers DEF Leaves, Forget, FreshStatus, None

LEMMA FinishFields ==
    ASSUME NEW r, Finishes(r)
    PROVE  /\ pc = "func" /\ pc' = "post" /\ result' = r
           /\ UNCHANGED <<status, state, snapshot, pos, stage, skipError, job>>
BY DEF Finishes, Return

LEMMA JumpFields ==
    ASSUME TronTypes, NEW k \in 1..25, JumpsTo(k)
    PROVE  /\ pc = "func" /\ pc' = "post" /\ result' = "nil"
           /\ state'.NextStep = k
           /\ state'.NextStage = IF StageOf[k] = StageOf[pos] THEN state.NextStage ELSE StageOf[k]
           /\ state'.CustomError = state.CustomError /\ state'.IsFailed = state.IsFailed
           /\ UNCHANGED <<status, snapshot, pos, stage, skipError, job, faults>>
BY DEF TronTypes, JumpsTo, ReturnsJump, Return, Jump, WorkflowState

LEMMA GivesUpFields ==
    ASSUME StepGivesUp
    PROVE  /\ pc = "func" /\ pc' = "post" /\ result' \in {"nil", "error"}
           /\ state' = FailedState /\ skipError' = TRUE
           /\ UNCHANGED <<status, pos, stage, job>>
           /\ UNCHANGED snapshot \/ snapshot' = [status |-> status, state |-> FailedState]
BY DEF StepGivesUp, VerdictWrites, SaveVerdict, SaveFails

LEMMA RedirectFields ==
    ASSUME TronTypes, Redirects
    PROVE  /\ pc = "failure" /\ pc' = "return"
           /\ state'.NextStage = 4 /\ state'.NextStep = 22
           /\ state'.CustomError = (state.CustomError \/ result = "failed")
           /\ state'.IsFailed = state.IsFailed
           /\ UNCHANGED <<status, pos, stage, result, skipError, job>>
           /\ \/ snapshot' = [status |-> status, state |-> state'] /\ UNCHANGED faults
              \/ UNCHANGED snapshot /\ faults' = faults - 1 /\ faults > 0
           /\ result = "failed" \/ \A j \in 20..25 : status[j] = "unset"
BY StepNumbers DEF TronTypes, Redirects, RedirectFailure, SaveSnapshot, SaveFails, Fault, WorkflowState

\* Every case keeps the shape of the jumps.
LEMMA JumpsStepTron == EngineInv /\ TronJumps /\ TronResults /\ Cases => TronJumps'
<1> SUFFICES ASSUME EngineInv, TronJumps, TronResults, Cases PROVE TronJumps'
  OBVIOUS
<1> USE DEF InLoop, JumpShape
<1>0. /\ TronTypes
      /\ state.NextStep \in Nat /\ state.NextStage \in Nat
      /\ InLoop /\ state.NextStage # 0 => state.NextStage # stage
      /\ pc = "func" => state.NextStage = 0
      /\ pc # "scan" /\ InLoop => pos \in 1..25 /\ StageOf[pos] = stage
  BY TypesOf DEF EngineInv, IndInv, Jumps, None, TronTypes, WorkflowState
<1>1. CASE Start
  BY <1>0, <1>1 DEF Start, TronJumps, TronTypes
<1>2. CASE ExitFinished \/ LeavesToRiver
  BY <1>2 DEF ExitFinished, LeavesToRiver, IgnoreFailure, TronJumps
<1>3. CASE EnterStage
  BY <1>0, <1>3, EnterFields, StageNumbers DEF TronJumps
<1>4. CASE SkipStage
  <2>1. /\ pc = "scan" /\ pos \in 1..25 /\ StageOf[pos] # stage /\ state.NextStage \notin {0, StageOf[pos]}
        /\ pos' = pos + 1 /\ UNCHANGED <<status, state, snapshot, pc, stage, result, skipError>>
    BY <1>4, StepNumbers DEF SkipStage, AtStage, None
  <2>2. \/ state.NextStage = 2 /\ state.NextStep = 15 /\ pos < 15
        \/ state.NextStage = 4 /\ state.NextStep = 22 /\ pos < 22
    BY <2>1, StageNumbers DEF TronJumps
  <2> QED
    BY <2>1, <2>2 DEF TronJumps
<1>5. CASE SkipStep
  <2>1. state.NextStage # StageOf[pos]
    BY <1>0, <1>5, SkipFields, StageNumbers
  <2> QED
    BY <1>0, <1>5, <2>1, SkipFields, StageNumbers DEF TronJumps
<1>6. CASE BeginStep
  BY <1>0, <1>6, BeginFields, StageNumbers DEF TronJumps
<1>7. CASE AfterStep
  BY <1>0, <1>7, AfterFields, StageNumbers DEF TronJumps, TronResults
<1>8. CASE EndExecute
  BY <1>0, <1>8, EndFields DEF TronJumps
<1>9. CASE Leaves
  BY <1>0, <1>9, LeavesFields, StateFields DEF TronJumps
<1>10. ASSUME NEW r, Finishes(r) PROVE TronJumps'
  BY <1>0, <1>10, FinishFields DEF TronJumps
<1>11. ASSUME NEW k \in 1..25, JumpsTo(k), MayJump(k) PROVE TronJumps'
  BY <1>0, <1>11, JumpFields, MayJumpNumbers, StageNumbers DEF TronJumps
<1>12. CASE StepGivesUp
  BY <1>0, <1>12, GivesUpFields, StateFields DEF TronJumps
<1>13. CASE Redirects
  BY <1>0, <1>13, RedirectFields DEF TronJumps
<1>14. CASE UNCHANGED wfVars
  BY <1>14 DEF wfVars, TronJumps
<1> QED
  BY <1>1, <1>2, <1>3, <1>4, <1>5, <1>6, <1>7, <1>8, <1>9, <1>10, <1>11, <1>12, <1>13, <1>14 DEF Cases

LEMMA ResultsStep == EngineInv /\ TronJumps /\ TronResults /\ Cases /\ UNCHANGED req => TronResults'
<1> SUFFICES ASSUME EngineInv, TronJumps, TronResults, Cases, UNCHANGED req PROVE TronResults'
  OBVIOUS
<1>0. /\ TronTypes
      /\ pc = "idle" => ~skipError
      /\ pc = "func" => state.NextStage = 0 /\ state.NextStep = 0 /\ ~skipError
  BY TypesOf DEF EngineInv, OutcomeInv, IndInv, Jumps, TronJumps, TronResults, None
<1>p. \A p : MayPass(p) => p \in 10..13
  BY PassedNumbers
<1>1. CASE Start
  BY <1>0, <1>1 DEF Start, TronTypes, TronResults
<1>2. CASE ExitFinished \/ LeavesToRiver
  BY <1>2 DEF ExitFinished, LeavesToRiver, IgnoreFailure, TronResults
<1>3. CASE EnterStage
  BY <1>0, <1>3, EnterFields DEF TronResults
<1>4. CASE SkipStage
  BY <1>0, <1>4, StepNumbers DEF SkipStage, AtStage, TronResults
<1>5. CASE SkipStep
  BY <1>0, <1>5, SkipFields DEF TronResults
<1>6. CASE BeginStep
  BY <1>0, <1>6, BeginFields DEF TronResults
<1>7. CASE AfterStep
  BY <1>0, <1>7, AfterFields DEF TronResults
<1>8. CASE EndExecute
  BY <1>0, <1>8, EndFields DEF TronResults
<1>9. CASE Leaves
  BY <1>0, <1>9, LeavesFields DEF TronResults
<1>m. (\A p : MayPass(p)' <=> MayPass(p))
  BY DEF MayPass
<1>10. ASSUME NEW r \in {"nil", "snooze", "error"}, Finishes(r), r # "error" => pos \notin {21, 22, 25},
              r = "nil" => ~MayPass(pos)
       PROVE  TronResults'
  BY <1>0, <1>10, <1>m, FinishFields DEF TronResults
<1>11. CASE Finishes("failed") /\ pos \notin {15, 21, 22, 25}
  BY <1>0, <1>11, FinishFields DEF TronResults
<1>12. CASE Finishes("exit") /\ pos = 21
  BY <1>0, <1>12, FinishFields DEF TronResults
<1>13. ASSUME NEW k \in 1..25, JumpsTo(k), MayJump(k) PROVE TronResults'
  <2>1. /\ pc' = "post" /\ result' = "nil" /\ pos' = pos /\ ~skipError' /\ state'.NextStep = k
        /\ state'.NextStage = IF StageOf[k] = StageOf[pos] THEN state.NextStage ELSE StageOf[k]
    BY <1>0, <1>13, JumpFields
  <2>2. pos # 21 /\ (pos = 22 => k \in {23, 25}) /\ (MayPass(pos) => k = 15 /\ pos < 15)
    BY <1>13, <1>p, MayJumpNumbers
  <2>3. MayPass(pos) => state'.NextStage = 2
    BY <1>0, <1>p, <2>1, <2>2, StepNumbers
  <2>4. MayPass(pos)' => state'.NextStage = 2
    BY <1>m, <2>1, <2>3
  <2> QED
    BY <2>1, <2>2, <2>4 DEF TronResults
<1>14. CASE StepGivesUp /\ pos = 25
  BY <1>p, <1>m, <1>14, GivesUpFields DEF TronResults
<1>15. CASE Redirects
  BY <1>0, <1>15, RedirectFields DEF TronResults
<1>16. CASE UNCHANGED wfVars
  BY <1>m, <1>16 DEF wfVars, TronResults
<1> QED
  BY <1>1, <1>2, <1>3, <1>4, <1>5, <1>6, <1>7, <1>8, <1>9, <1>10, <1>11, <1>12, <1>13, <1>14, <1>15, <1>16 DEF Cases

\* After the verdict no step is left: handleStage never finds the workflow finished.
LEMMA NeverExits == EngineInv /\ TronResults => ~ExitFinished
BY StepNumbers DEF ExitFinished, checkStatus, EngineInv, OutcomeInv, Finished, TronResults

LEMMA WayStep == EngineInv /\ TronJumps /\ TronResults /\ TronWay /\ Cases => TronWay'
<1> SUFFICES ASSUME EngineInv, TronJumps, TronResults, TronWay, Cases PROVE TronWay'
  OBVIOUS
<1> USE DEF InLoop, MainInTurn, AllSettled, Main, Settled, Begun
<1>0. /\ TronTypes
      /\ state.NextStep \in Nat /\ state.NextStage \in Nat
      /\ InLoop /\ state.NextStage # 0 => state.NextStage # stage
      /\ pc = "func" => state.NextStep = 0
      /\ pc \in {"func", "post"} => snapshot.status = status
  BY TypesOf DEF EngineInv, IndInv, Jumps, MemoryInv, None, TronTypes, WorkflowState, TronJumps
<1>1. CASE Start
  BY <1>0, <1>1 DEF Start, TronWay, TronTypes
<1>2. CASE ExitFinished \/ LeavesToRiver
  BY <1>2, NeverExits DEF LeavesToRiver, IgnoreFailure, TronWay
<1>3. CASE EnterStage
  BY <1>0, <1>3, EnterFields DEF TronWay
<1>4. CASE SkipStage
  <2>1. /\ pc = "scan" /\ pos \in 1..25 /\ StageOf[pos] # stage /\ state.NextStage \notin {0, StageOf[pos]}
        /\ pos' = pos + 1 /\ UNCHANGED <<status, state, snapshot, pc, stage, result, skipError>>
    BY <1>4, StepNumbers DEF SkipStage, AtStage, None
  <2>2. \/ state.NextStep = 15 /\ pos < 15
        \/ state.NextStep = 22 /\ pos < 22
    BY <2>1, StageNumbers DEF TronJumps, JumpShape
  <2> QED
    BY <1>0, <2>1, <2>2 DEF TronWay
<1>5. CASE SkipStep
  <2>1. state.NextStep = 22 => pos = 22
    <3>1. pc = "scan" /\ pos \in 1..25 /\ stage = StageOf[pos]
      BY <1>0, <1>5, SkipFields
    <3>2. stage # 0
      BY <3>1, StageNumbers
    <3> QED
      BY <3>1, <3>2 DEF TronJumps
  <2>2. CASE status[pos] \in Settled
    BY <1>0, <1>5, <2>1, <2>2, SkipFields DEF TronWay, TronJumps
  <2>3. CASE status[pos] \notin Settled
    <3>1. /\ pc = "scan" /\ pc' = "scan" /\ pos \in 1..25 /\ pos' = pos + 1 /\ UNCHANGED snapshot
          /\ state.NextStep \notin {0, pos, 22} /\ pos < state.NextStep /\ state'.NextStep = state.NextStep
          /\ status'[pos] = "skipped" /\ \A i \in 1..25 : i # pos => status'[i] = status[i]
      BY <1>0, <1>5, <2>1, <2>3, SkipFields DEF TronJumps
    <3>2. state.NextStep < 22 => pos \notin Main
      BY <1>0, <2>3, <3>1 DEF TronWay, TronJumps, JumpShape
    <3>3. MainInTurn(status', state')
      BY <1>0, <2>3, <3>1, <3>2 DEF TronWay
    <3>4. (InLoop /\ state.NextStep < 22) =>
              \/ \A j \in 1..21 : pos + 1 =< j => status'[j] \in Settled
              \/ \A i \in Main : i < pos + 1 => status'[i] = "completed"
      BY <1>0, <2>3, <3>1, <3>2 DEF TronWay
    <3>5. state.NextStep \in {23, 25} => pos + 1 >= 22 \/ \A j \in 1..21 : j < pos + 1 => status'[j] \in Settled
      BY <1>0, <2>3, <3>1 DEF TronWay
    <3>6. (\E i \in Main : status'[i] = "skipped") => (state.NextStep \in {23, 25} /\ pos + 1 =< 21) \/ AllSettled(status')
      BY <1>0, <2>3, <3>1, <3>2, <3>5 DEF TronWay, TronJumps, JumpShape
    <3> QED
      BY <3>1, <3>3, <3>4, <3>5, <3>6 DEF TronWay
  <2> QED
    BY <2>2, <2>3
<1>6. CASE BeginStep
  BY <1>0, <1>6, BeginFields DEF TronWay
<1>7. CASE AfterStep
  BY <1>0, <1>7, AfterFields DEF TronWay, TronResults, TronJumps
<1>8. CASE EndExecute
  BY <1>0, <1>8, EndFields DEF TronWay
<1>9. CASE Leaves
  BY <1>0, <1>9, LeavesFields, StateFields DEF TronWay
<1>10. ASSUME NEW r, Finishes(r) PROVE TronWay'
  BY <1>0, <1>10, FinishFields DEF TronWay
<1>11. ASSUME NEW k \in 1..25, JumpsTo(k), MayJump(k) PROVE TronWay'
  <2>1. /\ pc = "func" /\ pc' = "post" /\ state'.NextStep = k /\ UNCHANGED <<status, snapshot, pos>>
        /\ pos \in 1..25 /\ status[pos] = "processing"
    BY <1>0, <1>11, JumpFields DEF TronTypes
  <2>2. (pos =< 21 => \A i \in Main : i < pos => status[i] = "completed") /\ (pos > 21 => k > 21)
    BY <1>0, <1>11, <2>1, MayJumpNumbers DEF TronWay
  <2>3. k \in 16..21 => pos \in {18, 19}
    BY <1>11, MayJumpNumbers
  <2>4. k \in 16..21 => \A i \in Main : status[i] = "completed"
    BY <2>2, <2>3
  <2>5. (\E i \in Main : status[i] = "skipped") => AllSettled(status)
    BY <2>1 DEF TronWay
  <2>6. MainInTurn(status', state')
    BY <2>1, <2>4 DEF TronWay
  <2>7. k < 22 => \A i \in Main : i < pos => status[i] = "completed"
    BY <2>1, <2>2
  <2> QED
    BY <2>1, <2>5, <2>6, <2>7 DEF TronWay
<1>12. CASE StepGivesUp
  BY <1>0, <1>12, GivesUpFields, StateFields DEF TronWay
<1>13. CASE Redirects
  BY <1>0, <1>13, RedirectFields DEF TronWay
<1>14. CASE UNCHANGED wfVars
  BY <1>14 DEF wfVars, TronWay
<1> QED
  BY <1>1, <1>2, <1>3, <1>4, <1>5, <1>6, <1>7, <1>8, <1>9, <1>10, <1>11, <1>12, <1>13, <1>14 DEF Cases

LEMMA CompensationStep ==
    EngineInv /\ TronJumps /\ TronResults /\ TronCompensation /\ Cases /\ UNCHANGED req => TronCompensation'
<1> SUFFICES ASSUME EngineInv, TronJumps, TronResults, TronCompensation, Cases, UNCHANGED req PROVE TronCompensation'
  OBVIOUS
<1> USE DEF Compensation, Settled, Begun
<1>0. /\ TronTypes
      /\ state.NextStep \in Nat /\ state.NextStage \in Nat
      /\ state.CustomError \in BOOLEAN /\ snapshot.state.CustomError \in BOOLEAN
      /\ pc = "func" => state.NextStep = 0
      /\ pc \in {"func", "post"} => snapshot.status = status
      /\ pc # "idle" => \A i \in 1..25 : snapshot.status[i] # "unset" => status[i] # "unset"
  BY TypesOf, StepNumbers DEF EngineInv, MemoryInv, TronTypes, WorkflowState, TronJumps
\* The loops have come to the stage compensate.
<1>a. ASSUME pc = "scan", state.NextStage = 0, pos \in 1..25 => StageOf[pos] = stage,
             snapshot.state.CustomError \/ snapshot.state.NextStage = 4
      PROVE  pos = 22 \/ status[22] # "unset"
  <2>1. snapshot.state.NextStage = 4 => stage >= 4
    BY <1>a DEF EngineInv, IndInv, Jumps
  <2>2. \A j \in 1..25 : (j < pos /\ StageOf[j] = stage) => status[j] \in Settled
    BY <1>a, StepNumbers DEF EngineInv, IndInv, Loops, InLoop
  <2>3. CASE snapshot.status[22] # "unset"
    BY <1>0, <1>a, <2>3
  <2>4. CASE snapshot.state.NextStage = 4
    <3>1. pos >= 22 /\ (pos # 22 => stage = 4)
      BY <1>0, <1>a, <2>1, <2>4, StageNumbers DEF TronTypes, TronJumps, InLoop
    <3> QED
      BY <1>0, <2>2, <3>1, StageNumbers DEF TronTypes
  <2> QED
    BY <1>a, <2>3, <2>4 DEF TronCompensation
<1>b. /\ (status[23] # "unset" => status[22] \in Settled)
      /\ (status[24] # "unset" => status[22] \in Settled /\ status[23] \in Settled)
      /\ (status[25] # "unset" => status[22] \in Settled /\ status[23] \in Settled)
  BY StepNumbers DEF EngineInv, OrderInv, StageOrder
<1>1. CASE Start
  BY <1>0, <1>1 DEF Start, TronCompensation, TronTypes
<1>2. CASE ExitFinished \/ LeavesToRiver
  BY <1>2, NeverExits DEF LeavesToRiver, IgnoreFailure, TronCompensation
<1>3. CASE EnterStage
  BY <1>0, <1>3, EnterFields DEF TronCompensation
<1>4. CASE SkipStage
  BY <1>0, <1>4 DEF SkipStage, AtStage, TronCompensation
<1>5. CASE SkipStep
  BY <1>0, <1>b, <1>5, SkipFields DEF TronCompensation, TronJumps, InLoop, JumpShape
<1>6. CASE BeginStep
  <2>1. pos >= 23 => status[22] \in Settled /\ (pos >= 24 => status[23] \in Settled)
    BY <1>0, <1>6, BeginFields, StageNumbers, StepNumbers DEF EngineInv, IndInv, Loops, InLoop
  <2>2. Compensation(status', state')
    BY <1>0, <1>b, <1>6, <2>1, BeginFields DEF TronCompensation, TronTypes, StepStatus
  <2>3. (snapshot.state.CustomError \/ snapshot.state.NextStage = 4) => status'[22] # "unset"
    BY <1>0, <1>a, <1>6, <2>1, BeginFields DEF TronCompensation
  <2> QED
    BY <1>0, <1>6, <2>2, <2>3, BeginFields DEF TronCompensation
<1>7. CASE AfterStep
  BY <1>0, <1>7, AfterFields DEF TronCompensation, TronResults, TronJumps, JumpShape
<1>8. CASE EndExecute
  <2>1. CASE pc = "end"
    BY <1>0, <1>8, <2>1, EndFields DEF TronCompensation, TronJumps, JumpShape
  <2>2. CASE pc = "scan" /\ pos = 26
    <3>1. state.NextStage = 0
      BY <1>0, <2>2 DEF TronJumps, JumpShape, InLoop
    <3>2. (snapshot.state.CustomError \/ snapshot.state.NextStage = 4) => status[22] # "unset"
      BY <1>a, <2>2, <3>1
    <3> QED
      BY <1>0, <1>8, <2>2, <3>2, EndFields DEF TronCompensation
  <2> QED
    BY <1>0, <1>8, <2>1, <2>2, EndFields
<1>9. CASE Leaves
  BY <1>0, <1>9, LeavesFields, StateFields DEF TronCompensation
<1>10. ASSUME NEW r, Finishes(r) PROVE TronCompensation'
  BY <1>0, <1>10, FinishFields DEF TronCompensation
<1>11. ASSUME NEW k \in 1..25, JumpsTo(k), MayJump(k) PROVE TronCompensation'
  BY <1>0, <1>11, JumpFields, MayJumpNumbers DEF TronCompensation
<1>12. CASE StepGivesUp
  BY <1>0, <1>12, GivesUpFields, StateFields DEF TronCompensation, TronJumps, JumpShape
<1>13. CASE Redirects
  <2>1. status[22] \notin Settled \/ pos # 22
    BY <1>0, <1>13, RedirectFields DEF EngineInv, OutcomeInv
  <2>2. (status[22] \in Settled /\ status[23] = "unset") \/ (status[23] = "skipped" /\ status[25] = "unset") => FALSE
    BY <1>0, <1>b, <1>13, <2>1, RedirectFields DEF TronCompensation, TronJumps, JumpShape
  <2> QED
    BY <1>0, <1>13, <2>2, RedirectFields DEF TronCompensation
<1>14. CASE UNCHANGED wfVars
  BY <1>14 DEF wfVars, TronCompensation
<1> QED
  BY <1>1, <1>2, <1>3, <1>4, <1>5, <1>6, <1>7, <1>8, <1>9, <1>10, <1>11, <1>12, <1>13, <1>14 DEF Cases

(***************************************************************************)
(* The chain and the records                                               *)
(***************************************************************************)

LEMMA SetInOrder ==
    ASSUME NEW S, IsFiniteSet(S)
    PROVE  /\ Cardinality(S) \in Nat
           /\ SetToSeq(S) \in [1..Cardinality(S) -> S]
           /\ \A x \in S : \E i \in 1..Cardinality(S) : SetToSeq(S)[i] = x
<1>1. Cardinality(S) \in Nat /\ ExistsBijection(1..Cardinality(S), S)
  BY FS_CardinalityType
<1>2. PICK f \in [1..Cardinality(S) -> S] : IsInjective(f)
  BY <1>1 DEF ExistsBijection, Bijection, Injection
<1>3. SetToSeq(S) \in [1..Cardinality(S) -> S] /\ IsInjective(SetToSeq(S))
  BY <1>2 DEF SetToSeq
<1> DEFINE g == SetToSeq(S)
<1>4. g \in Injection(1..Cardinality(S), S)
  BY <1>3 DEF Injection
<1>5. Cardinality(1..Cardinality(S)) = Cardinality(S)
  BY <1>1, FS_Interval
<1> HIDE DEF g
<1>6. g \in Surjection(1..Cardinality(S), S)
  BY <1>4, <1>5, FS_Injection
<1>7. \A x \in S : \E i \in 1..Cardinality(S) : g[i] = x
  BY <1>6 DEF Surjection
<1> QED
  BY <1>1, <1>3, <1>7 DEF g

Taken(outcome) == {r \in DOMAIN outcome : outcome[r] # "refused"}

\* The new transactions of a broadcast: one for each resource that was taken, with
\* a record of the type of the current step when the outcome says so.
Sent(purpose, outcome) ==
    /\ chain' \in Seq(Tx)
    /\ Len(chain') = Len(chain) + Cardinality(Taken(outcome))
    /\ \A t \in 1..Len(chain) : chain'[t] = chain[t]
    /\ \A t \in Len(chain) + 1..Len(chain') :
        /\ chain'[t].purpose = purpose
        /\ chain'[t].state = "pending"
        /\ chain'[t].res \in Taken(outcome)
        /\ outcome[chain'[t].res] = "done" => <<TxType, t>> \in records'
    /\ \A r \in Taken(outcome) : \E t \in Len(chain) + 1..Len(chain') : chain'[t].res = r
    /\ records \subseteq records'
    /\ \A x \in records' \ records :
        \E t \in Len(chain) + 1..Len(chain') : x = <<TxType, t>> /\ outcome[chain'[t].res] = "done"

LEMMA BroadcastSends ==
    ASSUME chain \in Seq(Tx), NEW purpose \in Purposes, NEW need \in SUBSET About(purpose),
           NEW outcome \in [need -> {"done", "refused", "lost"}], Broadcast(purpose, outcome)
    PROVE  Sent(purpose, outcome) /\ Cardinality(Taken(outcome)) \in Nat
<1> DEFINE S == Taken(outcome)
           n == Cardinality(S)
           taken == SetToSeq(S)
           new == [i \in DOMAIN taken |-> [purpose |-> purpose, res |-> taken[i], state |-> "pending"]]
<1>1. S \subseteq need /\ IsFiniteSet(S)
  <2>1. IsFiniteSet(Resources \cup {NoRes})
    BY ResourcesFinite, FS_AddElement
  <2>2. S \subseteq Resources \cup {NoRes}
    BY DEF Taken, About
  <2> QED
    BY <2>1, <2>2, FS_Subset DEF Taken
<1>2. n \in Nat /\ taken \in [1..n -> S] /\ \A x \in S : \E i \in 1..n : taken[i] = x
  BY <1>1, SetInOrder
<1>3. DOMAIN taken = 1..n
  BY <1>2
<1>4. new = [i \in 1..n |-> [purpose |-> purpose, res |-> taken[i], state |-> "pending"]]
  BY <1>3
<1>5. chain' = chain \o new
      /\ records' = records \cup {<<TxType, Len(chain) + i>> : i \in {j \in 1..n : outcome[taken[j]] = "done"}}
  BY <1>3 DEF Broadcast, Taken
<1> HIDE DEF S, n, taken
<1>6. new \in Seq(Tx) /\ Len(new) = n /\ \A i \in 1..n : new[i] = [purpose |-> purpose, res |-> taken[i], state |-> "pending"]
  <2>1. \A i \in 1..n : [purpose |-> purpose, res |-> taken[i], state |-> "pending"] \in Tx
    BY <1>1, <1>2 DEF Tx, About
  <2>2. new \in [1..n -> Tx]
    BY <1>4, <2>1
  <2>3. new \in Seq(Tx)
    BY <1>2, <2>2, SeqDef
  <2> QED
    BY <1>2, <1>4, <2>2, <2>3, LenProperties
<1> HIDE DEF new
<1>7. /\ chain' \in Seq(Tx) /\ Len(chain) \in Nat /\ Len(chain') = Len(chain) + n
      /\ \A t \in 1..Len(chain) : chain'[t] = chain[t]
      /\ \A i \in 1..n : chain'[Len(chain) + i] = new[i]
  BY <1>2, <1>5, <1>6, ConcatProperties, LenProperties
<1>8. \A t \in Len(chain) + 1..Len(chain') : t - Len(chain) \in 1..n /\ t = Len(chain) + (t - Len(chain))
  BY <1>2, <1>7
<1>9. ASSUME NEW t \in Len(chain) + 1..Len(chain')
      PROVE  /\ chain'[t].purpose = purpose
             /\ chain'[t].state = "pending"
             /\ chain'[t].res \in S
             /\ chain'[t].res = taken[t - Len(chain)]
             /\ outcome[chain'[t].res] = "done" => <<TxType, t>> \in records'
  BY <1>2, <1>5, <1>6, <1>7, <1>8
<1>10. ASSUME NEW r \in S PROVE \E t \in Len(chain) + 1..Len(chain') : chain'[t].res = r
  <2>1. PICK i \in 1..n : taken[i] = r
    BY <1>2
  <2>2. Len(chain) + i \in Len(chain) + 1..Len(chain')
    BY <1>2, <1>7
  <2>3. chain'[Len(chain) + i].res = taken[i]
    BY <1>6, <1>7
  <2> QED
    BY <2>1, <2>2, <2>3
<1>11. ASSUME NEW x \in records' \ records
       PROVE  \E t \in Len(chain) + 1..Len(chain') : x = <<TxType, t>> /\ outcome[chain'[t].res] = "done"
  <2>1. PICK i \in 1..n : x = <<TxType, Len(chain) + i>> /\ outcome[taken[i]] = "done"
    BY <1>5
  <2>2. Len(chain) + i \in Len(chain) + 1..Len(chain')
    BY <1>2, <1>7
  <2>3. chain'[Len(chain) + i].res = taken[i]
    BY <1>6, <1>7
  <2> QED
    BY <2>1, <2>2, <2>3
<1>12. records \subseteq records'
  BY <1>5
<1> QED
  BY <1>2, <1>7, <1>9, <1>10, <1>11, <1>12 DEF Sent, S, n

\* A broadcast for some of the resources, seen from the chain: it grows by
\* transactions of the purpose, recorded by the type of the current step if at all.
Grows(purpose) ==
    /\ chain' \in Seq(Tx)
    /\ DOMAIN chain \subseteq DOMAIN chain'
    /\ \A t \in DOMAIN chain : chain'[t] = chain[t]
    /\ \A t \in DOMAIN chain' \ DOMAIN chain : chain'[t].purpose = purpose /\ chain'[t].state = "pending"
    /\ records \subseteq records'
    /\ \A x \in records' \ records : \E t \in DOMAIN chain' \ DOMAIN chain : x = <<TxType, t>>
    /\ TxType = "unresolved" => UNCHANGED <<chain, records>>

LEMMA BroadcastGrows ==
    ASSUME chain \in Seq(Tx), NEW purpose \in Purposes, NEW need \in SUBSET About(purpose),
           NEW outcome \in [need -> Outcomes], Broadcast(purpose, outcome)
    PROVE  Grows(purpose)
<1>1. outcome \in [need -> {"done", "refused", "lost"}]
  BY DEF Outcomes
<1>2. Sent(purpose, outcome) /\ Cardinality(Taken(outcome)) \in Nat
  BY <1>1, BroadcastSends
<1>3. /\ DOMAIN chain = 1..Len(chain) /\ Len(chain) \in Nat
      /\ DOMAIN chain' = 1..Len(chain') /\ Len(chain') \in Nat
      /\ Len(chain) =< Len(chain')
  BY <1>2, LenProperties DEF Sent
<1>4. DOMAIN chain' \ DOMAIN chain = Len(chain) + 1..Len(chain')
  BY <1>3
<1>5. ASSUME TxType = "unresolved" PROVE UNCHANGED <<chain, records>>
  <2>1. Taken(outcome) = {}
    BY <1>5 DEF Outcomes, Taken
  <2>2. Cardinality(Taken(outcome)) = 0
    BY <2>1, FS_EmptySet
  <2>3. Len(chain') = Len(chain)
    BY <1>2, <1>3, <2>2 DEF Sent
  <2>4. DOMAIN chain' = DOMAIN chain /\ Len(chain) + 1..Len(chain') = {}
    BY <1>3, <2>3
  <2>5. chain' = chain
    BY <1>2, <1>3, <2>4, SeqDef DEF Sent
  <2>6. records' = records
    BY <1>2, <2>4 DEF Sent
  <2> QED
    BY <2>5, <2>6
<1>6. /\ chain' \in Seq(Tx)
      /\ \A t \in 1..Len(chain) : chain'[t] = chain[t]
      /\ \A t \in Len(chain) + 1..Len(chain') : chain'[t].purpose = purpose /\ chain'[t].state = "pending"
      /\ records \subseteq records'
      /\ \A x \in records' \ records : \E t \in Len(chain) + 1..Len(chain') : x = <<TxType, t>>
  BY <1>2 DEF Sent
<1>7. DOMAIN chain \subseteq DOMAIN chain'
  BY <1>3
<1> QED
  BY <1>3, <1>4, <1>5, <1>6, <1>7 DEF Grows

\* One transaction at most, and its record when the broadcast is done.
LEMMA SendOneGrows ==
    ASSUME chain \in Seq(Tx), NEW purpose \in Purposes \ {"delegate", "reclaim"},
           NEW o \in Outcomes, SendOne(purpose, o)
    PROVE  /\ Grows(purpose)
           /\ DOMAIN chain' \subseteq DOMAIN chain \cup {Len(chain')}
           /\ o = "refused" => DOMAIN chain' = DOMAIN chain
           /\ o # "done" => UNCHANGED records
           /\ o = "done" => /\ Len(chain') \in DOMAIN chain'
                            /\ chain'[Len(chain')].purpose = purpose
                            /\ <<TxType, Len(chain')>> \in records'
<1> DEFINE outcome == [r \in {NoRes} |-> o]
<1>1. {NoRes} \in SUBSET About(purpose) /\ purpose \in Purposes /\ outcome \in [{NoRes} -> Outcomes]
      /\ outcome \in [{NoRes} -> {"done", "refused", "lost"}] /\ Broadcast(purpose, outcome)
  BY DEF Outcomes, SendOne, About
<1>2. Taken(outcome) = IF o = "refused" THEN {} ELSE {NoRes}
  BY DEF Taken
<1>3. Cardinality({NoRes}) = 1 /\ Cardinality({}) = 0
  BY FS_EmptySet, FS_Singleton
<1>o. o \in {"done", "refused", "lost"} /\ outcome[NoRes] = o
  BY DEF Outcomes
<1> HIDE DEF outcome
<1>4. Grows(purpose) /\ Sent(purpose, outcome)
  BY <1>1, BroadcastGrows, BroadcastSends
<1>5. Len(chain') = IF o = "refused" THEN Len(chain) ELSE Len(chain) + 1
  <2>1. Len(chain) \in Nat
    BY LenProperties
  <2> QED
    BY <1>2, <1>3, <1>4, <2>1 DEF Sent
<1>6. /\ DOMAIN chain = 1..Len(chain) /\ Len(chain) \in Nat
      /\ DOMAIN chain' = 1..Len(chain') /\ Len(chain') \in Nat
  BY <1>4, LenProperties DEF Sent
<1>7. ASSUME o = "done"
      PROVE  /\ chain'[Len(chain')].purpose = purpose
             /\ <<TxType, Len(chain')>> \in records'
  <2>1. Len(chain') \in Len(chain) + 1..Len(chain')
    BY <1>5, <1>6, <1>7
  <2>2. chain'[Len(chain')].res = NoRes /\ chain'[Len(chain')].purpose = purpose
    BY <1>2, <1>4, <1>7, <2>1 DEF Sent
  <2>3. outcome[chain'[Len(chain')].res] = "done"
    BY <1>o, <1>7, <2>2
  <2> QED
    BY <1>4, <2>1, <2>2, <2>3 DEF Sent
<1>8. DOMAIN chain' \subseteq DOMAIN chain \cup {Len(chain')}
  BY <1>5, <1>6
<1>9. o = "refused" => DOMAIN chain' = DOMAIN chain
  BY <1>5, <1>6
<1>10. o = "done" => Len(chain') \in DOMAIN chain'
  BY <1>5, <1>6
<1>11. ASSUME o # "done" PROVE UNCHANGED records
  <2>1. ASSUME NEW x \in records' \ records PROVE FALSE
    <3>1. PICK t \in Len(chain) + 1..Len(chain') : outcome[chain'[t].res] = "done"
      BY <1>4, <2>1 DEF Sent
    <3>2. chain'[t].res \in Taken(outcome)
      BY <1>4, <3>1 DEF Sent
    <3>3. chain'[t].res = NoRes
      BY <1>2, <3>2
    <3> QED
      BY <1>o, <1>11, <3>1, <3>3
  <2>2. records \subseteq records'
    BY <1>4 DEF Sent
  <2> QED
    BY <2>1, <2>2
<1> QED
  BY <1>4, <1>7, <1>8, <1>9, <1>10, <1>11

(***************************************************************************)
(* What the step functions do outside of the run                           *)
(***************************************************************************)

Memo ==
    /\ delegateFrom \in BOOLEAN /\ savedFrom \in BOOLEAN
    /\ stateData \subseteq Resources /\ loaded \subseteq Resources

\* A status is announced and written, or a write fails.
Announces ==
    /\ pc = "func"
    /\ \/ pos = 1 /\ setTransferStatus("processing", "nil")
       \/ pos = 16 /\ setTransferStatus("unconfirmed", "nil")
       \/ pos = 21 /\ setTransferStatus("completed", "exit")
    /\ UNCHANGED tronVars

\* What the run and the database know of the delegations is not lost by a step.
Remembers ==
    /\ UNCHANGED savedFrom
    /\ delegateFrom => delegateFrom'
    /\ stateData \subseteq stateData'
    /\ loaded' \in {loaded, stateData}

\* Transactions other than the payment are sent.
Broadcasts ==
    /\ pc = "func" /\ pos \in {4, 7, 10, 12, 19, 23} /\ ~MayPass(pos)
    /\ \E purpose \in {"activation", "burn", "delegate", "reclaim"} :
            /\ Grows(purpose)
            /\ purpose = "delegate" => pos = 12
            /\ purpose = "reclaim" => pos \in {19, 23}
    /\ UNCHANGED <<trVars, req, active, frozen>>
    /\ Memo' /\ Remembers

\* The payment is sent and its number written, or something of it fails.
Pays ==
    /\ pc = "func" /\ pos = 15
    /\ Grows("transfer")
    /\ DOMAIN chain' \subseteq DOMAIN chain \cup {Len(chain')}
    /\ \/ /\ Fault \/ (UNCHANGED faults /\ pc' = "post")
          /\ pc' = "post" => result' = "error" /\ UNCHANGED records
          /\ UNCHANGED row
       \/ /\ Finishes("nil") /\ UNCHANGED faults
          /\ row' = [row EXCEPT !.txHash = Len(chain')]
          /\ Len(chain') \in DOMAIN chain'
          /\ chain'[Len(chain')].purpose = "transfer"
          /\ <<TxType, Len(chain')>> \in records'
          /\ loaded' = stateData /\ UNCHANGED stateData
    /\ UNCHANGED <<events, req, active, frozen>>
    /\ Memo' /\ Remembers

DataMoves ==
    \/ Quietly
    \/ Announces
    \/ Broadcasts
    \/ Pays
    \/ pc = "func" /\ pos = 25 /\ sendFailureEventStep

LEMMA SendFailsData ==
    ASSUME TronTypeOK, NEW purpose \in {"activation", "burn"}, pc = "func", pos \in {4, 7, 10}, ~MayPass(pos),
           SendFails(purpose) \/ (SendSucceeds(purpose) /\ UNCHANGED <<trVars, sendVars>>)
    PROVE  Broadcasts
<1>1. PICK o \in Outcomes : SendOne(purpose, o)
  BY DEF SendFails, SendSucceeds
<1>2. purpose \in Purposes \ {"delegate", "reclaim"} /\ chain \in Seq(Tx)
  BY DEF Purposes, TronTypeOK
<1>3. Grows(purpose)
  BY <1>1, <1>2, SendOneGrows
<1>4. UNCHANGED <<trVars, sendVars>>
  BY DEF SendFails
<1>5. Memo' /\ Remembers
  BY <1>4 DEF TronTypeOK, Memo, Remembers, sendVars
<1> QED
  BY <1>3, <1>4, <1>5 DEF Broadcasts, sendVars

LEMMA ReclaimData ==
    ASSUME TronTypeOK, pc = "func", pos \in {19, 23}, Reclaim
    PROVE  Quietly \/ Broadcasts
<1>1. CASE UNCHANGED <<records, chain>>
  BY <1>1 DEF Reclaim, Quietly, tronVars, sendVars
<1>2. CASE \E outcome \in [frozen \cap loaded -> Outcomes] : Broadcast("reclaim", outcome)
  <2>1. PICK outcome \in [frozen \cap loaded -> Outcomes] : Broadcast("reclaim", outcome)
    BY <1>2
  <2>2. /\ frozen \cap loaded \in SUBSET About("reclaim") /\ chain \in Seq(Tx)
        /\ "reclaim" \in Purposes
    BY DEF TronTypeOK, Purposes, About
  <2>3. Grows("reclaim")
    BY <2>1, <2>2, BroadcastGrows
  <2>4. ~MayPass(pos)
    BY PassedNumbers
  <2>5. UNCHANGED <<trVars, sendVars>>
    BY DEF Reclaim
  <2>6. Memo' /\ Remembers
    BY <2>5 DEF TronTypeOK, Memo, Remembers, sendVars
  <2> QED
    BY <2>3, <2>4, <2>5, <2>6 DEF Broadcasts, sendVars
<1> QED
  BY <1>1, <1>2 DEF Reclaim

LEMMA DelegateData == TronTypeOK /\ delegateResources => Quietly \/ Broadcasts
<1> SUFFICES ASSUME TronTypeOK, delegateResources, ~Quietly PROVE Broadcasts
  OBVIOUS
<1>1. /\ pc = "func" /\ pos = 12 /\ req.wallet = "hot"
      /\ \E need \in SUBSET Resources : \E outcome \in [need -> Outcomes] :
            /\ Broadcast("delegate", outcome)
            /\ delegateFrom' = (delegateFrom \/ {r \in need : outcome[r] = "done"} # {}) \/ UNCHANGED delegateFrom
            /\ stateData' \in {stateData, stateData \cup {r \in need : outcome[r] = "done"}}
      /\ UNCHANGED <<trVars, req, active, savedFrom, loaded, frozen>>
  BY DEF delegateResources, StepWhFails, InStep, delegate_resources
<1>2. PICK need \in SUBSET Resources : \E outcome \in [need -> Outcomes] :
            /\ Broadcast("delegate", outcome)
            /\ delegateFrom' = (delegateFrom \/ {r \in need : outcome[r] = "done"} # {}) \/ UNCHANGED delegateFrom
            /\ stateData' \in {stateData, stateData \cup {r \in need : outcome[r] = "done"}}
  BY <1>1
<1>3. PICK outcome \in [need -> Outcomes] :
            /\ Broadcast("delegate", outcome)
            /\ delegateFrom' = (delegateFrom \/ {r \in need : outcome[r] = "done"} # {}) \/ UNCHANGED delegateFrom
            /\ stateData' \in {stateData, stateData \cup {r \in need : outcome[r] = "done"}}
  BY <1>2
<1>4. need \in SUBSET About("delegate") /\ "delegate" \in Purposes /\ chain \in Seq(Tx)
  BY DEF Purposes, TronTypeOK, About
<1>5. Grows("delegate")
  BY <1>3, <1>4, BroadcastGrows
<1>6. ~MayPass(pos)
  BY <1>1, PassedNumbers
<1>7. delegateFrom' \in BOOLEAN
  BY <1>3 DEF TronTypeOK
<1>8. stateData' \subseteq Resources
  BY <1>3 DEF TronTypeOK
<1>9. Memo'
  BY <1>1, <1>7, <1>8 DEF TronTypeOK, Memo
<1>10. Remembers
  BY <1>1, <1>3 DEF TronTypeOK, Remembers
<1> QED
  BY <1>1, <1>5, <1>6, <1>9, <1>10 DEF Broadcasts

LEMMA PaymentData == TronTypeOK /\ sendingStep => (Quietly /\ Returns("error")) \/ Pays
<1> SUFFICES ASSUME TronTypeOK, sendingStep, ~(Quietly /\ Returns("error")) PROVE Pays
  OBVIOUS
<1>1. pc = "func" /\ pos = 15 /\ "transfer" \in Purposes \ {"delegate", "reclaim"} /\ chain \in Seq(Tx)
  BY DEF sendingStep, InStep, sending, Purposes, TronTypeOK
<1>2. CASE SendFails("transfer")
  <2>1. PICK o \in Outcomes \ {"done"} : SendOne("transfer", o) /\ (Returns("error") \/ Abort)
    BY <1>2 DEF SendFails
  <2>2. /\ Grows("transfer") /\ DOMAIN chain' \subseteq DOMAIN chain \cup {Len(chain')}
        /\ UNCHANGED records
    BY <1>1, <2>1, SendOneGrows
  <2>3. UNCHANGED <<trVars, sendVars>>
    BY <1>2 DEF SendFails
  <2>4. Memo' /\ Remembers
    BY <2>3 DEF TronTypeOK, Memo, Remembers, sendVars
  <2>5. /\ Fault \/ (UNCHANGED faults /\ pc' = "post")
        /\ pc' = "post" => result' = "error"
    BY <2>1 DEF Returns, Return, Abort, Forget
  <2> QED
    BY <1>1, <2>2, <2>3, <2>4, <2>5 DEF Pays, trVars, sendVars
<1>3. CASE /\ SendSucceeds("transfer")
           /\ \/ /\ row' = [row EXCEPT !.txHash = Len(chain')]
                 /\ loaded' = stateData
                 /\ Returns("nil")
              \/ LostRun /\ UNCHANGED <<row, loaded>>
           /\ UNCHANGED <<events, req, active, delegateFrom, savedFrom, stateData, frozen>>
  <2>1. "done" \in Outcomes /\ SendOne("transfer", "done")
    BY <1>3 DEF SendSucceeds
  <2>2. /\ Grows("transfer") /\ DOMAIN chain' \subseteq DOMAIN chain \cup {Len(chain')}
        /\ Len(chain') \in DOMAIN chain'
        /\ chain'[Len(chain')].purpose = "transfer"
        /\ <<TxType, Len(chain')>> \in records'
    BY <1>1, <2>1, SendOneGrows
  <2>3. loaded' \in {stateData, loaded}
    BY <1>3
  <2>4. Memo' /\ Remembers
    BY <1>3, <2>3 DEF TronTypeOK, Memo, Remembers
  <2>5. CASE row' = [row EXCEPT !.txHash = Len(chain')] /\ loaded' = stateData /\ Returns("nil")
    BY <1>1, <1>3, <2>2, <2>4, <2>5, ReturnsEnds DEF Pays
  <2>6. CASE LostRun /\ UNCHANGED row
    <3>1. Fault /\ pc' = "idle"
      BY <2>6 DEF LostRun, Forget
    <3> QED
      BY <1>1, <1>3, <2>2, <2>4, <2>6, <3>1 DEF Pays
  <2> QED
    BY <1>3, <2>5, <2>6
<1> QED
  BY <1>2, <1>3 DEF sendingStep

LEMMA StepData == TronTypeOK /\ StepFunction => DataMoves
<1> SUFFICES ASSUME TronTypeOK, StepFunction, ~Quietly PROVE DataMoves
  BY DEF DataMoves
<1>1. CASE \/ checkActivateWallet \/ beforeActivationCheckTransferKind
           \/ waitingResourcesActivateWalletConfirmations
           \/ waitingExternalActivateWalletConfirmations
           \/ waitingActivateWalletConfirmations \/ beforeSendingCheckTransferKind
           \/ waitingSendBurnTrxConfirmations
           \/ waitingDelegateConfirmations \/ waitingExternalDelegateResources
           \/ waitingConfirmations
           \/ afterSendingCheckTransferKind
           \/ waitingReclaimResourcesConfirmations
           \/ determineCompensationFlow \/ waitingReclaimOnErrorConfirmations
  BY <1>1 DEF checkActivateWallet, beforeActivationCheckTransferKind, waitingResourcesActivateWalletConfirmations,
     waitingExternalActivateWalletConfirmations, waitingActivateWalletConfirmations, beforeSendingCheckTransferKind,
     waitingSendBurnTrxConfirmations, waitingDelegateConfirmations, waitingExternalDelegateResources,
     waitingConfirmations, afterSendingCheckTransferKind, waitingReclaimResourcesConfirmations,
     determineCompensationFlow, waitingReclaimOnErrorConfirmations, AwaitOne, AwaitAll, AwaitOrder, StepWhFails
<1>2. CASE validateRequest
  BY <1>2 DEF validateRequest, InStep, validate_request, DataMoves, Announces, Quietly
<1>3. CASE waitingForTheFirstConfirmation
  BY <1>3 DEF waitingForTheFirstConfirmation, InStep, waiting_for_the_first_confirmation, DataMoves, Announces, Quietly,
     StepWhFails
<1>4. CASE sendSuccessEvent
  BY <1>4 DEF sendSuccessEvent, InStep, send_success_event, DataMoves, Announces
<1>5. CASE sendFailureEventStep
  BY <1>5 DEF sendFailureEventStep, InStep, send_failure_event, DataMoves
<1>6. CASE activateWalletResources \/ activateWalletBurnTRX
  <2>1. /\ pc = "func" /\ pos \in {4, 7}
        /\ SendFails("activation") \/ (SendSucceeds("activation") /\ UNCHANGED <<trVars, sendVars>>)
    BY <1>6 DEF activateWalletResources, activateWalletBurnTRX, InStep, activate_wallet_resources,
       activate_wallet_burn_trx, StepWhFails
  <2>2. ~MayPass(pos)
    BY <2>1, PassedNumbers
  <2> QED
    BY <2>1, <2>2, SendFailsData DEF DataMoves
<1>7. CASE sendTRXForBurn
  <2>1. /\ pc = "func" /\ pos = 10 /\ req.wallet = "hot" /\ req.asset = "token"
        /\ SendFails("burn") \/ (SendSucceeds("burn") /\ UNCHANGED <<trVars, sendVars>>)
    BY <1>7 DEF sendTRXForBurn, InStep, send_trx_for_burn
  <2>2. ~MayPass(pos)
    BY <2>1, PassedNumbers
  <2> QED
    BY <2>1, <2>2, SendFailsData DEF DataMoves
<1>8. CASE delegateResources
  BY <1>8, DelegateData DEF DataMoves
<1>9. CASE sendingStep
  BY <1>9, PaymentData DEF DataMoves
<1>10. CASE reclaimResources \/ reclaimOnError
  <2>1. pc = "func" /\ pos \in {19, 23} /\ Reclaim
    BY <1>10 DEF reclaimResources, reclaimOnError, InStep, reclaim_resources, reclaim_on_error
  <2> QED
    BY <2>1, ReclaimData DEF DataMoves
<1> QED
  BY <1>1, <1>2, <1>3, <1>4, <1>5, <1>6, <1>7, <1>8, <1>9, <1>10 DEF StepFunction

LEMMA InitTyped == InitTron => TronTypeOK
<1> SUFFICES ASSUME InitTron PROVE TronTypeOK
  OBVIOUS
<1>1. EngineInv
  BY EngineInductive DEF InitTron, InitTransfer
<1>2. TransferTypeOK
  BY <1>1 DEF EngineInv, IndInv, InitTron, InitTransfer, TransferTypeOK, TransferStatus, None
<1>3. chain \in Seq(Tx)
  BY DEF InitTron
<1> QED
  BY <1>2, <1>3 DEF InitTron, TronTypeOK

\* The row and the webhooks have their types after the writes of a status.
LEMMA RowTypes ==
    ASSUME TronTypeOK, NEW s \in TransferStatus, row' \in {row, [row EXCEPT !.status = s]},
           events' \in {events, events \cup {s}}
    PROVE  row' \in [status: TransferStatus, txHash: Nat] /\ events' \subseteq TransferStatus
BY DEF TronTypeOK, TransferTypeOK

LEMMA MinedTypes ==
    ASSUME TronTypeOK, ChainMoves
    PROVE  /\ chain' \in Seq(Tx) /\ DOMAIN chain' = DOMAIN chain
           /\ frozen' \subseteq Resources /\ active' \in BOOLEAN
           /\ \A t \in DOMAIN chain : /\ chain'[t].purpose = chain[t].purpose
                                      /\ chain[t].state = "confirmed" => chain'[t].state = "confirmed"
<1>1. PICK t \in DOMAIN chain, s \in {"success", "reverted", "confirmed"} :
        /\ chain[t].state = IF s = "confirmed" THEN "success" ELSE "pending"
        /\ chain' = [chain EXCEPT ![t].state = s]
        /\ active' = (active \/ (s = "success" /\ chain[t].purpose = "activation"))
        /\ frozen' = CASE s = "success" /\ chain[t].purpose = "delegate" -> frozen \cup {chain[t].res}
                       [] s = "success" /\ chain[t].purpose = "reclaim" -> frozen \ {chain[t].res}
                       [] OTHER -> frozen
  BY DEF ChainMoves
<1>2. chain \in Seq(Tx) /\ frozen \subseteq Resources /\ active \in BOOLEAN
  BY DEF TronTypeOK
<1>3. chain \in [1..Len(chain) -> Tx] /\ Len(chain) \in Nat /\ DOMAIN chain = 1..Len(chain)
  BY <1>2, LenProperties, ElementOfSeq
<1>4. chain[t] \in Tx /\ [chain[t] EXCEPT !.state = s] \in Tx
  BY <1>3 DEF Tx
<1>5. chain' \in [1..Len(chain) -> Tx] /\ DOMAIN chain' = DOMAIN chain
  BY <1>1, <1>3, <1>4
<1>6. chain' \in Seq(Tx)
  BY <1>3, <1>5, SeqDef
<1>7. chain[t].purpose = "delegate" => chain[t].res \in Resources
  BY <1>4 DEF Tx, About
<1>8. frozen' \subseteq Resources /\ active' \in BOOLEAN
  BY <1>1, <1>2, <1>7
<1>9. ASSUME NEW u \in DOMAIN chain
      PROVE  /\ chain'[u].purpose = chain[u].purpose
             /\ chain[u].state = "confirmed" => chain'[u].state = "confirmed"
  <2>1. CASE u = t
    BY <1>1, <1>3, <1>4, <2>1 DEF Tx
  <2>2. CASE u # t
    BY <1>1, <1>3, <2>2
  <2> QED
    BY <2>1, <2>2
<1> QED
  BY <1>5, <1>6, <1>8, <1>9

LEMMA GrowsTypes ==
    ASSUME TronTypeOK, NEW purpose, Grows(purpose)
    PROVE  records' \subseteq Purposes \X DOMAIN chain'
<1>1. records \subseteq Purposes \X DOMAIN chain
  BY DEF TronTypeOK
<1>2. TxType \in Purposes \cup {"unresolved"}
  BY DEF TxType, Purposes
<1>3. ASSUME NEW x \in records' \ records PROVE x \in Purposes \X DOMAIN chain'
  <2>1. TxType \in Purposes
    BY <1>2, <1>3 DEF Grows
  <2>2. PICK t \in DOMAIN chain' \ DOMAIN chain : x = <<TxType, t>>
    BY DEF Grows
  <2> QED
    BY <2>1, <2>2
<1>4. records \subseteq Purposes \X DOMAIN chain'
  BY <1>1 DEF Grows
<1> QED
  BY <1>3, <1>4

LEMMA TronTypeStep == TronTypeOK /\ EngineInv' /\ [NextTron]_vars => TronTypeOK'
<1> SUFFICES ASSUME TronTypeOK, EngineInv', [NextTron]_vars PROVE TronTypeOK'
  OBVIOUS
<1>1. TypeOK'
  BY DEF EngineInv, IndInv
<1>2. CASE UNCHANGED <<trVars, req, active, frozen, chain, records>> /\ Memo'
  BY <1>1, <1>2 DEF TronTypeOK, TransferTypeOK, Memo, trVars
<1>3. CASE UNCHANGED tronVars /\ row' \in [status: TransferStatus, txHash: Nat] /\ events' \subseteq TransferStatus
  BY <1>1, <1>3 DEF TronTypeOK, TransferTypeOK, tronVars
<1>4. CASE EngineStep
  <2>1. Memo'
    BY <1>4 DEF EngineStep, TronTypeOK, Memo
  <2> QED
    BY <1>2, <1>4, <2>1 DEF EngineStep
<1>5. CASE OnFailure
  <2>1. Memo'
    BY <1>5 DEF OnFailure, TronTypeOK, Memo
  <2> QED
    BY <1>2, <1>5, <2>1 DEF OnFailure
<1>6. CASE StepFunction
  <2>1. CASE Quietly
    <3>1. Memo'
      BY <2>1 DEF Quietly, tronVars, TronTypeOK, Memo
    <3> QED
      BY <1>2, <2>1, <3>1 DEF Quietly, tronVars
  <2>2. CASE Announces
    <3>1. PICK s \in {"processing", "unconfirmed", "completed"}, r \in {"nil", "exit"} : setTransferStatus(s, r)
      BY <2>2 DEF Announces
    <3>2. row' \in {row, [row EXCEPT !.status = s]} /\ events' \in {events, events \cup {s}} /\ s \in TransferStatus
      BY <3>1 DEF setTransferStatus, TransferStatus
    <3> QED
      BY <1>3, <2>2, <3>2, RowTypes DEF Announces
  <2>3. CASE Broadcasts
    <3>1. chain' \in Seq(Tx) /\ records' \subseteq Purposes \X DOMAIN chain'
      BY <2>3, GrowsTypes DEF Broadcasts, Grows
    <3> QED
      BY <1>1, <2>3, <3>1 DEF Broadcasts, Memo, TronTypeOK, TransferTypeOK, trVars
  <2>4. CASE Pays
    <3>1. chain' \in Seq(Tx) /\ records' \subseteq Purposes \X DOMAIN chain'
      BY <2>4, GrowsTypes DEF Pays, Grows
    <3>2. Len(chain') \in Nat
      BY <3>1, LenProperties
    <3>3. row' \in [status: TransferStatus, txHash: Nat]
      BY <2>4, <3>2 DEF Pays, TronTypeOK, TransferTypeOK
    <3> QED
      BY <1>1, <2>4, <3>1, <3>3 DEF Pays, Memo, TronTypeOK, TransferTypeOK
  <2>5. CASE sendFailureEventStep
    <3>1. row' \in {row, [row EXCEPT !.status = "failed"]} /\ events' \in {events, events \cup {"failed"}}
      BY <2>5 DEF sendFailureEventStep, FailureWrites, trVars
    <3>2. "failed" \in TransferStatus /\ UNCHANGED tronVars
      BY <2>5 DEF sendFailureEventStep, TransferStatus
    <3> QED
      BY <1>3, <3>1, <3>2, RowTypes
  <2> QED
    BY <1>6, <2>1, <2>2, <2>3, <2>4, <2>5, StepData DEF DataMoves
<1>7. CASE ChainMoves
  <2>1. records' \subseteq Purposes \X DOMAIN chain' /\ UNCHANGED records
    BY <1>7, MinedTypes DEF TronTypeOK, ChainMoves
  <2>2. UNCHANGED <<trVars, req, delegateFrom, savedFrom, stateData, loaded>>
    BY <1>7 DEF ChainMoves
  <2> QED
    BY <1>1, <1>7, <2>1, <2>2, MinedTypes DEF TronTypeOK, TransferTypeOK, trVars
<1>8. CASE ActivatedByOthers
  BY <1>1, <1>8 DEF ActivatedByOthers, TronTypeOK, TransferTypeOK, trVars
<1>9. CASE UNCHANGED vars
  BY <1>1, <1>9 DEF vars, tronVars, TronTypeOK, TransferTypeOK, trVars
<1> QED
  BY <1>4, <1>5, <1>6, <1>7, <1>8, <1>9 DEF NextTron

(***************************************************************************)
(* What every step keeps of the chain and the records                      *)
(***************************************************************************)

ChainKept ==
    \A t \in DOMAIN chain :
        /\ t \in DOMAIN chain'
        /\ chain'[t].purpose = chain[t].purpose
        /\ chain[t].state = "confirmed" => chain'[t].state = "confirmed"

\* Nothing is sent.
NothingSent ==
    /\ \A type : RecordsOf(type)' = RecordsOf(type)
    /\ Payments' = Payments

LEMMA GrowsKeeps ==
    ASSUME TronTypeOK, NEW purpose, Grows(purpose)
    PROVE  /\ ChainKept
           /\ \A type : RecordsOf(type) \subseteq RecordsOf(type)'
           /\ \A type : type # TxType => RecordsOf(type)' = RecordsOf(type)
           /\ Payments \subseteq Payments'
           /\ purpose # "transfer" => Payments' = Payments
           /\ Payments' \subseteq Payments \cup (DOMAIN chain' \ DOMAIN chain)
<1>1. ChainKept /\ Payments \subseteq Payments'
  BY DEF ChainKept, Grows, Payments
<1>2. purpose # "transfer" => Payments' = Payments
  BY DEF Grows, Payments
<1>3. Payments' \subseteq Payments \cup (DOMAIN chain' \ DOMAIN chain)
  BY DEF Grows, Payments
<1>4. ASSUME NEW type PROVE RecordsOf(type) \subseteq RecordsOf(type)'
  BY DEF Grows, RecordsOf
<1>5. ASSUME NEW type, type # TxType, NEW t \in RecordsOf(type)' PROVE t \in RecordsOf(type)
  <2>1. t \in DOMAIN chain' /\ <<type, t>> \in records'
    BY DEF RecordsOf
  <2>2. <<type, t>> \in records
    BY <1>5, <2>1 DEF Grows
  <2>3. t \in DOMAIN chain
    BY <2>2 DEF TronTypeOK
  <2> QED
    BY <2>2, <2>3 DEF RecordsOf
<1>6. ASSUME NEW type, type # TxType PROVE RecordsOf(type)' = RecordsOf(type)
  <2>1. RecordsOf(type)' \subseteq RecordsOf(type)
    BY <1>5, <1>6
  <2> QED
    BY <1>4, <2>1
<1> QED
  BY <1>1, <1>2, <1>3, <1>4, <1>6

LEMMA NextKeeps ==
    ASSUME TronTypeOK, [NextTron]_vars
    PROVE  /\ ChainKept /\ UNCHANGED req
           /\ Broadcasts \/ Pays \/ NothingSent
<1>1. CASE UNCHANGED <<req, chain, records>>
  BY <1>1 DEF ChainKept, NothingSent, RecordsOf, Payments
<1>2. CASE ChainMoves
  <2>1. UNCHANGED <<req, records>> /\ DOMAIN chain' = DOMAIN chain /\ ChainKept
    BY <1>2, MinedTypes DEF ChainMoves, ChainKept
  <2>2. Payments' = Payments
    BY <2>1 DEF Payments, ChainKept
  <2>3. \A type : RecordsOf(type)' = RecordsOf(type)
    BY <2>1 DEF RecordsOf
  <2> QED
    BY <2>1, <2>2, <2>3 DEF NothingSent
<1>3. CASE StepFunction
  <2>1. CASE Broadcasts
    BY <2>1, GrowsKeeps DEF Broadcasts
  <2>2. CASE Pays
    BY <2>2, GrowsKeeps DEF Pays
  <2>3. CASE Quietly \/ Announces
    BY <1>1, <2>3 DEF Quietly, Announces, tronVars
  <2>4. CASE sendFailureEventStep
    BY <1>1, <2>4 DEF sendFailureEventStep, tronVars
  <2> QED
    BY <1>3, <2>1, <2>2, <2>3, <2>4, StepData DEF DataMoves
<1> QED
  BY <1>1, <1>2, <1>3 DEF NextTron, EngineStep, OnFailure, ActivatedByOthers, vars, tronVars

PassedKept == \A p \in 1..14 : Passed(p) => Passed(p)'

LEMMA ConfirmedStays ==
    ASSUME TronTypeOK, ChainKept, NEW type, RecordsOf(type)' = RecordsOf(type), Confirmed(RecordsOf(type))
    PROVE  Confirmed(RecordsOf(type))'
BY DEF Confirmed, ChainKept, RecordsOf

LEMMA PassedWhen ==
    ASSUME TronTypeOK, ChainKept, UNCHANGED req, RecordsOf("burn")' = RecordsOf("burn"),
           RecordsOf("delegate")' = RecordsOf("delegate")
    PROVE  PassedKept
<1>1. Confirmed(RecordsOf("burn")) => Confirmed(RecordsOf("burn"))'
  BY ConfirmedStays
<1>2. Confirmed(RecordsOf("delegate")) => Confirmed(RecordsOf("delegate"))'
  BY ConfirmedStays
<1>3. \A p : MayPass(p)' <=> MayPass(p)
  BY DEF MayPass
<1> QED
  BY <1>1, <1>2, <1>3 DEF PassedKept, Passed

\* The type of what is sent, by the furthest step.
LEMMA TypeByStep ==
    /\ CurrentStep >= 15 => TxType \notin {"burn", "delegate"}
    /\ CurrentStep # 15 => TxType # "transfer"
    /\ CurrentStep = 15 => TxType = "transfer"
    /\ TxType = "reclaim" => CurrentStep \in {16, 19, 20, 23}
BY CurrentIsFurthest DEF TxType, activate_wallet_resources, activate_wallet_burn_trx, send_trx_for_burn,
   delegate_resources, sending, reclaim_resources, reclaim_on_error, waiting_reclaim_resources_confirmations,
   waiting_for_the_first_confirmation

\* Before the payment is reached something may still be sent.
SendsEarly == Broadcasts /\ pos < 15 /\ status[15] = "unset"

\* Once the payment is reached nothing is sent before it.
LEMMA BroadcastsWhen ==
    ASSUME EngineInv, TronTypes, TronSent, Broadcasts
    PROVE  /\ status[15] # "unset" => pos \in {19, 23}
           /\ CurrentStep # 15
<1>1. /\ pc = "func" /\ pos \in {4, 7, 10, 12, 19, 23} /\ ~MayPass(pos)
      /\ status[pos] = "processing" /\ StageOf[pos] = stage
  BY DEF Broadcasts, TronTypes
<1>2. \A j \in 1..14 : (j < pos /\ pos < 15) => status[j] \in Settled
  BY <1>1, StepNumbers, StageNumbers DEF EngineInv, IndInv, Loops, InLoop
<1>3. status[15] # "unset" => JumpsAgain(status)
  BY <1>1 DEF TronSent, AheadOfPayment
<1>4. (status[15] # "unset" /\ pos < 15) => Passed(pos)
  BY <1>1, <1>2, <1>3 DEF JumpsAgain, Settled
<1>5. status[15] # "unset" => pos \in {19, 23}
  BY <1>1, <1>4 DEF Passed
<1>6. CurrentStep # 15
  BY <1>1, <1>5, CurrentIsFurthest
<1> QED
  BY <1>5, <1>6

LEMMA PassedStays ==
    ASSUME EngineInv, TronTypeOK, TronSent, [NextTron]_vars
    PROVE  PassedKept \/ SendsEarly
<1>0. TronTypes /\ ChainKept /\ UNCHANGED req
  BY TypesOf, NextKeeps
<1>1. CASE NothingSent
  BY <1>0, <1>1, PassedWhen DEF NothingSent
<1>2. ASSUME NEW purpose, Grows(purpose), CurrentStep >= 15 PROVE PassedKept
  BY <1>0, <1>2, GrowsKeeps, PassedWhen, TypeByStep
<1>3. CASE Pays
  <2>1. status[15] # "unset"
    BY <1>0, <1>3 DEF Pays, TronTypes
  <2> QED
    BY <1>2, <1>3, <2>1, CurrentIsFurthest DEF Pays
<1>4. CASE Broadcasts
  <2>1. status[pos] # "unset" /\ pos \in {4, 7, 10, 12, 19, 23}
    BY <1>0, <1>4 DEF Broadcasts, TronTypes
  <2>2. CASE status[15] # "unset" \/ pos \in {19, 23}
    BY <1>2, <1>4, <2>1, <2>2, CurrentIsFurthest DEF Broadcasts
  <2> QED
    BY <1>4, <2>1, <2>2 DEF SendsEarly
<1> QED
  BY <1>1, <1>3, <1>4, NextKeeps

LEMMA SentStep ==
    ASSUME EngineInv, TronJumps, TronResults, TronSent, Cases, PassedKept \/ SendsEarly
    PROVE  TronSent'
<1> USE DEF InLoop, Settled
<1>0. /\ TronTypes
      /\ pc = "func" => state.NextStep = 0 /\ state.NextStage = 0 /\ snapshot.state.NextStage =< stage
      /\ pc \in {"func", "post"} => snapshot.status = status
      /\ snapshot.state.NextStage \in Nat
  BY TypesOf DEF EngineInv, IndInv, Jumps, MemoryInv, None, TronTypes, WorkflowState, TronJumps
\* What is before the loops in the stage before_sending is settled.
<1>a. ASSUME InLoop, pos \in 1..14, stage = 1, NEW j \in 1..14, j < pos PROVE status[j] \in Settled
  BY <1>a, StepNumbers DEF EngineInv, IndInv, Loops
<1>b. ASSUME InLoop, stage = 1, pos >= 15, NEW j \in 1..14 PROVE status[j] \in Settled
  BY <1>0, <1>b, StepNumbers DEF EngineInv, IndInv, Loops, TronTypes
\* A step that sends something is not followed by anything that is ahead of the payment.
<1>e. CASE SendsEarly
  <2>1. /\ pc = "func" /\ status[15] = "unset" /\ snapshot.status[15] = "unset" /\ pos \in 1..14 /\ ~MayPass(pos)
        /\ state.NextStep = 0 /\ state.NextStage = 0 /\ stage = 1 /\ snapshot.state.NextStage # 2
    BY <1>0, <1>e, StageNumbers DEF SendsEarly, Broadcasts, TronTypes
  <2>2. CASE Leaves
    BY <1>0, <2>1, <2>2, LeavesFields, StateFields DEF TronSent, AheadOfPayment
  <2>3. ASSUME NEW r, Finishes(r) PROVE TronSent'
    BY <2>1, <2>3, FinishFields DEF TronSent, AheadOfPayment
  <2>4. ASSUME NEW k \in 1..25, JumpsTo(k), MayJump(k) PROVE TronSent'
    <3>1. k < 15
      BY <2>1, <2>4, MayJumpNumbers DEF Passed
    <3> QED
      BY <1>0, <2>1, <2>4, <3>1, JumpFields, StageNumbers DEF TronSent, AheadOfPayment
  <2>5. CASE UNCHANGED wfVars
    BY <2>1, <2>5 DEF wfVars, TronSent, AheadOfPayment
  <2> QED
    BY <2>1, <2>2, <2>3, <2>4, <2>5 DEF Cases, Start, ExitFinished, EnterStage, SkipStage, AtStage,
         SkipStep, BeginStep, AtStep,
       AfterStep, EndExecute, LeavesToRiver, IgnoreFailure, Redirects, RedirectFailure
<1> SUFFICES ASSUME PassedKept PROVE TronSent'
  BY <1>e
<1> USE DEF PassedKept, JumpsAgain
<1>1. CASE Start
  BY <1>0, <1>1 DEF Start, TronSent, TronTypes, AheadOfPayment
<1>2. CASE ExitFinished \/ LeavesToRiver
  BY <1>2, NeverExits DEF LeavesToRiver, IgnoreFailure, TronSent, AheadOfPayment
<1>3. CASE EnterStage
  <2>1. /\ pc = "scan" /\ pos \in 1..25 /\ StageOf[pos] # stage /\ state.NextStage \in {0, StageOf[pos]}
        /\ state'.NextStage = 0 /\ state'.NextStep = state.NextStep
        /\ stage' = StageOf[pos]
        /\ UNCHANGED <<status, snapshot, pc, pos>>
        /\ stage =< StageOf[pos]
    BY <1>0, <1>3, EnterFields, StepNumbers DEF EngineInv, IndInv, Loops
  <2>2. (pos = 15 /\ stage = 0) => state.NextStage = 2
    BY <1>0, <2>1, StageNumbers DEF TronJumps
  <2>3. CASE stage = 1
    BY <1>b, <2>1, <2>3, StageNumbers DEF TronSent, AheadOfPayment
  <2>4. CASE stage # 1
    BY <2>1, <2>2, <2>4, StageNumbers, <1>0 DEF TronSent, AheadOfPayment, TronTypes
  <2> QED
    BY <2>3, <2>4
<1>4. CASE SkipStage
  <2>1. /\ pc = "scan" /\ state.NextStage # 0
        /\ pos' = pos + 1 /\ UNCHANGED <<status, state, snapshot, pc, stage, result, skipError>>
    BY <1>4, StepNumbers DEF SkipStage, AtStage, None
  <2>2. state.NextStep \in {15, 22}
    BY <2>1, StageNumbers DEF TronJumps, JumpShape
  <2> QED
    BY <1>0, <2>1, <2>2 DEF TronSent, AheadOfPayment
<1>5. CASE SkipStep
  <2>1. /\ pc = "scan" /\ pc' = "scan" /\ pos \in 1..25 /\ StageOf[pos] = stage
        /\ pos' = pos + 1
        /\ state'.NextStage = state.NextStage
        /\ state'.NextStep = IF state.NextStep = pos THEN 0 ELSE state.NextStep
        /\ UNCHANGED <<snapshot, stage>>
        /\ \A i \in 1..25 : i # pos => status'[i] = status[i]
        /\ state.NextStep # 0 => pos =< state.NextStep
    BY <1>0, <1>5, SkipFields DEF TronJumps
  <2>2. CASE status[pos] \in Settled
    <3>1. status'[pos] = status[pos]
      BY <1>0, <1>5, <2>2, SkipFields
    <3> QED
      BY <2>1, <2>2, <3>1 DEF TronSent, AheadOfPayment
  <2>3. CASE status[pos] \notin Settled
    <3>1. state.NextStep \notin {0, pos} /\ status'[pos] = "skipped"
      BY <1>0, <1>5, <2>3, SkipFields
    <3>2. status'[15] # "unset" => state.NextStep \notin 2..14
      BY <1>0, <2>1, <3>1 DEF TronSent, TronTypes
    <3>3. CASE pos >= 15
      BY <2>1, <2>3, <3>1, <3>2, <3>3, StageNumbers DEF TronSent, AheadOfPayment
    <3>4. CASE pos < 15 /\ AheadOfPayment /\ ~(stage = 1 /\ state.NextStage = 2)
      <4>1. stage = 1 /\ \A j \in 1..14 : j < pos => status[j] \in Settled
        BY <1>a, <2>1, <3>4, StageNumbers
      <4>2. status[15] # "unset"
        BY <3>4, <4>1 DEF AheadOfPayment
      <4>3. state.NextStep \notin 2..14 /\ state.NextStep # 22 /\ state.NextStep # 15
        BY <2>1, <3>4, <4>1, <4>2 DEF TronSent, TronJumps
      <4>4. state.NextStep \in {19, 21, 23, 25}
        BY <3>1, <4>3 DEF TronJumps, JumpShape
      <4>5. \A j \in 1..14 : j < pos + 1 => status'[j] \in Settled
        BY <2>1, <3>1, <3>4, <4>1
      <4> QED
        BY <2>1, <3>1, <3>2, <4>4, <4>5 DEF TronSent
    <3>5. CASE pos < 15 /\ ~(AheadOfPayment /\ ~(stage = 1 /\ state.NextStage = 2))
      BY <2>1, <3>1, <3>2, <3>5 DEF TronSent, AheadOfPayment
    <3> QED
      BY <2>1, <3>3, <3>4, <3>5
  <2> QED
    BY <2>2, <2>3
<1>6. CASE BeginStep
  <2>1. /\ pc = "scan" /\ pos \in 1..25 /\ StageOf[pos] = stage /\ status[pos] \notin Settled
        /\ state.NextStage = 0 /\ state.NextStep \in {0, pos}
        /\ state'.NextStage = 0 /\ state'.NextStep = 0
        /\ UNCHANGED <<pos, stage>>
        /\ \A i \in 1..25 : i # pos => status'[i] = status[i]
        /\ pc' \in {"func", "end"} /\ status'[pos] \in {"processing", "failed"}
        /\ \/ snapshot' = [status |-> status', state |-> state']
           \/ UNCHANGED snapshot
    BY <1>0, <1>6, BeginFields
  <2>2. status[15] # "unset" \/ pos = 15 => JumpsAgain(status)
    <3>1. status[15] # "unset" \/ pos = 15 => AheadOfPayment /\ ~(stage = 1 /\ state.NextStage = 2)
      BY <2>1, StageNumbers DEF AheadOfPayment
    <3>2. state.NextStep \in {19, 21, 23, 25} => pos >= 19
      BY <2>1
    <3> QED
      BY <2>1, <3>1, <3>2 DEF TronSent
  <2>3. status[15] # "unset" \/ pos = 15 => JumpsAgain(status)'
    BY <2>1, <2>2
  <2>4. snapshot'.state.NextStage = 2 \/ snapshot'.status[15] # "unset" => JumpsAgain(snapshot.status)'
    BY <2>1, <2>3 DEF TronSent
  <2> QED
    BY <2>1, <2>3, <2>4, StageNumbers DEF TronSent, AheadOfPayment
<1>7. CASE AfterStep
  <2>1. /\ pc = "post" /\ pos \in 1..25 /\ StageOf[pos] = stage /\ status[pos] = "processing"
        /\ UNCHANGED <<state, stage>>
        /\ snapshot' = [status |-> status, state |-> state] \/ UNCHANGED snapshot
        /\ \A i \in 1..25 : i # pos => status'[i] = status[i]
        /\ \/ pc' = "scan" /\ pos' = pos + 1 /\ result = "nil" /\ status'[pos] = "completed"
           \/ pc' \in {"return", "end"} /\ pos' = pos /\ status'[pos] = "failed"
    BY <1>0, <1>7, AfterFields DEF TronResults
  <2>2. AheadOfPayment => JumpsAgain(status)
    BY <2>1 DEF TronSent
  <2>3. (snapshot'.state.NextStage = 2 \/ snapshot'.status[15] # "unset") => JumpsAgain(snapshot.status)'
    BY <2>1, <2>2 DEF TronSent, AheadOfPayment
  <2>4. /\ snapshot'.status[15] # "unset" => snapshot'.state.NextStep \notin 2..14
        /\ status'[15] # "unset" => state'.NextStep \notin 2..14
    BY <2>1 DEF TronSent
  <2>5. CASE AheadOfPayment
    <3>1. CASE pc' = "scan" /\ pos < 15
      <4>1. Passed(pos)
        BY <1>a, <2>1, <2>2, <2>5, <3>1, StageNumbers
      <4>2. state.NextStage = 2
        BY <2>1, <3>1, <4>1 DEF TronResults, Passed
      <4>3. stage = 1
        BY <2>1, <3>1, StageNumbers
      <4> QED
        BY <2>1, <2>3, <2>4, <3>1, <4>2, <4>3 DEF TronSent
    <3>2. CASE pos >= 15
      <4>1. JumpsAgain(status)'
        BY <2>1, <2>2, <2>5, <3>2
      <4> QED
        BY <2>3, <2>4, <4>1 DEF TronSent
    <3>3. CASE pc' # "scan" /\ pos < 15
      <4>1. JumpsAgain(status)'
        BY <2>1, <2>2, <2>5, <3>3
      <4> QED
        BY <2>3, <2>4, <4>1 DEF TronSent
    <3> QED
      BY <2>1, <3>1, <3>2, <3>3
  <2>6. CASE ~AheadOfPayment
    <3>1. ~AheadOfPayment'
      BY <2>1, <2>6 DEF AheadOfPayment
    <3> QED
      BY <2>3, <2>4, <3>1 DEF TronSent
  <2> QED
    BY <2>5, <2>6
<1>8. CASE EndExecute
  <2>1. /\ pc = "end" \/ (pc = "scan" /\ pos = 26)
        /\ state'.NextStage = state.NextStage /\ state'.NextStep = state.NextStep
        /\ UNCHANGED <<status, pos, stage>> /\ pc' \in {"return", "failure"}
        /\ snapshot' = [status |-> status, state |-> state'] \/ UNCHANGED snapshot
    BY <1>0, <1>8, EndFields
  <2>2. pc = "scan" => state.NextStep = 0 /\ state.NextStage = 0
    BY <2>1 DEF TronJumps, JumpShape
  <2>3. state.NextStage = 2 \/ status[15] # "unset" => JumpsAgain(status)
    BY <2>1, <2>2 DEF TronSent, AheadOfPayment
  <2> QED
    BY <2>1, <2>3 DEF TronSent, AheadOfPayment
<1>9. CASE Leaves
  BY <1>0, <1>9, LeavesFields, StateFields DEF TronSent, AheadOfPayment
<1>10. ASSUME NEW r, Finishes(r) PROVE TronSent'
  BY <1>0, <1>10, FinishFields DEF TronSent, AheadOfPayment
<1>11. ASSUME NEW k \in 1..25, JumpsTo(k), MayJump(k) PROVE TronSent'
  <2>1. /\ pc = "func" /\ pc' = "post" /\ state'.NextStep = k
        /\ state'.NextStage = IF StageOf[k] = StageOf[pos] THEN 0 ELSE StageOf[k]
        /\ UNCHANGED <<status, snapshot, pos, stage>>
        /\ pos \in 1..25 /\ StageOf[pos] = stage /\ status[pos] = "processing"
    BY <1>0, <1>11, JumpFields DEF TronTypes
  <2>2. pos < 15 => stage = 1 /\ \A j \in 1..14 : j < pos => status[j] \in Settled
    BY <1>a, <2>1, StageNumbers
  <2>3. (status[15] # "unset" /\ pos < 15) => Passed(pos)
    BY <2>1, <2>2 DEF TronSent, AheadOfPayment
  <2>4. k \in 2..14 => pos < 15 /\ ~Passed(pos)
    BY <1>11, <2>1, MayJumpNumbers DEF Passed
  <2>5. state'.NextStage = 2 => pos < 15 /\ Passed(pos)
    BY <1>11, <2>1, MayJumpNumbers, StageNumbers
  <2>6. state'.NextStage = 2 => JumpsAgain(status)'
    <3>1. ASSUME pos < 15, Passed(pos), NEW i \in 1..14, status[i] \notin Settled,
                 \A j \in 1..14 : j < i => status[j] \in Settled
          PROVE  Passed(i)'
      <4>1. i = pos
        BY <2>1, <2>2, <3>1
      <4> QED
        BY <3>1, <4>1
    <3> QED
      BY <2>1, <2>5, <3>1
  <2>7. status[15] # "unset" \/ stage = 2 => JumpsAgain(status)'
    BY <2>1 DEF TronSent, AheadOfPayment
  <2>8. /\ snapshot'.state.NextStage = 2 \/ snapshot'.status[15] # "unset" => JumpsAgain(snapshot.status)'
        /\ snapshot'.status[15] # "unset" => snapshot'.state.NextStep \notin 2..14
    BY <2>1 DEF TronSent
  <2>9. AheadOfPayment' => JumpsAgain(status)'
    BY <2>1, <2>6, <2>7 DEF AheadOfPayment
  <2> QED
    BY <2>1, <2>3, <2>4, <2>8, <2>9 DEF TronSent
<1>12. CASE StepGivesUp
  BY <1>0, <1>12, GivesUpFields, StateFields DEF TronSent, AheadOfPayment
<1>13. CASE Redirects
  BY <1>0, <1>13, RedirectFields DEF TronSent, AheadOfPayment
<1>14. CASE UNCHANGED wfVars
  BY <1>14 DEF wfVars, TronSent, AheadOfPayment
<1> QED
  BY <1>1, <1>2, <1>3, <1>4, <1>5, <1>6, <1>7, <1>8, <1>9, <1>10, <1>11, <1>12, <1>13, <1>14 DEF Cases

LEMMA EndsStep ==
    ASSUME EngineInv, TronJumps, TronResults, TronWay, TronSent, TronEnds, Cases
    PROVE  TronEnds'
<1> USE DEF InLoop, Begun
<1>0. /\ TronTypes
      /\ pc = "func" => state.NextStep = 0
      /\ pc \in {"func", "post"} => snapshot.status = status
  BY TypesOf DEF EngineInv, MemoryInv, TronJumps
<1>1. CASE Start
  BY <1>0, <1>1 DEF Start, TronEnds, TronTypes
<1>2. CASE ExitFinished \/ LeavesToRiver
  BY <1>2, NeverExits DEF LeavesToRiver, IgnoreFailure, TronEnds
<1>3. CASE EnterStage
  BY <1>0, <1>3, EnterFields DEF TronEnds
<1>4. CASE SkipStage
  <2>1. /\ pc = "scan" /\ state.NextStage \notin {0, StageOf[pos]} /\ pos \in 1..25
        /\ pos' = pos + 1 /\ UNCHANGED <<status, state, snapshot, pc, stage, result, skipError>>
    BY <1>4, StepNumbers DEF SkipStage, AtStage, None
  <2>2. (state.NextStep = 15 /\ pos =< 15) \/ state.NextStep = 22
    BY <2>1, StageNumbers DEF TronJumps, JumpShape
  <2> QED
    BY <1>0, <2>1, <2>2 DEF TronEnds
<1>5. CASE SkipStep
  <2>1. pos # 21 \/ status[21] \notin Begun
    <3> SUFFICES ASSUME pos = 21, status[21] \in Begun PROVE FALSE
      OBVIOUS
    <3>1. status[21] \notin Settled
      BY DEF TronEnds, Settled
    <3>2. pc = "scan" /\ state.NextStep \notin {0, 21}
      BY <1>0, <1>5, <3>1, SkipFields
    <3>3. state.NextStep =< 21 /\ state.NextStep \in Nat
      BY <1>0 DEF TronEnds, TronTypes, WorkflowState
    <3> QED
      BY <3>2, <3>3 DEF TronJumps
  <2> QED
    BY <1>0, <1>5, <2>1, SkipFields DEF TronEnds, Settled
<1>6. CASE BeginStep
  BY <1>0, <1>6, BeginFields DEF TronEnds
<1>7. CASE AfterStep
  BY <1>0, <1>7, AfterFields DEF TronEnds, TronResults
<1>8. CASE EndExecute
  BY <1>0, <1>8, EndFields DEF TronEnds
<1>9. CASE Leaves
  BY <1>0, <1>9, LeavesFields, StateFields DEF TronEnds
<1>10. ASSUME NEW r \in {"nil", "snooze", "error", "exit"}, Finishes(r) PROVE TronEnds'
  BY <1>0, <1>10, FinishFields DEF TronEnds
<1>11. CASE Finishes("failed") /\ pos \notin {15, 21, 22, 25} /\ ~Passed(pos)
  <2>1. pc = "func" /\ pos \in 1..25 /\ status[pos] = "processing"
    BY <1>0, <1>11, FinishFields DEF TronTypes
  <2>2. ASSUME status[21] \in Begun PROVE FALSE
    <3>1. pos =< 21 /\ \A i \in 15..17 : status[i] = "completed"
      BY <2>1, <2>2 DEF TronEnds, TronWay, MainInTurn, Main
    <3>2. pos < 15
      <4>1. \A i \in 18..20 : status[i] \in Settled
        BY <2>2, StepNumbers DEF EngineInv, OrderInv, StageOrder
      <4> QED
        BY <1>11, <2>1, <3>1, <4>1 DEF Settled
    <3>3. \A j \in 1..14 : j < pos => status[j] \in Settled
      BY <1>0, <2>1, <3>2, StepNumbers, StageNumbers DEF EngineInv, IndInv, Loops, TronTypes
    <3>4. JumpsAgain(status)
      BY <2>1, <3>1 DEF TronSent, AheadOfPayment
    <3>5. Passed(pos)
      BY <2>1, <3>2, <3>3, <3>4 DEF JumpsAgain, Settled
    <3> QED
      BY <1>11, <3>5
  <2> QED
    BY <1>0, <1>11, <2>2, FinishFields DEF TronEnds
<1>12. ASSUME NEW k \in 1..25, JumpsTo(k), MayJump(k) PROVE TronEnds'
  BY <1>0, <1>12, JumpFields, MayJumpNumbers DEF TronEnds
<1>13. CASE StepGivesUp /\ pos = 25
  BY <1>0, <1>13, GivesUpFields, StateFields DEF TronEnds
<1>14. CASE Redirects
  BY <1>0, <1>14, RedirectFields DEF TronEnds
<1>15. CASE UNCHANGED wfVars
  BY <1>15 DEF wfVars, TronEnds
<1> QED
  BY <1>1, <1>2, <1>3, <1>4, <1>5, <1>6, <1>7, <1>8, <1>9, <1>10, <1>11, <1>12, <1>13, <1>14, <1>15 DEF Cases

(***************************************************************************)
(* The payment that the row names                                          *)
(***************************************************************************)

\* The payments with a record.
Recorded == RecordsOf("transfer")

\* A payment is recorded under its type only while no later step was reached; a
\* failure of the transfer comes before every payment, or after the completed step.
TronPayment ==
    /\ Recorded # {} => snapshot.status[15] # "unset"
    /\ (req.kind = "resources"
          /\ (snapshot.state.CustomError \/ (result = "failed" /\ pc \in {"post", "end", "failure"}))) =>
            Recorded = {} \/ snapshot.status[15] = "completed"
    /\ Done(15) => row.txHash \in Payments /\ (Recorded = {} \/ row.txHash \in Recorded)
    /\ Done(17) => Recorded = {row.txHash} /\ chain[row.txHash].state = "confirmed"
    /\ row.status = "completed" =>
            snapshot.status[15] = "completed" /\ row.txHash \in Payments /\ chain[row.txHash].state = "confirmed"

LEMMA StepAt ==
    ASSUME StepFunction
    PROVE  /\ pc = "func"
           /\ pos = 9 => beforeSendingCheckTransferKind
           /\ pos = 12 => delegateResources
           /\ pos = 15 => sendingStep
           /\ pos = 17 => waitingConfirmations
           /\ pos = 18 => afterSendingCheckTransferKind
           /\ pos = 19 => reclaimResources
           /\ pos = 20 => waitingReclaimResourcesConfirmations
<1>1. /\ (validateRequest => InStep(1)) /\ (checkActivateWallet => InStep(2))
      /\ (beforeActivationCheckTransferKind => InStep(3)) /\ (activateWalletResources => InStep(4))
      /\ (waitingResourcesActivateWalletConfirmations => InStep(5))
      /\ (waitingExternalActivateWalletConfirmations => InStep(6))
      /\ (activateWalletBurnTRX => InStep(7))
  BY DEF validateRequest, checkActivateWallet, beforeActivationCheckTransferKind, activateWalletResources,
     waitingResourcesActivateWalletConfirmations, waitingExternalActivateWalletConfirmations,
     activateWalletBurnTRX, validate_request, check_activate_wallet,
     before_activation_check_transfer_kind, activate_wallet_resources,
     waiting_resources_activate_wallet_confirmations, waiting_external_activate_confirmations,
     activate_wallet_burn_trx
<1>2. /\ (waitingActivateWalletConfirmations => InStep(8)) /\ (beforeSendingCheckTransferKind => InStep(9))
      /\ (sendTRXForBurn => InStep(10)) /\ (waitingSendBurnTrxConfirmations => InStep(11))
      /\ (delegateResources => InStep(12)) /\ (waitingDelegateConfirmations => InStep(13))
      /\ (waitingExternalDelegateResources => InStep(14))
  BY DEF waitingActivateWalletConfirmations, beforeSendingCheckTransferKind, sendTRXForBurn,
     waitingSendBurnTrxConfirmations, delegateResources, waitingDelegateConfirmations,
     waitingExternalDelegateResources, waiting_activate_confirmations,
     before_sending_check_transfer_kind, send_trx_for_burn, waiting_send_trx_for_burn_confirmations,
     delegate_resources, waiting_delegate_confirmations, waiting_external_delegate_confirmations
<1>3. /\ (sendingStep => InStep(15)) /\ (waitingForTheFirstConfirmation => InStep(16))
      /\ (waitingConfirmations => InStep(17)) /\ (afterSendingCheckTransferKind => InStep(18))
      /\ (reclaimResources => InStep(19)) /\ (waitingReclaimResourcesConfirmations => InStep(20))
      /\ (sendSuccessEvent => InStep(21))
  BY DEF sendingStep, waitingForTheFirstConfirmation, waitingConfirmations, afterSendingCheckTransferKind,
     reclaimResources, waitingReclaimResourcesConfirmations, sendSuccessEvent, sending,
     waiting_for_the_first_confirmation, waiting_confirmations, after_sending_check_transfer_kind,
     reclaim_resources, waiting_reclaim_resources_confirmations, send_success_event
<1>4. /\ (determineCompensationFlow => InStep(22)) /\ (reclaimOnError => InStep(23))
      /\ (waitingReclaimOnErrorConfirmations => InStep(24)) /\ (sendFailureEventStep => InStep(25))
  BY DEF determineCompensationFlow, reclaimOnError, waitingReclaimOnErrorConfirmations, sendFailureEventStep,
     determine_compensation_flow, reclaim_on_error, waiting_reclaim_on_error_confirmation,
     send_failure_event
<1> QED
  BY <1>1, <1>2, <1>3, <1>4 DEF StepFunction, InStep

LEMMA OnlyFunctionsReturn ==
    ASSUME [NextTron]_vars, pc = "func", pc' = "post"
    PROVE  StepFunction
BY DEF NextTron, EngineStep, Engine, Start, ExitFinished, EnterStage, SkipStage, AtStage, SkipStep, BeginStep, AtStep,
   AfterStep, EndExecute, ReturnToRiver, Crash, Forget, OnFailure, RedirectFailure, IgnoreFailure,
   ChainMoves, ActivatedByOthers, wfVars, vars

\* The step sending succeeds with a payment only.
LEMMA PaidWhenNil ==
    ASSUME TronTypeOK, [NextTron]_vars, pc = "func", pos = 15, pc' = "post", result' = "nil"
    PROVE  Pays
<1>1. sendingStep
  BY OnlyFunctionsReturn, StepAt
<1>2. ~Returns("error")
  BY DEF Returns, Return
<1> QED
  BY <1>1, <1>2, PaymentData

\* The wait for the payment succeeds when there is one record, of a confirmed payment.
LEMMA AwaitedPayment ==
    ASSUME TronTypeOK, [NextTron]_vars, pc = "func", pos = 17, pc' = "post", result' = "nil"
    PROVE  Quietly /\ \E t \in DOMAIN chain : Recorded = {t} /\ chain[t].state = "confirmed"
<1>1. waitingConfirmations
  BY OnlyFunctionsReturn, StepAt
<1>2. /\ \A r \in {"error", "snooze", "failed"} : ~Returns(r)
      /\ ~Abort
  BY DEF Returns, Return, Abort, Forget
<1>3. Cardinality(Recorded) = 1 /\ Confirmed(Recorded) /\ Quietly
  BY <1>1, <1>2 DEF waitingConfirmations, StepWhFails, AwaitOne, Unconfirmed, Recorded
<1>4. IsFiniteSet(Recorded)
  <2>1. chain \in Seq(Tx)
    BY DEF TronTypeOK
  <2>2. DOMAIN chain = 1..Len(chain) /\ Len(chain) \in Nat
    BY <2>1, LenProperties
  <2>3. Recorded \subseteq 1..Len(chain)
    BY <2>2 DEF Recorded, RecordsOf
  <2>4. IsFiniteSet(1..Len(chain))
    BY <2>2, FS_Interval
  <2> QED
    BY <2>3, <2>4, FS_Subset
<1>5. PICK t : Recorded = {t}
  BY <1>3, <1>4, FS_Singleton
<1>6. t \in DOMAIN chain /\ chain[t].state = "confirmed"
  BY <1>3, <1>5 DEF Confirmed, Recorded, RecordsOf
<1> QED
  BY <1>3, <1>5, <1>6

\* Which steps write the row and announce a status.
Writes(p, s) ==
    /\ pc = "func" /\ pos = p
    /\ row' \in {row, [row EXCEPT !.status = s]}
    /\ events' \in {events, events \cup {s}}
    /\ ~Pays

LEMMA RowWriters ==
    ASSUME TronTypeOK, [NextTron]_vars, ~Pays, ~UNCHANGED trVars
    PROVE  Announces \/ (pc = "func" /\ pos = 25 /\ sendFailureEventStep)
<1>1. StepFunction
  BY DEF NextTron, EngineStep, OnFailure, ChainMoves, ActivatedByOthers, vars
<1> QED
  BY <1>1, StepData DEF DataMoves, Quietly, Broadcasts

LEMMA RowMoves ==
    ASSUME TronTypeOK, [NextTron]_vars
    PROVE  \/ UNCHANGED trVars /\ ~Pays
           \/ Pays
           \/ Writes(1, "processing") \/ Writes(16, "unconfirmed") \/ Writes(21, "completed") \/ Writes(25, "failed")
<1> SUFFICES ASSUME ~Pays, ~UNCHANGED trVars
             PROVE  Writes(1, "processing") \/ Writes(16, "unconfirmed") \/ Writes(21, "completed") \/ Writes(25, "failed")
  OBVIOUS
<1>2. Announces \/ (pc = "func" /\ pos = 25 /\ sendFailureEventStep)
  BY RowWriters
<1>3. CASE Announces
  BY <1>3 DEF Announces, setTransferStatus, Writes
<1>4. CASE pc = "func" /\ pos = 25 /\ sendFailureEventStep
  BY <1>4 DEF sendFailureEventStep, FailureWrites, Writes, trVars
<1> QED
  BY <1>2, <1>3, <1>4

LEMMA RowFields ==
    ASSUME TronTypeOK, [NextTron]_vars
    PROVE  /\ row'.txHash = row.txHash \/ Pays
           /\ row'.status = row.status \/ (row'.status = "completed" => pc = "func" /\ pos = 21 /\ ~Pays)
<1>1. row \in [status: TransferStatus, txHash: Nat]
  BY DEF TronTypeOK, TransferTypeOK
<1>2. ASSUME NEW s, row' = [row EXCEPT !.status = s] PROVE row'.txHash = row.txHash /\ row'.status = s
  BY <1>1, <1>2
<1>3. Pays => row'.status = row.status
  BY <1>1 DEF Pays
<1> QED
  BY <1>2, <1>3, RowMoves DEF Writes, trVars

\* When the payment is sent nothing after it was begun, except the stage compensate.
LEMMA AtPayment ==
    ASSUME EngineInv, TronJumps, TronWay, TronCompensation, pc = "func", pos = 15
    PROVE  /\ status[15] = "processing" /\ snapshot.status = status
           /\ ~Done(15) /\ ~Done(17)
           /\ CurrentStep \in {15, 22, 23, 24, 25}
           /\ CurrentStep = 15 => ~snapshot.state.CustomError /\ snapshot.state.NextStage # 4
           /\ CurrentStep = 23 => req.kind = "resources" /\ snapshot.state.CustomError
<1> USE DEF Settled, Begun, Main
<1>1. /\ TronTypes /\ status[15] = "processing" /\ snapshot.status = status /\ state.NextStep = 0
      /\ \A i \in 1..25 : status[i] \in StepStatus
  BY TypesOf DEF EngineInv, MemoryInv, TronTypes, TronJumps
<1>2. \A j \in 16..21 : status[j] \notin Begun
  BY <1>1 DEF TronWay, MainInTurn
<1>3. status[16] # "skipped" /\ status[17] # "skipped"
  BY <1>1 DEF TronWay, AllSettled
<1>4. status[16] = "unset" /\ status[17] = "unset"
  BY <1>1, <1>2, <1>3 DEF StepStatus
<1>5. \A j \in 18..21 : status[j] = "unset"
  BY <1>4, StepNumbers DEF EngineInv, OrderInv, StageOrder
<1>6. CurrentStep \in {15, 22, 23, 24, 25}
  BY <1>1, <1>4, <1>5, CurrentIsFurthest
<1>7. ~Done(15) /\ ~Done(17)
  BY <1>1, <1>4 DEF Done
<1>8. CurrentStep = 15 => ~snapshot.state.CustomError /\ snapshot.state.NextStage # 4
  BY <1>1, CurrentIsFurthest DEF TronCompensation
<1>9. ASSUME CurrentStep = 23 PROVE req.kind = "resources" /\ snapshot.state.CustomError
  <2>1. status[25] = "unset" /\ status[23] # "unset"
    BY <1>1, <1>9, CurrentIsFurthest
  <2>2. status[23] \in Begun
    BY <1>1, <2>1 DEF TronCompensation, Compensation, StepStatus
  <2> QED
    BY <1>1, <2>2 DEF TronCompensation, Compensation
<1> QED
  BY <1>1, <1>6, <1>7, <1>8, <1>9

TronFlow == TronTypeOK /\ TronJumps /\ TronResults /\ TronWay /\ TronCompensation /\ TronSent /\ TronEnds

LEMMA NextCases == [NextTron]_vars => Cases /\ [Next]_wfVars
BY TronMoves, MovesAreCases, MovesAreNext

\* A step function fails the transfer before the payment, after its completion, or
\* in the reclaim of the stage compensate.
LEMMA FailsWhen ==
    ASSUME EngineInv, TronFlow, Finishes("failed"), pos \notin {15, 21, 22, 25}, ~Passed(pos)
    PROVE  \/ snapshot.status[15] = "unset" \/ snapshot.status[15] = "completed"
           \/ req.kind = "resources" /\ snapshot.state.CustomError
<1> USE DEF Settled, Begun, Main
<1>1. /\ TronTypes /\ pc = "func" /\ pos \in 1..25 /\ status[pos] = "processing" /\ snapshot.status = status
      /\ state.NextStep = 0
  BY TypesOf DEF EngineInv, MemoryInv, TronTypes, TronFlow, TronJumps, Finishes
<1>2. CASE pos < 15
  <2>1. \A j \in 1..14 : j < pos => status[j] \in Settled
    BY <1>1, <1>2, StepNumbers, StageNumbers DEF EngineInv, IndInv, Loops, InLoop, TronTypes
  <2>2. status[15] # "unset" => JumpsAgain(status)
    BY <1>1 DEF TronFlow, TronSent, AheadOfPayment
  <2>3. status[15] # "unset" => Passed(pos)
    BY <1>1, <1>2, <2>1, <2>2 DEF JumpsAgain
  <2> QED
    BY <1>1, <2>3
<1>3. CASE pos \in 16..20
  BY <1>1, <1>3 DEF TronFlow, TronWay, MainInTurn
<1>4. CASE pos \in {23, 24}
  <2>1. status[23] \in Begun
    <3>1. CASE pos = 23
      BY <1>1, <3>1
    <3>2. CASE pos = 24
      <4>1. status[23] \in Settled
        BY <1>1, <3>2, StepNumbers DEF EngineInv, OrderInv, StageOrder
      <4>2. status[25] = "unset"
        BY <1>1, <3>2, StepNumbers DEF EngineInv, OrderInv, StageOrder
      <4>3. status[23] # "skipped"
        BY <1>1, <4>2 DEF TronFlow, TronCompensation, Compensation
      <4> QED
        BY <4>1, <4>3
    <3> QED
      BY <1>4, <3>1, <3>2
  <2> QED
    BY <1>1, <2>1 DEF TronFlow, TronCompensation, Compensation
<1> QED
  BY <1>1, <1>2, <1>3, <1>4

\* Where the knowledge of a failure comes from.
LEMMA FailureKnown ==
    ASSUME EngineInv, TronFlow, Cases,
           snapshot'.state.CustomError \/ (result' = "failed" /\ pc' \in {"post", "end", "failure"})
    PROVE  \/ snapshot.state.CustomError \/ (result = "failed" /\ pc \in {"post", "end", "failure"})
           \/ Finishes("failed") /\ pos \notin {15, 21, 22, 25} /\ ~Passed(pos)
<1> SUFFICES ASSUME ~snapshot.state.CustomError, ~(result = "failed" /\ pc \in {"post", "end", "failure"}),
                    ~(Finishes("failed") /\ pos \notin {15, 21, 22, 25} /\ ~Passed(pos))
             PROVE  FALSE
  OBVIOUS
<1>0. /\ TronTypes /\ TronJumps /\ TronResults /\ TronWay /\ TronCompensation
      /\ pc \in {"scan", "func", "post", "end", "failure"} => ~state.CustomError
  BY TypesOf DEF TronFlow, TronCompensation
<1>1. CASE Start
  BY <1>0, <1>1 DEF Start, TronTypes
<1>2. CASE ExitFinished \/ LeavesToRiver
  BY <1>2, NeverExits, <1>0 DEF LeavesToRiver, IgnoreFailure
<1>3. CASE EnterStage
  BY <1>0, <1>3, EnterFields
<1>4. CASE SkipStage
  BY <1>0, <1>4 DEF SkipStage, AtStage
<1>5. CASE SkipStep
  BY <1>0, <1>5, SkipFields
<1>6. CASE BeginStep
  BY <1>0, <1>6, BeginFields
<1>7. CASE AfterStep
  BY <1>0, <1>7, AfterFields DEF TronResults
<1>8. CASE EndExecute
  BY <1>0, <1>8, EndFields
<1>9. CASE Leaves
  BY <1>0, <1>9, LeavesFields, StateFields
<1>10. ASSUME NEW r \in {"nil", "snooze", "error", "exit"}, Finishes(r) PROVE FALSE
  BY <1>0, <1>10, FinishFields
<1>12. ASSUME NEW k \in 1..25, JumpsTo(k) PROVE FALSE
  BY <1>0, <1>12, JumpFields
<1>13. CASE StepGivesUp
  BY <1>0, <1>13, GivesUpFields, StateFields
<1>14. CASE Redirects
  <2>1. ~(state.CustomError \/ result = "failed")
    BY <1>0, <1>14, RedirectFields
  <2>2. /\ state'.CustomError = (state.CustomError \/ result = "failed")
        /\ pc' = "return"
        /\ snapshot' = [status |-> status, state |-> state'] \/ UNCHANGED snapshot
    BY <1>0, <1>14, RedirectFields
  <2>3. ~state'.CustomError
    BY <2>1, <2>2
  <2> QED
    BY <2>2, <2>3
<1>15. CASE UNCHANGED wfVars
  BY <1>15 DEF wfVars
<1> QED
  BY <1>1, <1>2, <1>3, <1>4, <1>5, <1>6, <1>7, <1>8, <1>9, <1>10, <1>12, <1>13, <1>14, <1>15 DEF Cases

LEMMA PaymentStep ==
    ASSUME EngineInv, TronFlow, TronPayment, [NextTron]_vars
    PROVE  TronPayment'
<1>0. /\ TronTypeOK /\ TronTypes /\ Cases /\ [Next]_wfVars /\ ChainKept /\ UNCHANGED req
      /\ TronJumps /\ TronWay /\ TronCompensation /\ TronSent /\ 15 \in Steps /\ 17 \in Steps
  BY TypesOf, NextCases, NextKeeps, StepNumbers DEF TronFlow
<1>k. /\ snapshot.status[15] # "unset" => snapshot'.status[15] # "unset"
      /\ snapshot.status[15] = "completed" => snapshot'.status[15] = "completed"
  BY <1>0, SnapshotKeeps DEF Settled
<1>p. Payments \subseteq Payments'
  BY <1>0 DEF ChainKept, Payments
\* Records of payments appear when the step sending is the current step only.
<1>r. CASE ~Pays
  <2>1. Recorded' = Recorded
    <3>1. CASE NothingSent
      BY <3>1 DEF NothingSent, Recorded
    <3>2. CASE Broadcasts
      <4>1. "transfer" # TxType
        BY <1>0, <3>2, BroadcastsWhen, TypeByStep
      <4> QED
        BY <1>0, <3>2, <4>1, GrowsKeeps DEF Broadcasts, Recorded
    <3> QED
      BY <1>0, <1>r, <3>1, <3>2, NextKeeps
  <2>2. row'.txHash = row.txHash
    BY <1>0, <1>r, RowFields
  <2>3. Recorded' # {} => snapshot'.status[15] # "unset"
    BY <1>k, <2>1 DEF TronPayment
  <2>4. ASSUME req.kind = "resources", snapshot'.state.CustomError \/ (result' = "failed" /\ pc' \in {"post", "end", "failure"})
        PROVE  Recorded' = {} \/ snapshot'.status[15] = "completed"
    <3>1. \/ snapshot.state.CustomError \/ (result = "failed" /\ pc \in {"post", "end", "failure"})
          \/ snapshot.status[15] = "unset" \/ snapshot.status[15] = "completed"
      BY <1>0, <2>4, FailureKnown, FailsWhen
    <3> QED
      BY <1>k, <2>1, <2>4, <3>1 DEF TronPayment
  <2>5. ASSUME Done(15) PROVE row'.txHash \in Payments' /\ (Recorded' = {} \/ row'.txHash \in Recorded')
    BY <1>p, <2>1, <2>2, <2>5 DEF TronPayment
  <2>6. ~(pc = "func" /\ pos = 15 /\ pc' = "post" /\ result' = "nil")
    BY <1>0, <1>r, PaidWhenNil
  <2>7. ASSUME Done(17) PROVE Recorded' = {row'.txHash} /\ chain'[row'.txHash].state = "confirmed"
    <3>1. Recorded = {row.txHash} /\ chain[row.txHash].state = "confirmed"
      BY <2>7 DEF TronPayment
    <3>2. row.txHash \in DOMAIN chain
      BY <3>1 DEF Recorded, RecordsOf
    <3> QED
      BY <1>0, <2>1, <2>2, <3>1, <3>2 DEF ChainKept
  <2>8. ASSUME pc = "func", pos = 17, pc' = "post", result' = "nil"
        PROVE  Recorded' = {row'.txHash} /\ chain'[row'.txHash].state = "confirmed"
    <3>1. PICK t \in DOMAIN chain : Recorded = {t} /\ chain[t].state = "confirmed"
      BY <1>0, <2>8, AwaitedPayment
    <3>2. status[15] = "completed"
      BY <1>0, <2>8 DEF TronTypes, TronWay, MainInTurn, Main, Begun
    <3>3. row.txHash = t
      BY <3>1, <3>2 DEF TronPayment, Done
    <3> QED
      BY <1>0, <2>1, <2>2, <3>1, <3>3 DEF ChainKept
  <2>9. ASSUME row'.status = "completed"
        PROVE  snapshot'.status[15] = "completed" /\ row'.txHash \in Payments' /\ chain'[row'.txHash].state = "confirmed"
    <3>1. CASE row.status = "completed"
      <4>1. row.txHash \in DOMAIN chain
        BY <3>1 DEF TronPayment, Payments
      <4> QED
        BY <1>0, <1>k, <1>p, <2>2, <3>1, <4>1 DEF TronPayment, ChainKept
    <3>2. CASE row.status # "completed"
      <4>1. pc = "func" /\ pos = 21
        BY <1>0, <2>9, <3>2, RowFields
      <4>2. status[15] = "completed" /\ status[17] = "completed" /\ snapshot.status = status
        BY <1>0, <4>1 DEF TronTypes, TronWay, MainInTurn, Main, Begun, EngineInv, MemoryInv
      <4>3. row.txHash \in Payments /\ chain[row.txHash].state = "confirmed"
        BY <4>2 DEF TronPayment, Done
      <4>4. row.txHash \in DOMAIN chain
        BY <4>3 DEF Payments
      <4> QED
        BY <1>0, <1>k, <1>p, <2>2, <4>2, <4>3, <4>4 DEF ChainKept
    <3> QED
      BY <3>1, <3>2
  <2>10. Done(15)' => Done(15)
    BY <1>0, <2>6, DoneFrom
  <2>11. Done(17)' => Done(17) \/ (pc = "func" /\ pos = 17 /\ pc' = "post" /\ result' = "nil")
    BY <1>0, DoneFrom
  <2> QED
    BY <1>0, <2>3, <2>4, <2>5, <2>7, <2>8, <2>9, <2>10, <2>11 DEF TronPayment
\* The payment.
<1>s. CASE Pays
  <2>1. /\ pc = "func" /\ pos = 15 /\ status[15] = "processing" /\ snapshot.status = status
        /\ ~Done(15) /\ ~Done(17)
        /\ CurrentStep \in {15, 22, 23, 24, 25}
        /\ CurrentStep = 15 => ~snapshot.state.CustomError
        /\ CurrentStep = 23 => req.kind = "resources" /\ snapshot.state.CustomError
    BY <1>0, <1>s, AtPayment DEF Pays
  <2>2. snapshot'.status[15] # "unset"
    BY <1>k, <2>1
  <2>3. CurrentStep # 15 => Recorded' = Recorded
    BY <1>0, <1>s, GrowsKeeps, TypeByStep DEF Pays, Recorded
  <2>4. result # "failed" /\ ~(result' = "failed" /\ pc' \in {"post", "end", "failure"})
    <3>1. pc' = "post" => result' \in {"nil", "error"}
      BY <1>s DEF Pays, Finishes, Return
    <3>2. pc' \in {"func", "post", "idle"}
      BY <1>0, <2>1 DEF Cases, Start, ExitFinished, EnterStage, SkipStage, AtStage, SkipStep, BeginStep, AtStep,
         AfterStep, EndExecute, Leaves, Forget, Finishes, Return, JumpsTo, ReturnsJump, StepGivesUp,
              LeavesToRiver, IgnoreFailure,
         Redirects, RedirectFailure, wfVars
    <3> QED
      BY <1>0, <2>1, <3>1, <3>2 DEF TronTypes
  <2>5. snapshot'.state.CustomError => snapshot.state.CustomError
    <3>1. ~(Finishes("failed") /\ pos \notin {15, 21, 22, 25})
      BY <2>1
    <3> QED
      BY <1>0, <2>4, <3>1, FailureKnown
  <2>6. ASSUME req.kind = "resources", snapshot'.state.CustomError PROVE Recorded' = {}
    <3>1. Recorded = {}
      BY <2>1, <2>5, <2>6 DEF TronPayment
    <3> QED
      BY <2>1, <2>3, <2>5, <2>6, <3>1
  <2>7. ASSUME Done(15)' PROVE row'.txHash \in Payments' /\ (Recorded' = {} \/ row'.txHash \in Recorded')
    <3>1. pc' = "post" /\ result' = "nil"
      BY <1>0, <2>1, <2>7, DoneFrom
    <3>2. /\ row' = [row EXCEPT !.txHash = Len(chain')]
          /\ Len(chain') \in DOMAIN chain'
          /\ chain'[Len(chain')].purpose = "transfer"
          /\ <<TxType, Len(chain')>> \in records'
      BY <1>s, <3>1 DEF Pays
    <3>3. row'.txHash = Len(chain')
      BY <1>0, <3>2 DEF TronTypeOK, TransferTypeOK
    <3>4. row'.txHash \in Payments'
      BY <3>2, <3>3 DEF Payments
    <3>5. CASE CurrentStep = 15
      BY <3>2, <3>3, <3>4, <3>5, TypeByStep DEF Recorded, RecordsOf
    <3>6. CASE CurrentStep = 23
      BY <2>1, <2>3, <3>4, <3>6 DEF TronPayment
    <3>7. CASE CurrentStep \in {22, 24, 25}
      <4>1. TxType = "unresolved"
        BY <3>7 DEF TxType, activate_wallet_resources, activate_wallet_burn_trx, send_trx_for_burn,
           delegate_resources, sending, reclaim_resources, reclaim_on_error, waiting_reclaim_resources_confirmations,
           waiting_for_the_first_confirmation
      <4>2. <<"unresolved", Len(chain')>> \in records
        BY <1>s, <3>2, <4>1 DEF Pays, Grows
      <4>3. "unresolved" \in Purposes
        BY <1>0, <4>2 DEF TronTypeOK
      <4> QED
        BY <4>3 DEF Purposes
    <3> QED
      BY <2>1, <3>4, <3>5, <3>6, <3>7
  <2>8. ~Done(17)'
    BY <1>0, <2>1, DoneFrom
  <2>9. row'.status # "completed"
    <3>1. row.status # "completed"
      BY <2>1 DEF TronPayment
    <3> QED
      BY <1>0, <1>s, <3>1, RowFields
  <2> QED
    BY <1>0, <2>2, <2>4, <2>6, <2>7, <2>8, <2>9 DEF TronPayment
<1> QED
  BY <1>r, <1>s

(***************************************************************************)
(* How often the payment is sent                                           *)
(***************************************************************************)

\* The step sending is not executed again without a fault: it is completed, or it
\* has failed and the next attempt will compensate.
Paid ==
    \/ snapshot.status[15] = "completed"
    \/ pc = "scan" /\ status[15] = "completed"
    \/ pc = "post" /\ pos = 15 /\ result = "nil"
    \/ pc \in {"post", "end", "failure"} /\ pos = 15 /\ result = "error"
    \/ snapshot.state.NextStage = 4

\* A payment more than there were faults needs an execution that is not repeated.
PaidOnce ==
    \/ Compensating
    \/ Cardinality(Payments) =< MaxFaults - faults
    \/ Paid /\ Cardinality(Payments) =< MaxFaults - faults + 1

LEMMA PaymentsFinite == TronTypeOK => IsFiniteSet(Payments) /\ Cardinality(Payments) \in Nat
<1> SUFFICES ASSUME TronTypeOK PROVE IsFiniteSet(Payments)
  BY FS_CardinalityType
<1>1. chain \in Seq(Tx)
  BY DEF TronTypeOK
<1>2. DOMAIN chain = 1..Len(chain) /\ Len(chain) \in Nat
  BY <1>1, LenProperties
<1>3. IsFiniteSet(1..Len(chain))
  BY <1>2, FS_Interval
<1>4. Payments \subseteq 1..Len(chain)
  BY <1>2 DEF Payments
<1> QED
  BY <1>3, <1>4, FS_Subset

LEMMA OneMorePayment ==
    ASSUME TronTypeOK, Pays
    PROVE  Cardinality(Payments') =< Cardinality(Payments) + 1 /\ Cardinality(Payments') \in Nat
<1> DEFINE S == Payments \cup {Len(chain')}
<1>1. Payments' \subseteq S
  BY GrowsKeeps DEF Pays
<1>2. IsFiniteSet(Payments) /\ Cardinality(Payments) \in Nat
  BY PaymentsFinite
<1>3. IsFiniteSet(S) /\ Cardinality(S) =< Cardinality(Payments) + 1
  <2>1. /\ IsFiniteSet(S)
        /\ Cardinality(S) = IF Len(chain') \in Payments THEN Cardinality(Payments) ELSE Cardinality(Payments) + 1
    BY <1>2, FS_AddElement
  <2> HIDE DEF S
  <2> QED
    BY <1>2, <2>1
<1> HIDE DEF S
<1>4. Cardinality(Payments') =< Cardinality(S) /\ IsFiniteSet(Payments')
  BY <1>1, <1>3, FS_Subset
<1>5. Cardinality(Payments') \in Nat /\ Cardinality(S) \in Nat
  BY <1>3, <1>4, FS_CardinalityType
<1> QED
  BY <1>2, <1>3, <1>4, <1>5

\* Every step uses a fault or none.
LEMMA FaultsCount == TronTypes /\ Cases => faults' = faults \/ (faults > 0 /\ faults' = faults - 1)
BY DEF TronTypes, Cases, Start, ExitFinished, EnterStage, SkipStage, SkipStep, BeginStep, SaveSnapshot, SaveFails,
   AfterStep, EndExecute, Leaves, Finishes, JumpsTo, ReturnsJump, StepGivesUp, VerdictWrites, LeavesToRiver,
   IgnoreFailure, Redirects, RedirectFailure, Fault, wfVars

\* A run that has found the jump to the stage compensate has begun its first step
\* before it writes a snapshot again.
LEMMA CompensationReached ==
    ASSUME EngineInv, TronFlow, Cases, snapshot.state.NextStage = 4, snapshot' # snapshot,
           snapshot'.state.NextStage # 4
    PROVE  Compensating'
<1>0. /\ TronTypes /\ TronJumps /\ TronCompensation
      /\ pc \in {"func", "post", "end", "failure"} => status[22] # "unset"
  BY TypesOf DEF TronFlow, TronCompensation
<1>c. Compensating' <=> snapshot'.status[22] # "unset"
  BY DEF Compensating, determine_compensation_flow
<1>1. CASE BeginStep
  <2>1. /\ pc = "scan" /\ pos \in 1..25 /\ StageOf[pos] = stage /\ state.NextStage = 0
        /\ \A i \in 1..25 : i # pos => status'[i] = status[i]
        /\ snapshot'.status = status' /\ status'[pos] = "processing"
    BY <1>0, <1>1, BeginFields
  <2>2. stage >= 4
    BY <1>0, <2>1 DEF EngineInv, IndInv, Jumps, TronTypes
  <2>3. pos >= 22
    BY <2>1, <2>2, StageNumbers
  <2>4. pos > 22 => status[22] \in Settled
    BY <2>1, <2>3, StepNumbers, StageNumbers DEF EngineInv, IndInv, Loops, InLoop
  <2> QED
    BY <1>c, <2>1, <2>3, <2>4 DEF Settled
<1>2. CASE EndExecute
  <2>1. /\ pc = "end" \/ (pc = "scan" /\ pos = 26)
        /\ snapshot'.status = status
    BY <1>0, <1>2, EndFields
  <2>2. ASSUME pc = "scan" PROVE status[22] # "unset"
    <3>1. state.NextStage = 0 /\ pos = 26
      BY <1>0, <2>1, <2>2 DEF TronJumps, JumpShape, InLoop
    <3>2. stage >= 4
      BY <1>0, <2>2, <3>1 DEF EngineInv, IndInv, Jumps, TronTypes
    <3>3. stage = 4
      BY <1>0, <2>2, <3>1 DEF TronJumps, InLoop
    <3> QED
      BY <3>1, <3>3, <2>2, StepNumbers DEF EngineInv, IndInv, Loops, InLoop, Settled
  <2> QED
    BY <1>0, <1>c, <2>1, <2>2
<1>3. CASE AfterStep
  BY <1>0, <1>c, <1>3, AfterFields DEF TronResults, TronFlow
<1>4. CASE Leaves
  BY <1>0, <1>c, <1>4, LeavesFields
<1>5. CASE StepGivesUp
  BY <1>0, <1>c, <1>5, GivesUpFields
<1>6. CASE Redirects
  BY <1>0, <1>6, RedirectFields
<1> QED
  BY <1>1, <1>2, <1>3, <1>4, <1>5, <1>6 DEF Cases, Start, ExitFinished, EnterStage, SkipStage, SkipStep,
       Finishes, Return,
     JumpsTo, ReturnsJump, LeavesToRiver, IgnoreFailure, wfVars

\* A run that executes the step sending has nothing to compensate in reach.
LEMMA NothingBeyond ==
    ASSUME EngineInv, TronFlow, ~Compensating, pc \in {"end", "failure"}, pos = 15, result = "error"
    PROVE  CurrentStep = 15
<1> USE DEF Settled, Begun, Main
<1>1. /\ TronTypes /\ status[15] = "failed"
      /\ \A i \in 1..25 : status[i] \in StepStatus
  BY TypesOf DEF EngineInv, OutcomeInv, TronTypes
<1>2. \A j \in 16..21 : status[j] \notin Begun
  BY <1>1 DEF TronFlow, TronWay, MainInTurn
<1>3. status[16] # "skipped" /\ status[17] # "skipped"
  BY <1>1 DEF TronFlow, TronWay, AllSettled
<1>4. status[16] = "unset" /\ status[17] = "unset"
  BY <1>1, <1>2, <1>3 DEF StepStatus
<1>5. \A j \in 18..21 : status[j] = "unset"
  BY <1>4, StepNumbers DEF EngineInv, OrderInv, StageOrder
<1>6. status[22] = "unset"
  BY StepNumbers DEF EngineInv, MemoryInv, Compensating, determine_compensation_flow
<1>7. \A j \in 23..25 : status[j] = "unset"
  BY <1>6, StepNumbers DEF EngineInv, OrderInv, StageOrder
<1> QED
  BY <1>1, <1>4, <1>5, <1>6, <1>7, CurrentIsFurthest

\* What keeps the step sending from being executed again is lost with a fault only.
LEMMA PaidStays ==
    ASSUME EngineInv, TronFlow, Cases, [Next]_wfVars, Paid, ~Compensating, ~Compensating', faults' = faults
    PROVE  Paid'
<1>0. TronTypes /\ 15 \in Steps
  BY TypesOf, StepNumbers
<1>1. CASE snapshot.status[15] = "completed"
  BY <1>0, <1>1, SnapshotKeeps DEF Settled, Paid
<1>2. CASE snapshot.state.NextStage = 4
  BY <1>2, CompensationReached DEF Paid
<1>3. CASE pc = "scan" /\ status[15] = "completed"
  <2>1. CASE ExitFinished
    BY <2>1, NeverExits DEF TronFlow
  <2>2. CASE EnterStage
    BY <1>0, <1>3, <2>2, EnterFields DEF Paid
  <2>3. CASE SkipStage
    BY <1>3, <2>3 DEF SkipStage, Paid
  <2>4. CASE SkipStep
    BY <1>0, <1>3, <2>4, SkipFields DEF Settled, Paid
  <2>5. CASE BeginStep
    <3>1. pos # 15 /\ snapshot' = [status |-> status', state |-> state']
      BY <1>0, <1>3, <2>5, BeginFields DEF Settled, TronTypes
    <3>2. status'[15] = "completed"
      BY <1>0, <1>3, <2>5, <3>1, BeginFields
    <3> QED
      BY <3>1, <3>2 DEF Paid
  <2>6. CASE EndExecute
    BY <1>0, <1>3, <2>6, EndFields DEF Paid, TronTypes
  <2>7. ~Leaves
    BY <1>0, <1>3 DEF Leaves, Fault, TronTypes
  <2>8. CASE UNCHANGED wfVars
    BY <1>3, <2>8 DEF wfVars, Paid
  <2> QED
    BY <1>3, <2>1, <2>2, <2>3, <2>4, <2>5, <2>6, <2>7, <2>8 DEF Cases, Start, AfterStep, Finishes, JumpsTo,
       StepGivesUp, LeavesToRiver, IgnoreFailure, Redirects, RedirectFailure
<1>4. CASE pc = "post" /\ pos = 15 /\ result = "nil"
  <2>1. CASE AfterStep
    BY <1>0, <1>4, <2>1, AfterFields DEF Paid, TronTypes
  <2>2. ~Leaves
    BY <1>0, <1>4 DEF Leaves, Fault, TronTypes
  <2>3. CASE UNCHANGED wfVars
    BY <1>4, <2>3 DEF wfVars, Paid
  <2> QED
    BY <1>4, <2>1, <2>2, <2>3 DEF Cases, Start, ExitFinished, EnterStage, AtStage, SkipStage, SkipStep,
         BeginStep, AtStep,
       EndExecute, Finishes, JumpsTo, StepGivesUp, LeavesToRiver, IgnoreFailure, Redirects, RedirectFailure
<1>5. CASE pc \in {"post", "end", "failure"} /\ pos = 15 /\ result = "error"
  <2>1. CASE AfterStep
    BY <1>0, <1>5, <2>1, AfterFields DEF Paid
  <2>2. CASE EndExecute
    BY <1>0, <1>5, <2>2, EndFields DEF Paid
  <2>3. ~Leaves
    BY <1>0, <1>5 DEF Leaves, Fault, TronTypes
  <2>4. ~LeavesToRiver
    BY <1>5, NothingBeyond DEF LeavesToRiver, IgnoreFailure
  <2>5. CASE Redirects
    BY <1>0, <2>5, RedirectFields DEF Paid, TronTypes
  <2>6. CASE UNCHANGED wfVars
    BY <1>5, <2>6 DEF wfVars, Paid
  <2> QED
    BY <1>5, <2>1, <2>2, <2>3, <2>4, <2>5, <2>6 DEF Cases, Start, ExitFinished, EnterStage, AtStage,
         SkipStage, SkipStep,
       BeginStep, AtStep, Finishes, JumpsTo, StepGivesUp
<1> QED
  BY <1>1, <1>2, <1>3, <1>4, <1>5 DEF Paid

LEMMA PaidOnceStep == EngineInv /\ TronFlow /\ PaidOnce /\ [NextTron]_vars => PaidOnce'
<1> SUFFICES ASSUME EngineInv, TronFlow, PaidOnce, [NextTron]_vars, ~Compensating' PROVE PaidOnce'
  BY DEF PaidOnce
<1>0. /\ TronTypeOK /\ TronTypes /\ Cases /\ [Next]_wfVars /\ 22 \in Steps
      /\ TronJumps /\ TronWay /\ TronCompensation
  BY TypesOf, NextCases, StepNumbers DEF TronFlow
<1>1. ~Compensating
  BY <1>0, SnapshotKeeps DEF Compensating, determine_compensation_flow
<1>2. /\ Cardinality(Payments) \in Nat /\ faults \in Nat /\ MaxFaults \in Nat
      /\ faults' = faults \/ (faults > 0 /\ faults' = faults - 1)
  BY <1>0, PaymentsFinite, FaultsCount, WorkflowAssumption DEF TronTypes
<1>3. CASE ~Pays
  <2>1. Payments' = Payments
    BY <1>0, <1>3, NextKeeps, GrowsKeeps DEF NothingSent, Broadcasts
  <2>2. CASE faults' = faults
    BY <1>0, <1>1, <1>2, <2>1, <2>2, PaidStays DEF PaidOnce
  <2>3. CASE faults' = faults - 1
    BY <1>0, <1>1, <1>2, <2>1, <2>3 DEF PaidOnce
  <2> QED
    BY <1>2, <2>2, <2>3
<1>4. CASE Pays
  <2>1. /\ pc = "func" /\ pos = 15 /\ ~Done(15) /\ CurrentStep \in {15, 22, 23, 24, 25}
        /\ snapshot.status = status
        /\ CurrentStep = 15 => snapshot.state.NextStage # 4
    BY <1>0, <1>4, AtPayment DEF Pays
  <2>2. CurrentStep = 15
    <3>1. status[22] = "unset"
      BY <1>1, <2>1 DEF Compensating, determine_compensation_flow
    <3>2. \A j \in 23..25 : status[j] = "unset"
      BY <3>1, StepNumbers DEF EngineInv, OrderInv, StageOrder, Settled
    <3> QED
      BY <2>1, <3>1, <3>2, CurrentIsFurthest
  <2>3. ~Paid
    BY <2>1, <2>2 DEF Paid, Done
  <2>4. Cardinality(Payments) =< MaxFaults - faults
    BY <1>1, <2>3 DEF PaidOnce
  <2>5. Cardinality(Payments') =< Cardinality(Payments) + 1 /\ Cardinality(Payments') \in Nat
    BY <1>0, <1>4, OneMorePayment
  <2>6. CASE faults' = faults - 1
    BY <1>2, <2>4, <2>5, <2>6 DEF PaidOnce
  <2>7. CASE faults' = faults
    <3>1. pc' = "post" /\ result' \in {"nil", "error"}
      BY <1>2, <1>4, <2>7 DEF Pays, Fault, Finishes, Return
    <3>2. pos' = 15
      BY <1>0, <2>1, <3>1 DEF Cases, Start, ExitFinished, EnterStage, SkipStage, AtStage, SkipStep, BeginStep, AtStep,
         AfterStep, EndExecute, Leaves, Forget, Finishes, Return, JumpsTo, ReturnsJump, StepGivesUp, LeavesToRiver,
         IgnoreFailure, Redirects, RedirectFailure, wfVars
    <3>3. Paid'
      BY <3>1, <3>2 DEF Paid
    <3> QED
      BY <1>2, <2>4, <2>5, <2>7, <3>3 DEF PaidOnce
  <2> QED
    BY <1>2, <2>6, <2>7
<1> QED
  BY <1>3, <1>4

(***************************************************************************)
(* The lifecycle                                                           *)
(***************************************************************************)

\* What was announced or written, the snapshot bears out.
RowInv ==
    /\ "completed" \in events \cup {row.status} => snapshot.status[21] \in Begun
    /\ "unconfirmed" \in events \cup {row.status} => snapshot.status[16] # "unset"
    /\ "in_mempool" \notin events \cup {row.status}
    /\ "failed" \in events \cup {row.status} => snapshot.state.IsFailed
    /\ (pc # "idle" /\ snapshot.state.IsFailed) => state.IsFailed

LEMMA BegunStays ==
    ASSUME EngineInv, TronFlow, Cases, [Next]_wfVars, snapshot.status[21] \in Begun
    PROVE  snapshot'.status[21] \in Begun
<1>0. TronTypes
  BY TypesOf
<1>1. pc # "idle" => status[21] \in Begun
  BY DEF TronFlow, TronEnds
<1>2. BeginStep => status'[21] \in Begun
  <2>1. BeginStep => /\ pc = "scan" /\ pos \in 1..25
                     /\ \A i \in 1..25 : i # pos => status'[i] = status[i]
                     /\ status'[pos] \in {"processing", "failed"}
    BY <1>0, BeginFields
  <2> QED
    BY <1>1, <2>1 DEF Begun
<1> QED
  BY <1>1, <1>2, SnapshotWrites DEF EngineInv

\* The verdict in the state and in the snapshot comes from the last step.
LEMMA VerdictFields ==
    ASSUME EngineInv, TronFlow, RowInv, Cases
    PROVE  /\ snapshot.state.IsFailed => snapshot'.state.IsFailed
           /\ (pc' # "idle" /\ snapshot'.state.IsFailed) => state'.IsFailed
           /\ (snapshot'.state.IsFailed /\ ~snapshot.state.IsFailed) =>
                    pc \in {"scan", "func", "post", "end", "failure"} /\ pos >= 25
<1>0. /\ TronTypes
      /\ pc # "idle" /\ snapshot.state.IsFailed => state.IsFailed
      /\ pc \in {"scan", "func", "post", "end", "failure"} /\ state.IsFailed => skipError
      /\ skipError /\ pc # "return" => pos \in {25, 26} /\ pc # "func"
  BY TypesOf DEF TronFlow, RowInv, EngineInv, OutcomeInv, Finished, TronResults
<1>1. CASE Start
  BY <1>0, <1>1 DEF Start
<1>2. CASE ExitFinished \/ LeavesToRiver
  BY <1>0, <1>2, NeverExits DEF LeavesToRiver, IgnoreFailure, TronFlow
<1>3. CASE EnterStage
  BY <1>0, <1>3, EnterFields
<1>4. CASE SkipStage
  BY <1>0, <1>4 DEF SkipStage, AtStage
<1>5. CASE SkipStep
  BY <1>0, <1>5, SkipFields
<1>6. CASE BeginStep
  BY <1>0, <1>6, BeginFields
<1>7. CASE AfterStep
  BY <1>0, <1>7, AfterFields DEF TronFlow, TronResults
<1>8. CASE EndExecute
  BY <1>0, <1>8, EndFields
<1>9. CASE Leaves
  BY <1>0, <1>9, LeavesFields, StateFields
<1>10. ASSUME NEW r, Finishes(r)
       PROVE  /\ snapshot.state.IsFailed => snapshot'.state.IsFailed
              /\ (pc' # "idle" /\ snapshot'.state.IsFailed) => state'.IsFailed
              /\ (snapshot'.state.IsFailed /\ ~snapshot.state.IsFailed) =>
                    pc \in {"scan", "func", "post", "end", "failure"} /\ pos >= 25
  BY <1>0, <1>10, FinishFields
<1>11. ASSUME NEW k \in 1..25, JumpsTo(k)
       PROVE  /\ snapshot.state.IsFailed => snapshot'.state.IsFailed
              /\ (pc' # "idle" /\ snapshot'.state.IsFailed) => state'.IsFailed
              /\ (snapshot'.state.IsFailed /\ ~snapshot.state.IsFailed) =>
                    pc \in {"scan", "func", "post", "end", "failure"} /\ pos >= 25
  BY <1>0, <1>11, JumpFields
<1>12. CASE StepGivesUp /\ pos = 25
  BY <1>0, <1>12, GivesUpFields, StateFields
<1>13. CASE Redirects
  BY <1>0, <1>13, RedirectFields
<1>14. CASE UNCHANGED wfVars
  BY <1>0, <1>14 DEF wfVars
<1> QED
  BY <1>1, <1>2, <1>3, <1>4, <1>5, <1>6, <1>7, <1>8, <1>9, <1>10, <1>11, <1>12, <1>13, <1>14 DEF Cases

\* What the last step has written when it announces the failure.
LEMMA FailureStep ==
    ASSUME TronTypeOK, sendFailureEventStep
    PROVE  \/ UNCHANGED trVars
           \/ /\ events' = events \cup {"failed"} /\ (row.status)' \in {row.status, "failed"}
              /\ snapshot'.state.IsFailed
<1>1. FailedState.IsFailed
  BY DEF FailedState, TronTypeOK, TransferTypeOK, TypeOK, WorkflowState
<1>2. ASSUME NEW n \in 0..3, FailureWrites(n)
      PROVE  \/ UNCHANGED trVars
             \/ /\ events' = events \cup {"failed"} /\ (row.status)' \in {row.status, "failed"}
                /\ snapshot'.state.IsFailed
  BY <1>1, <1>2 DEF FailureWrites, trVars, TronTypeOK, TransferTypeOK
<1> QED
  BY <1>2 DEF sendFailureEventStep

LEMMA AnnounceMoves ==
    ASSUME TronTypeOK, Announces
    PROVE  /\ UNCHANGED snapshot
           /\ \E p \in {1, 16, 21} :
                LET s == IF p = 1 THEN "processing" ELSE IF p = 16 THEN "unconfirmed" ELSE "completed" IN
                /\ pc = "func" /\ pos = p
                /\ (row.status)' \in {row.status, s} /\ events' \in {events, events \cup {s}}
BY DEF Announces, setTransferStatus, Returns, Abort, TronTypeOK, TransferTypeOK

LEMMA RowStep == EngineInv /\ TronFlow /\ RowInv /\ [NextTron]_vars => RowInv'
<1> SUFFICES ASSUME EngineInv, TronFlow, RowInv, [NextTron]_vars PROVE RowInv'
  OBVIOUS
<1>0. /\ TronTypeOK /\ TronTypes /\ Cases /\ [Next]_wfVars /\ 16 \in Steps /\ 21 \in Steps
      /\ pc = "func" => snapshot.status = status
  BY TypesOf, NextCases, StepNumbers DEF TronFlow, EngineInv, MemoryInv
<1>1. /\ snapshot.status[21] \in Begun => snapshot'.status[21] \in Begun
      /\ snapshot.status[16] # "unset" => snapshot'.status[16] # "unset"
      /\ snapshot.state.IsFailed => snapshot'.state.IsFailed
      /\ (pc' # "idle" /\ snapshot'.state.IsFailed) => state'.IsFailed
  BY <1>0, BegunStays, SnapshotKeeps, VerdictFields
<1>2. CASE UNCHANGED trVars
  BY <1>1, <1>2 DEF RowInv, trVars
<1>3. CASE Pays
  <2>1. (row.status)' = row.status /\ UNCHANGED events
    BY <1>0, <1>3 DEF Pays, TronTypeOK, TransferTypeOK
  <2> QED
    BY <1>1, <2>1 DEF RowInv
<1>4. CASE Announces
  BY <1>0, <1>1, <1>4, AnnounceMoves DEF RowInv, TronTypes, Begun
<1>5. CASE sendFailureEventStep
  BY <1>0, <1>1, <1>5, FailureStep, <1>2 DEF RowInv
<1> QED
  BY <1>0, <1>2, <1>3, <1>4, <1>5, RowWriters

\* When the first step is executed nothing was announced but it, and when the
\* first confirmation is awaited the success was not.
LEMMA NotFurther ==
    ASSUME EngineInv, TronFlow, RowInv, pc = "func", ~snapshot.state.IsFailed
    PROVE  /\ pos = 1 => row.status = "processing"
           /\ pos = 16 => row.status \in {"processing", "unconfirmed"}
<1> USE DEF Settled, Begun, Main
<1>1. /\ TronTypes /\ snapshot.status = status /\ status[pos] = "processing"
      /\ \A i \in 1..25 : status[i] \in StepStatus
      /\ row.status \in TransferStatus \ {"in_mempool", "failed"}
  BY TypesOf DEF EngineInv, MemoryInv, TronTypes, TronFlow, TronTypeOK, TransferTypeOK, RowInv, TransferStatus
<1>2. ASSUME pos = 1 PROVE status[15] = "unset"
  <2>1. status[15] # "unset" => JumpsAgain(status)
    BY <1>1, <1>2 DEF TronFlow, TronSent, AheadOfPayment
  <2>2. ~Passed(1)
    BY PassedNumbers DEF Passed
  <2> QED
    BY <1>1, <1>2, <2>1, <2>2 DEF JumpsAgain
<1>3. ASSUME pos = 1 PROVE status[16] = "unset" /\ status[21] \notin Begun
  BY <1>1, <1>2, <1>3 DEF TronFlow, TronWay, MainInTurn, AllSettled, StepStatus
<1>4. pos = 16 => status[21] \notin Begun
  BY <1>1 DEF TronFlow, TronWay, MainInTurn
<1> QED
  BY <1>1, <1>3, <1>4 DEF RowInv, TransferStatus

(***************************************************************************)
(* The invariant of the FSM                                                *)
(***************************************************************************)

TronInv == EngineInv /\ TronFlow /\ TronPayment /\ PaidOnce /\ RowInv

LEMMA InitFlow == InitTron => TronFlow
<1> SUFFICES ASSUME InitTron PROVE TronFlow
  OBVIOUS
<1>1. /\ \A i \in 1..25 : status[i] = "unset" /\ snapshot.status[i] = "unset"
      /\ state = FreshState /\ snapshot.state = FreshState
      /\ state.NextStage = 0 /\ state.NextStep = 0 /\ ~state.CustomError /\ ~state.IsFailed
      /\ pc = "idle" /\ pos = 1 /\ stage = 0 /\ result = "nil" /\ ~skipError
  BY StepNumbers DEF InitTron, InitTransfer, Init, FreshStatus, FreshState, None
<1>2. TronTypeOK
  BY InitTyped
<1> QED
  BY <1>1, <1>2 DEF TronFlow, TronJumps, JumpShape, InLoop, TronResults, TronWay, MainInTurn, AllSettled, Main, Begun,
     TronCompensation, Compensation, Settled, TronSent, AheadOfPayment, TronEnds

LEMMA InitTronInv == InitTron => TronInv
<1> SUFFICES ASSUME InitTron PROVE TronInv
  OBVIOUS
<1>1. EngineInv /\ TronFlow
  BY EngineInductive, InitFlow DEF InitTron, InitTransfer
<1>2. /\ \A i \in 1..25 : status[i] = "unset" /\ snapshot.status[i] = "unset"
      /\ ~snapshot.state.CustomError /\ ~snapshot.state.IsFailed
      /\ pc = "idle" /\ result = "nil" /\ row.status = "processing" /\ events = {}
      /\ records = {} /\ chain = <<>> /\ faults = MaxFaults
  BY StepNumbers DEF InitTron, InitTransfer, Init, FreshStatus, FreshState
<1>3. TronPayment
  BY <1>2 DEF TronPayment, Recorded, RecordsOf, Done
<1>4. PaidOnce
  <2>1. Payments = {}
    BY <1>2 DEF Payments
  <2>2. Cardinality(Payments) = 0
    BY <2>1, FS_EmptySet
  <2>3. MaxFaults - faults = 0
    BY <1>2, WorkflowAssumption
  <2> QED
    BY <2>2, <2>3 DEF PaidOnce
<1>5. RowInv
  BY <1>2 DEF RowInv
<1> QED
  BY <1>1, <1>3, <1>4, <1>5 DEF TronInv

LEMMA FlowStep == EngineInv /\ TronFlow /\ [NextTron]_vars => TronFlow'
<1> SUFFICES ASSUME EngineInv, TronFlow, [NextTron]_vars PROVE TronFlow'
  OBVIOUS
<1>1. Cases /\ [Next]_wfVars /\ UNCHANGED req /\ EngineInv'
  BY NextCases, NextKeeps, EngineInductive DEF TronFlow
<1>2. TronTypeOK'
  BY <1>1, TronTypeStep DEF TronFlow
<1>3. TronJumps' /\ TronResults' /\ TronWay' /\ TronCompensation'
  BY <1>1, JumpsStepTron, ResultsStep, WayStep, CompensationStep DEF TronFlow
<1>4. TronSent'
  BY <1>1, PassedStays, SentStep DEF TronFlow
<1>5. TronEnds'
  BY <1>1, EndsStep DEF TronFlow
<1> QED
  BY <1>2, <1>3, <1>4, <1>5 DEF TronFlow

LEMMA TronInductive == SpecTron => []TronInv
<1>1. TronInv /\ [NextTron]_vars => TronInv'
  BY NextCases, EngineInductive, FlowStep, PaymentStep, PaidOnceStep, RowStep DEF TronInv
<1> QED
  BY <1>1, InitTronInv, PTL DEF SpecTron

\* Every variable of the FSM has its type: the records are about transactions that
\* were submitted, those that delegate are about a resource, and so is what is frozen.
THEOREM TronTypeCorrect == SpecTron => []TronTypeOK
<1>1. TronInv => TronTypeOK
  BY DEF TronInv, TronFlow
<1> QED
  BY <1>1, TronInductive, PTL

\* The client of a Tron transfer that is completed was paid: the hash in the row is
\* the one of a payment with all its confirmations, although a restart or a lost
\* answer may have made the step sending pay twice.
THEOREM TronCompletedIsConfirmed == SpecTron => []CompletedIsConfirmed
<1>1. TronInv => CompletedIsConfirmed
  BY DEF TronInv, TronPayment, CompletedIsConfirmed
<1> QED
  BY <1>1, TronInductive, PTL

\* As long as the transfer is not being compensated there is at most one payment
\* more than there were failed writes and crashes: an error of the node leads to
\* the stage compensate and never back to the step sending.
THEOREM TronRepaymentNeedsFault == SpecTron => []RepaymentNeedsFault
<1>1. TronInv => RepaymentNeedsFault
  <2> SUFFICES ASSUME TronInv PROVE RepaymentNeedsFault
    OBVIOUS
  <2>1. Cardinality(Payments) \in Nat /\ faults \in Nat /\ MaxFaults \in Nat
    BY PaymentsFinite, TypesOf, WorkflowAssumption DEF TronInv, TronFlow, TronTypes
  <2> QED
    BY <2>1 DEF TronInv, PaidOnce, RepaymentNeedsFault
<1> QED
  BY <1>1, TronInductive, PTL

LEMMA InitLifecycle == InitTron => Lifecycle!Init
BY DEF InitTron, InitTransfer, Init, FreshState, Lifecycle!Init

\* Every step of the FSM is a step of the lifecycle, or changes nothing that it
\* speaks of.
LEMMA LifecycleStep == TronInv /\ [NextTron]_vars => [Lifecycle!Next]_(Lifecycle!vars)
<1> SUFFICES ASSUME TronInv, [NextTron]_vars PROVE [Lifecycle!Next]_(Lifecycle!vars)
  OBVIOUS
<1>0. /\ EngineInv /\ TronFlow /\ RowInv /\ TronTypeOK /\ TransferTypeOK /\ TronTypes /\ Cases
      /\ snapshot.state.IsFailed \in BOOLEAN /\ snapshot'.state.IsFailed \in BOOLEAN
  <2>1. snapshot \in Snapshot /\ snapshot' \in Snapshot
    BY NextCases, EngineInductive DEF TronInv, EngineInv, IndInv, TypeOK
  <2> QED
    BY <2>1, TypesOf, NextCases DEF TronInv, TronFlow, TronTypeOK, Snapshot, WorkflowState
<1>1. ~Announces =>
        \/ UNCHANGED <<events, row.status>>
        \/ /\ events' = events \cup {"failed"} /\ (row.status)' \in {row.status, "failed"}
           /\ snapshot'.state.IsFailed /\ pos = 25 /\ pc = "func"
  <2>1. Pays => UNCHANGED <<events, row.status>>
    BY <1>0 DEF Pays, TransferTypeOK
  <2> QED
    BY <1>0, <2>1, RowWriters, FailureStep DEF trVars
\* The verdict is new.
<1>2. CASE snapshot'.state.IsFailed /\ ~snapshot.state.IsFailed
  <2>1. pc \in {"scan", "func", "post", "end", "failure"} /\ pos >= 25
    BY <1>0, <1>2, VerdictFields
  <2>2. snapshot.status[21] \notin Begun
    BY <1>0, <2>1 DEF TronFlow, TronEnds, TronTypes
  <2>3. "completed" \notin events /\ row.status \notin FinalStatus
    BY <1>0, <1>2, <2>2 DEF RowInv, FinalStatus
  <2>4. ~Announces
    BY <2>1 DEF Announces
  <2>5. (snapshot.state.IsFailed)' = TRUE
    BY <1>0, <1>2
  <2>6. Lifecycle!Fail
    BY <1>1, <2>3, <2>4, <2>5 DEF Lifecycle!Fail, Lifecycle!FinalStatus, FinalStatus
  <2> QED
    BY <2>6 DEF Lifecycle!Next
<1>3. CASE snapshot.state.IsFailed
  <2>1. ~Announces
    BY <1>0, <1>3 DEF Announces, TronFlow, TronResults, RowInv, EngineInv, OutcomeInv, Finished
  <2>2. snapshot'.state.IsFailed
    BY <1>0, <1>3, VerdictFields
  <2>3. pc # "func"
    BY <1>0, <1>3 DEF TronFlow, TronResults, RowInv, EngineInv, OutcomeInv, Finished
  <2>4. UNCHANGED <<events, row.status>>
    BY <1>1, <2>1, <2>3
  <2> QED
    BY <1>0, <1>3, <2>2, <2>4 DEF Lifecycle!vars
<1>4. CASE ~snapshot'.state.IsFailed /\ ~snapshot.state.IsFailed
  <2>1. CASE Announces
    <3>1. UNCHANGED snapshot
      BY <1>0, <2>1, AnnounceMoves
    <3>2. PICK s \in {"processing", "unconfirmed", "completed"} :
            /\ (row.status)' \in {row.status, s} /\ events' \in {events, events \cup {s}}
            /\ s = "processing" => pos = 1
            /\ s = "unconfirmed" => pos = 16
            /\ pc = "func"
            /\ \E r : setTransferStatus(s, r)
      BY <1>0, <2>1, AnnounceMoves DEF Announces
    <3>3. PICK r : setTransferStatus(s, r)
      BY <3>2
    <3>4. Lifecycle!Rank(s) >= Lifecycle!Rank(row.status)
      BY <1>0, <1>4, <3>2, NotFurther DEF Lifecycle!Rank
    <3> QED
      BY <1>0, <1>4, <3>2, <3>3, <3>4, SetStatusProgress DEF TransferStatus
  <2>2. CASE ~Announces
    <3>1. UNCHANGED <<events, row.status>>
      BY <1>1, <1>4, <2>2
    <3> QED
      BY <1>0, <1>4, <3>1 DEF Lifecycle!vars
  <2> QED
    BY <2>1, <2>2
<1> QED
  BY <1>2, <1>3, <1>4

\* The FSM of Tron implements TransferLifecycle: whatever is retried, redirected or
\* compensated, statuses are announced in order, and a transfer that announced its
\* success is never failed by the stage compensate.
THEOREM TronKeepsLifecycle == SpecTron => KeepsLifecycle
BY InitLifecycle, LifecycleStep, TronInductive, PTL DEF SpecTron, KeepsLifecycle, Lifecycle!Spec

(***************************************************************************)
(* The delegated resources                                                 *)
(*                                                                         *)
(* Without a fault memory and snapshot never part, so the steps before the *)
(* payment are taken in the order the kind of the transfer asks for.       *)
(***************************************************************************)

NoFault == faults = MaxFaults

\* The step behind which the jump to step k is pending.
From(k) == IF k < 10 THEN 2 ELSE IF k < 16 THEN 9 ELSE IF k < 22 THEN 18 ELSE 22

\* Without a fault a jump is consumed in the run that asked for it, and what a run
\* leaves in the database is what it had in memory.
CalmRun ==
    /\ pc \in {"idle", "failure", "return"} => snapshot.state.NextStep \in {0, 22}
    /\ pc \in {"end", "failure"} => state.NextStep = 0 /\ result # "nil"
    /\ (pc = "post" /\ state.NextStep # 0) => pos >= From(state.NextStep) /\ result = "nil"
    /\ (pc = "scan" /\ state.NextStep \notin {0, 22}) => pos > From(state.NextStep)
    /\ pc \in {"failure", "return"} => \A i \in 1..20 : snapshot.status[i] = status[i]

TronCalm == NoFault => CalmRun

LEMMA NoFaultBefore ==
    ASSUME EngineInv, Cases, NoFault'
    PROVE  NoFault /\ faults' = faults /\ ~Fault
<1>1. faults \in 0..MaxFaults /\ MaxFaults \in Nat /\ TronTypes
  BY TypesOf, WorkflowAssumption DEF EngineInv, IndInv, TypeOK
<1>2. faults' = MaxFaults
  BY DEF NoFault
<1>3. faults' = faults \/ (faults > 0 /\ faults' = faults - 1)
  BY <1>1, FaultsCount
<1> QED
  BY <1>1, <1>2, <1>3 DEF NoFault, Fault

LEMMA CalmStep == EngineInv /\ TronJumps /\ TronResults /\ TronCalm /\ Cases => TronCalm'
<1> SUFFICES ASSUME EngineInv, TronJumps, TronResults, TronCalm, Cases, NoFault' PROVE CalmRun'
  BY DEF TronCalm
<1>0. /\ TronTypes /\ faults' = faults /\ ~Fault /\ CalmRun
      /\ state.NextStep \in Nat /\ state.NextStage \in Nat /\ snapshot.state.NextStep \in Nat
      /\ pos \in Nat /\ faults \in Nat
      /\ \A k : From(k) \in Nat
  BY TypesOf, NoFaultBefore DEF TronCalm, TronTypes, WorkflowState, From
<1>1. CASE Start
  BY <1>0, <1>1 DEF Start, CalmRun
<1>2. ~ExitFinished
  BY NeverExits
<1>3. CASE EnterStage
  BY <1>0, <1>3, EnterFields DEF CalmRun
<1>4. CASE SkipStage
  BY <1>0, <1>4 DEF CalmRun, SkipStage, AtStage
<1>5. CASE SkipStep
  BY <1>0, <1>5, SkipFields DEF CalmRun
<1>6. CASE BeginStep
  BY <1>0, <1>6, BeginFields DEF CalmRun
<1>7. CASE AfterStep
  <2>1. /\ pc = "post" /\ UNCHANGED <<state, stage>>
        /\ snapshot' = [status |-> status, state |-> state]
        /\ \A i \in 1..25 : i # pos => status'[i] = status[i]
        /\ \/ pc' = "scan" /\ pos' = pos + 1 /\ result = "nil"
           \/ pc' = "return" /\ pos = 21 /\ result = "exit"
           \/ pc' = "end" /\ result' # "nil"
    BY <1>0, <1>7, AfterFields DEF TronResults
  <2>2. pc' = "end" => result # "nil"
    BY <1>0, <1>7 DEF AfterStep, Settle, SaveFails
  <2> QED
    BY <1>0, <2>1, <2>2 DEF CalmRun
<1>8. CASE EndExecute
  <2>1. /\ pc = "end" \/ (pc = "scan" /\ pos = 26)
        /\ state'.NextStep = state.NextStep
        /\ snapshot' = [status |-> status, state |-> state'] /\ UNCHANGED <<status, result>>
        /\ pc' \in {"return", "failure"} /\ (pc = "scan" => pc' = "return")
    BY <1>0, <1>8, EndFields
  <2>2. state.NextStep = 0
    BY <1>0, <2>1 DEF CalmRun, TronJumps, JumpShape, InLoop
  <2> QED
    BY <1>0, <2>1, <2>2 DEF CalmRun
<1>9. CASE Leaves
  BY <1>0, <1>9 DEF CalmRun, Leaves, Forget
<1>10. ASSUME NEW r, Finishes(r) PROVE CalmRun'
  BY <1>0, <1>10, FinishFields DEF CalmRun, TronJumps
<1>11. ASSUME NEW k \in 1..25, JumpsTo(k), MayJump(k) PROVE CalmRun'
  <2>1. pos >= From(k)
    BY <1>0, <1>11, MayJumpNumbers, PassedNumbers, ChoiceNumbers DEF Passed, JumpsBefore, From
  <2> QED
    BY <1>0, <1>11, <2>1, JumpFields DEF CalmRun
<1>12. CASE StepGivesUp /\ pos = 25
  BY <1>0, <1>12, GivesUpFields, StateFields DEF CalmRun, TronJumps
<1>13. CASE LeavesToRiver
  BY <1>0, <1>13 DEF LeavesToRiver, IgnoreFailure, CalmRun
<1>14. CASE Redirects
  BY <1>0, <1>14, RedirectFields DEF CalmRun
<1>15. CASE UNCHANGED wfVars
  BY <1>0, <1>15 DEF wfVars, CalmRun
<1> QED
  BY <1>1, <1>2, <1>3, <1>4, <1>5, <1>6, <1>7, <1>8, <1>9, <1>10, <1>11, <1>12, <1>13, <1>14, <1>15 DEF Cases


\* There was no fault, and no failure sends the transfer to the stage compensate.
Straight == NoFault /\ snapshot.status[22] = "unset" /\ snapshot.state.NextStage # 4

\* Of the steps 10..14 the kind of the transfer chooses where to go on.
Fork(s, st) ==
    /\ st.NextStep \in 10..14 => st.NextStep = Choice
    /\ s[9] # "skipped"
    /\ (s[9] = "completed" /\ s[Choice] = "unset") => st.NextStep = Choice
    /\ (Choice = 10 /\ s[11] \in Settled /\ s[12] = "unset") => st.NextStep = 15
    /\ (s[10] \in Begun \/ s[11] \in Begun) => Choice = 10
    /\ s[12] \in Begun => Choice = 12

\* The delegation was begun and has not succeeded.
Stopped(s) == s[12] \in {"processing", "failed"}

BeforePayment(s) == \A i \in 15..21 : s[i] # "unset" => \A j \in 1..14 : s[j] \in Settled

\* On the straight way no step is left behind, and a delegation that has not
\* succeeded is the last step of its run.
Path ==
    /\ state.NextStage \in {0, 2} /\ state.NextStep # 22
    /\ (InLoop /\ stage = 0) => pos = 1
    /\ InLoop => \A j \in 1..25 : j < pos => status[j] \in Settled
    /\ status[22] = "unset"
    /\ Fork(status, state) /\ Fork(snapshot.status, snapshot.state)
    /\ (pc = "post" /\ pos = 9) => state.NextStep = Choice
    /\ Stopped(status) => pos = 12 /\ pc \in {"func", "post", "end", "failure"}
    /\ pc \in {"idle", "return"} => ~Stopped(snapshot.status)
    /\ BeforePayment(status) /\ BeforePayment(snapshot.status)

TronPath == Straight => Path

LEMMA StraightBefore ==
    ASSUME EngineInv, TronFlow, Cases, [Next]_wfVars, Straight'
    PROVE  Straight /\ faults' = faults /\ ~Fault
<1>1. NoFault /\ faults' = faults /\ ~Fault /\ 22 \in Steps
  BY NoFaultBefore, StepNumbers DEF Straight
<1>2. snapshot.status[22] = "unset"
  BY <1>1, SnapshotKeeps DEF Straight
<1>3. snapshot.state.NextStage # 4
  BY <1>2, CompensationReached DEF Straight, Compensating, determine_compensation_flow
<1> QED
  BY <1>1, <1>2, <1>3 DEF Straight

\* Where a pending jump may lead on the straight way.
LEMMA PathJumps ==
    ASSUME EngineInv, TronJumps, CalmRun, Path, pc = "scan"
    PROVE  /\ pos =< 22
           /\ state.NextStep \in {0, 19, 21} \cup 2..15
           /\ state.NextStep \in 10..15 => pos >= 10
           /\ state.NextStep \in {19, 21} => pos >= 19
           /\ state.NextStep # 0 => pos =< state.NextStep
<1>1. TronTypes /\ state.NextStep \in {0, 19, 21, 22, 23, 25} \cup 2..15
  BY TypesOf DEF TronJumps, JumpShape
<1>2. pos =< 22
  BY <1>1 DEF Path, InLoop, Settled, TronTypes
<1>3. state.NextStep \notin {22, 23, 25}
  BY <1>1, <1>2 DEF Path, CalmRun, From, TronTypes
<1>4. state.NextStep # 0 => pos =< state.NextStep
  BY <1>1 DEF TronJumps, InLoop
<1>5. /\ state.NextStep \in 10..15 => pos >= 10
      /\ state.NextStep \in {19, 21} => pos >= 19
  BY <1>1 DEF CalmRun, From, TronTypes
<1> QED
  BY <1>1, <1>2, <1>3, <1>4, <1>5


LEMMA SkipKeepsFork ==
    ASSUME EngineInv, TronJumps, CalmRun, Path, SkipStep
    PROVE  Fork(status', state') /\ BeforePayment(status') /\ pos # 22
<1> USE DEF Settled, Begun
<1>0. TronTypes /\ Choice \in {10, 12, 14}
  BY TypesOf, ChoiceNumbers DEF TronTypes
<1>1. /\ pc = "scan" /\ pos \in 1..25
      /\ state'.NextStep = IF state.NextStep = pos THEN 0 ELSE state.NextStep
      /\ \A i \in 1..25 : i # pos => status'[i] = status[i]
      /\ \/ status[pos] \in Settled /\ status'[pos] = status[pos]
         \/ /\ status[pos] \notin Settled /\ state.NextStep \notin {0, pos}
            /\ status'[pos] = "skipped"
  BY <1>0, SkipFields
<1>2. \A j \in 1..25 : j < pos => status[j] \in Settled
  BY <1>1 DEF Path, InLoop
<1>3. Fork(status, state) /\ BeforePayment(status) /\ status[22] = "unset"
  BY DEF Path
<1>4. /\ state.NextStep \in {0, 19, 21} \cup 2..15
      /\ state.NextStep \in 10..15 => pos >= 10
      /\ state.NextStep \in {19, 21} => pos >= 19
      /\ state.NextStep # 0 => pos =< state.NextStep
  BY <1>1, PathJumps
<1>5. pos # 22
  BY <1>1, <1>3, <1>4
<1>6. BeforePayment(status')
  BY <1>1, <1>2, <1>3 DEF BeforePayment
<1>7. CASE status[pos] \in Settled
  <2>1. \A i \in 1..25 : status'[i] = status[i]
    BY <1>1, <1>7
  <2>2. (status[9] = "completed" /\ status[Choice] = "unset") => Choice # pos
    BY <1>7
  <2>3. (status[11] \in Settled /\ status[12] = "unset") => pos # 15
    BY <1>2
  <2> QED
    BY <1>0, <1>1, <1>3, <1>5, <1>6, <2>1, <2>2, <2>3 DEF Fork
<1>8. CASE status[pos] \notin Settled /\ state.NextStep > pos /\ status'[pos] = "skipped"
  <2>1. state'.NextStep = state.NextStep
    BY <1>1, <1>8
  <2>2. state'.NextStep \in 10..14 => state'.NextStep = Choice
    BY <1>3, <2>1 DEF Fork
  <2>3. pos # 9
    BY <1>4, <1>8
  <2>4. status'[9] # "skipped"
    BY <1>1, <1>3, <2>3 DEF Fork
  <2>5. (status'[9] = "completed" /\ status'[Choice] = "unset") => state'.NextStep = Choice
    BY <1>0, <1>1, <1>3, <1>8, <2>1 DEF Fork
  <2>6. (Choice = 10 /\ status'[11] \in Settled /\ status'[12] = "unset") => state'.NextStep = 15
    BY <1>1, <1>3, <1>4, <1>8, <2>1 DEF Fork
  <2>7. ((status'[10] \in Begun \/ status'[11] \in Begun) => Choice = 10) /\ (status'[12] \in Begun => Choice = 12)
    BY <1>1, <1>3, <1>8 DEF Fork
  <2> QED
    BY <1>5, <1>6, <2>2, <2>4, <2>5, <2>6, <2>7 DEF Fork
<1> QED
  BY <1>1, <1>4, <1>5, <1>6, <1>7, <1>8

LEMMA BeginKeepsFork ==
    ASSUME EngineInv, TronJumps, CalmRun, Path, BeginStep
    PROVE  Fork(status', state') /\ BeforePayment(status')
<1> USE DEF Settled, Begun
<1>0. TronTypes /\ Choice \in {10, 12, 14} /\ \A i \in 1..25 : status[i] \in StepStatus
  BY TypesOf, ChoiceNumbers DEF TronTypes
<1>1. /\ pc = "scan" /\ pos \in 1..25 /\ state.NextStep \in {0, pos} /\ state'.NextStep = 0
      /\ \A i \in 1..25 : i # pos => status'[i] = status[i]
      /\ status[pos] \notin Settled /\ status'[pos] \in {"processing", "failed"}
  BY <1>0, BeginFields
<1>2. \A j \in 1..25 : j < pos => status[j] \in Settled
  BY <1>1 DEF Path, InLoop
<1>3. Fork(status, state) /\ BeforePayment(status) /\ ~Stopped(status)
  BY <1>1 DEF Path
<1>4. \A i, j \in 1..14 : (i < j /\ status[j] # "unset") => status[i] \in Settled
  BY StepNumbers DEF EngineInv, OrderInv, StageOrder
<1>5. BeforePayment(status')
  BY <1>1, <1>2, <1>3 DEF BeforePayment
<1>6. status'[9] # "skipped"
  BY <1>1, <1>3 DEF Fork
<1>7. ~(status'[9] = "completed" /\ status'[Choice] = "unset")
  BY <1>0, <1>1, <1>3 DEF Fork
<1>8. ~(Choice = 10 /\ status'[11] \in Settled /\ status'[12] = "unset")
  BY <1>1, <1>2, <1>3 DEF Fork
<1>9. pos \in 10..14 => status[9] = "completed"
  BY <1>0, <1>1, <1>2, <1>3 DEF Fork, StepStatus
<1>10. ASSUME pos \in {10, 11} PROVE Choice = 10
  <2>1. CASE state.NextStep = pos
    BY <1>0, <1>3, <1>10, <2>1 DEF Fork
  <2>2. CASE state.NextStep = 0
    <3>1. status[Choice] # "unset"
      BY <1>0, <1>3, <1>9, <1>10, <2>2 DEF Fork
    <3> QED
      BY <1>0, <1>1, <1>4, <1>10, <3>1
  <2> QED
    BY <1>1, <2>1, <2>2
<1>11. ASSUME pos = 12 PROVE Choice = 12
  <2>1. CASE state.NextStep = pos
    BY <1>0, <1>3, <1>11, <2>1 DEF Fork
  <2>2. CASE state.NextStep = 0
    <3>1. status[Choice] # "unset" /\ status[11] \in Settled
      BY <1>0, <1>2, <1>3, <1>9, <1>11, <2>2 DEF Fork
    <3>2. status[12] = "unset"
      BY <1>0, <1>1, <1>3, <1>11 DEF Stopped, StepStatus
    <3>3. Choice # 10
      BY <1>3, <2>2, <3>1, <3>2 DEF Fork
    <3>4. Choice # 14
      BY <1>1, <1>4, <1>11, <3>1
    <3> QED
      BY <1>0, <3>3, <3>4
  <2> QED
    BY <1>1, <2>1, <2>2
<1>12. ((status'[10] \in Begun \/ status'[11] \in Begun) => Choice = 10) /\ (status'[12] \in Begun => Choice = 12)
  BY <1>1, <1>3, <1>10, <1>11 DEF Fork
<1> QED
  BY <1>1, <1>5, <1>6, <1>7, <1>8, <1>12 DEF Fork


LEMMA ForkOf ==
    ASSUME NEW s, NEW t, NEW a, NEW b, Fork(s, a), b.NextStep = a.NextStep, \A i \in 1..25 : t[i] = s[i]
    PROVE  Fork(t, b)
BY ChoiceNumbers DEF Fork

LEMMA ForkAtStart == ASSUME NEW s, NEW st, \A i \in 1..25 : s[i] = "unset", st.NextStep = 0 PROVE Fork(s, st)
BY ChoiceNumbers DEF Fork, Settled, Begun

LEMMA EndKeepsFork ==
    ASSUME EngineInv, TronJumps, TronResults, CalmRun, Path, AfterStep, UNCHANGED faults
    PROVE  Fork(status', state) /\ BeforePayment(status')
<1> USE DEF Settled, Begun
<1>0. TronTypes /\ Choice \in {10, 12, 14} /\ \A i \in 1..25 : status[i] \in StepStatus
  BY TypesOf, ChoiceNumbers DEF TronTypes
<1>1. /\ pc = "post" /\ pos \in 1..25 /\ status[pos] = "processing"
      /\ \A i \in 1..25 : i # pos => status'[i] = status[i]
      /\ status'[pos] \in {"completed", "failed"}
      /\ status'[pos] = "completed" => result = "nil"
  BY <1>0, AfterFields DEF TronResults
<1>2. /\ Fork(status, state) /\ BeforePayment(status)
      /\ pos = 9 => state.NextStep = Choice
  BY <1>1 DEF Path
<1>3. BeforePayment(status')
  BY <1>1, <1>2 DEF BeforePayment
<1>4. (pos = 11 /\ result = "nil") => state.NextStep = 15
  BY <1>1, PassedNumbers DEF TronResults, TronJumps, JumpShape
<1>5. (status'[9] = "completed" /\ status'[Choice] = "unset") => state.NextStep = Choice
  BY <1>0, <1>1, <1>2 DEF Fork
<1>6. (Choice = 10 /\ status'[11] \in Settled /\ status'[12] = "unset") => state.NextStep = 15
  BY <1>1, <1>2, <1>4 DEF Fork
<1>7. ((status'[10] \in Begun \/ status'[11] \in Begun) => Choice = 10) /\ (status'[12] \in Begun => Choice = 12)
  BY <1>1, <1>2 DEF Fork
<1>8. status'[9] # "skipped" /\ (state.NextStep \in 10..14 => state.NextStep = Choice)
  BY <1>1, <1>2 DEF Fork
<1> QED
  BY <1>3, <1>5, <1>6, <1>7, <1>8 DEF Fork

\* Where a delegation has stopped no later step was reached, so that its failure
\* does not go to River.
LEMMA StoppedIsCurrent ==
    ASSUME EngineInv, Path, Stopped(status)
    PROVE  CurrentStep = 12
<1> USE DEF Settled, Stopped
<1>1. \A i \in 13..14 : status[i] = "unset"
  BY StepNumbers DEF EngineInv, OrderInv, StageOrder
<1>2. \A i \in 15..21 : status[i] = "unset"
  BY DEF Path, BeforePayment
<1>3. \A i \in 22..25 : status[i] = "unset"
  BY StepNumbers DEF EngineInv, OrderInv, StageOrder, Path
<1> QED
  BY <1>1, <1>2, <1>3, CurrentIsFurthest

LEMMA ChosenByKind ==
    ASSUME EngineInv, TronJumps, [NextTron]_vars, pc = "func", pos = 9, pc' = "post"
    PROVE  state'.NextStep = Choice
<1>1. beforeSendingCheckTransferKind
  BY OnlyFunctionsReturn, StepAt
<1>2. ReturnsJump(Choice)
  BY <1>1 DEF beforeSendingCheckTransferKind, Choice
<1>3. Choice \in 1..25 /\ TronTypes
  BY ChoiceNumbers, TypesOf
<1> QED
  BY <1>2, <1>3, JumpFields DEF JumpsTo


LEMMA PathStep ==
    ASSUME EngineInv, TronFlow, TronCalm, TronPath, Cases, [Next]_wfVars, UNCHANGED req,
           (pc = "func" /\ pos = 9 /\ pc' = "post") => state'.NextStep = Choice
    PROVE  TronPath'
<1> SUFFICES ASSUME Straight' PROVE Path'
  BY DEF TronPath
<1> USE DEF Settled, InLoop
<1>0. /\ TronTypes /\ TronJumps /\ TronResults /\ CalmRun /\ Path /\ Straight /\ Choice' = Choice
      /\ faults' = faults /\ ~Fault /\ faults \in Nat /\ pos \in Nat
      /\ \A i \in 1..25 : status[i] \in StepStatus
      /\ \A t, b : Fork(t, b)' = Fork(t', b')
  BY TypesOf, StraightBefore DEF TronFlow, TronPath, TronCalm, Straight, TronTypes, Choice, Fork
<1>1. CASE Start
  <2>1. /\ pc = "idle" /\ pc' \in {"scan", "return"} /\ status' = snapshot.status /\ state' = snapshot.state
        /\ UNCHANGED <<snapshot, pos, stage>>
    BY <1>1 DEF Start
  <2>2. pos = 1 /\ snapshot.status[22] = "unset" /\ snapshot.state.NextStage # 4
    BY <1>0, <2>1 DEF TronTypes, Straight
  <2>3. state'.NextStage \in {0, 2} /\ state'.NextStep # 22
    BY <1>0, <2>1, <2>2 DEF TronJumps, JumpShape
  <2>4. Fork(snapshot.status, snapshot.state) /\ BeforePayment(snapshot.status) /\ ~Stopped(snapshot.status)
    BY <1>0, <2>1 DEF Path
  <2> QED
    BY <1>0, <2>1, <2>2, <2>3, <2>4 DEF Path
<1>2. ~ExitFinished
  BY <1>0, NeverExits
<1>3. CASE EnterStage
  <2>1. Fork(status', state') /\ stage' # 0 /\ stage' = StageOf[pos]
    BY <1>0, <1>3, EnterFields, ForkOf, StageNumbers DEF Path
  <2> QED
    BY <1>0, <1>3, <2>1, EnterFields DEF Path
<1>4. ~SkipStage
  <2> SUFFICES ASSUME SkipStage PROVE FALSE
    OBVIOUS
  <2>1. /\ pc = "scan" /\ pos \in 1..25 /\ StageOf[pos] # stage /\ state.NextStage \notin {0, StageOf[pos]}
    BY <1>0, StepNumbers DEF SkipStage, AtStage, None
  <2>2. state.NextStage = 2 /\ state.NextStep = 15
    BY <1>0, <2>1 DEF Path, TronJumps, JumpShape
  <2>3. pos >= 10 /\ pos =< 15
    BY <1>0, <2>1, <2>2, PathJumps
  <2>4. pos # 15
    BY <2>1, <2>2, StageNumbers
  <2>5. StageOf[pos] = 1 /\ stage =< 1 /\ stage # 0
    BY <1>0, <2>1, <2>3, <2>4, StepNumbers DEF Path, EngineInv, IndInv, Loops
  <2> QED
    BY <1>0, <2>1, <2>5 DEF TronTypes
<1>5. CASE SkipStep
  <2>1. Fork(status', state') /\ BeforePayment(status') /\ pos # 22
    BY <1>0, <1>5, SkipKeepsFork
  <2>2. /\ pc = "scan" /\ pc' = "scan" /\ pos \in 1..25 /\ StageOf[pos] = stage /\ pos' = pos + 1
        /\ state'.NextStage = state.NextStage /\ state'.NextStep \in {0, state.NextStep}
        /\ UNCHANGED <<snapshot, stage>>
        /\ \A i \in 1..25 : i # pos => status'[i] = status[i]
        /\ status'[pos] \in Settled
    BY <1>0, <1>5, SkipFields
  <2>3. stage # 0 /\ ~Stopped(status')
    BY <1>0, <2>2, StageNumbers DEF Path, Stopped
  <2>4. \A j \in 1..25 : j < pos + 1 => status'[j] \in Settled
    BY <1>0, <2>2 DEF Path
  <2> QED
    BY <1>0, <2>1, <2>2, <2>3, <2>4 DEF Path
<1>6. CASE BeginStep
  <2>1. Fork(status', state') /\ BeforePayment(status')
    BY <1>0, <1>6, BeginKeepsFork
  <2>2. /\ pc = "scan" /\ pc' = "func" /\ pos \in 1..25 /\ StageOf[pos] = stage
        /\ state'.NextStage = 0 /\ state'.NextStep = 0
        /\ snapshot' = [status |-> status', state |-> state']
        /\ UNCHANGED <<pos, stage>>
        /\ \A i \in 1..25 : i # pos => status'[i] = status[i]
    BY <1>0, <1>6, BeginFields
  <2>3. stage # 0 /\ status'[22] = "unset" /\ (Stopped(status') => pos = 12)
    BY <1>0, <2>2, StageNumbers DEF Path, Stopped, Straight
  <2>4. \A j \in 1..25 : j < pos => status'[j] \in Settled
    BY <1>0, <2>2 DEF Path
  <2> QED
    BY <1>0, <2>1, <2>2, <2>3, <2>4 DEF Path
<1>7. CASE AfterStep
  <2>1. Fork(status', state) /\ BeforePayment(status')
    BY <1>0, <1>7, EndKeepsFork
  <2>2. /\ pc = "post" /\ pos \in 1..25 /\ StageOf[pos] = stage /\ status[pos] = "processing"
        /\ UNCHANGED <<state, stage>> /\ snapshot' = [status |-> status, state |-> state]
        /\ \A i \in 1..25 : i # pos => status'[i] = status[i]
        /\ \/ pc' = "scan" /\ pos' = pos + 1 /\ status'[pos] = "completed"
           \/ pc' = "return" /\ pos' = pos /\ pos = 21
           \/ pc' = "end" /\ pos' = pos
    BY <1>0, <1>7, AfterFields DEF TronResults
  <2>3. stage # 0 /\ status[22] = "unset" /\ pos # 22 /\ (Stopped(status) => pos = 12)
    BY <1>0, <2>2, StageNumbers DEF Path
  <2>4. Stopped(status') => pos = 12 /\ pc' = "end"
    BY <2>2, <2>3 DEF Stopped
  <2>5. pc' = "scan" => \A j \in 1..25 : j < pos + 1 => status'[j] \in Settled
    BY <1>0, <2>2 DEF Path
  <2>6. status'[22] = "unset"
    BY <2>2, <2>3
  <2>7. Fork(status, state) /\ BeforePayment(status) /\ state.NextStage \in {0, 2} /\ state.NextStep # 22
    BY <1>0 DEF Path
  <2> QED
    BY <1>0, <2>1, <2>2, <2>3, <2>4, <2>5, <2>6, <2>7 DEF Path
<1>8. CASE EndExecute
  <2>1. /\ pc = "end" \/ (pc = "scan" /\ pos = 26)
        /\ state'.NextStep = state.NextStep /\ state'.NextStage = state.NextStage
        /\ snapshot' = [status |-> status, state |-> state'] /\ UNCHANGED <<status, pos>>
        /\ pc' = IF result = "nil" THEN "return" ELSE "failure"
    BY <1>0, <1>8, EndFields
  <2>2. pc = "end" /\ pc' = "failure"
    BY <1>0, <2>1, PathJumps DEF CalmRun
  <2>3. Fork(status, state')
    BY <1>0, <2>1, ForkOf DEF Path
  <2> QED
    BY <1>0, <2>1, <2>2, <2>3 DEF Path
<1>9. CASE Leaves
  <2>1. /\ pc = "return" /\ pc' = "idle" /\ UNCHANGED snapshot
        /\ state' = FreshState /\ \A i \in 1..25 : status'[i] = "unset"
    BY <1>0, <1>9, LeavesFields DEF Leaves
  <2>2. state'.NextStage = 0 /\ state'.NextStep = 0
    BY <1>0, <2>1, StateFields
  <2>3. Fork(status', state')
    BY <2>1, <2>2, ForkAtStart
  <2> QED
    BY <1>0, <2>1, <2>2, <2>3 DEF Path, Stopped, BeforePayment
<1>10. ASSUME NEW r, Finishes(r) PROVE Path'
  BY <1>0, <1>10, FinishFields DEF Path
<1>11. ASSUME NEW k \in 1..25, JumpsTo(k), MayJump(k) PROVE Path'
  <2>1. /\ pc = "func" /\ pc' = "post" /\ state'.NextStep = k /\ state.NextStep = 0 /\ state.NextStage = 0
        /\ state'.NextStage = IF StageOf[k] = StageOf[pos] THEN state.NextStage ELSE StageOf[k]
        /\ UNCHANGED <<status, snapshot, pos, stage>>
        /\ status[pos] = "processing" /\ pos \in 1..25
    BY <1>0, <1>11, JumpFields DEF TronJumps, EngineInv, IndInv, Jumps, TronTypes, None
  <2>2. pos # 22 /\ pos < k /\ k # 22 /\ (k \in 10..14 => k = Choice)
    BY <1>0, <1>11, <2>1, MayJumpNumbers, PassedNumbers DEF Path, Passed, JumpsBefore
  <2>3. state'.NextStage \in {0, 2}
    BY <1>11, <2>1, <2>2, MayJumpNumbers, PassedNumbers, StageNumbers DEF Passed
  <2>4. Fork(status, state')
    BY <1>0, <2>1, <2>2, ChoiceNumbers DEF Path, Fork
  <2> QED
    BY <1>0, <2>1, <2>2, <2>3, <2>4 DEF Path
<1>12. ~(StepGivesUp /\ pos = 25)
  <2> SUFFICES ASSUME StepGivesUp, pos = 25 PROVE FALSE
    OBVIOUS
  <2>1. pc = "func"
    BY GivesUpFields
  <2>2. status[22] \in Settled
    BY <1>0, <2>1 DEF Path
  <2> QED
    BY <1>0, <2>2 DEF Path
<1>13. CASE LeavesToRiver
  <2>1. /\ pc = "failure" /\ pc' = "return" /\ UNCHANGED <<status, state, snapshot, pos, stage>>
        /\ CurrentStep # 12
    BY <1>13 DEF LeavesToRiver, IgnoreFailure
  <2>2. ~Stopped(status)
    BY <1>0, <2>1, StoppedIsCurrent
  <2>3. ~Stopped(snapshot.status)
    BY <1>0, <2>1, <2>2 DEF CalmRun, Stopped
  <2> QED
    BY <1>0, <2>1, <2>2, <2>3 DEF Path
<1>14. ~Redirects
  BY <1>0, RedirectFields DEF Straight
<1>15. CASE UNCHANGED wfVars
  BY <1>0, <1>15 DEF wfVars, Path
<1> QED
  BY <1>1, <1>2, <1>3, <1>4, <1>5, <1>6, <1>7, <1>8, <1>9, <1>10, <1>11, <1>12, <1>13, <1>14, <1>15 DEF Cases


LEMMA FunctionReturns == StepFunction /\ ~Fault => pc = "func" /\ pc' = "post"
BY StepFunctionEnds DEF Ends, Finishes, Return, JumpsTo, ReturnsJump, Dies, LostRun, StepGivesUp, CrashAfterVerdict

\* The argument of the step delegate_resources survives in the snapshot.
Argument ==
    /\ savedFrom => pc = "idle" \/ delegateFrom
    /\ pc \notin {"idle", "post"} => delegateFrom = savedFrom

TronArgument == NoFault => Argument

LEMMA ArgumentStep ==
    EngineInv /\ TronTypeOK /\ TronArgument /\ [NextTron]_vars => TronArgument' /\ (NoFault' /\ savedFrom => savedFrom')
<1> SUFFICES ASSUME EngineInv, TronTypeOK, TronArgument, [NextTron]_vars, NoFault'
             PROVE  Argument' /\ (savedFrom => savedFrom')
  BY DEF TronArgument
<1>0. /\ NoFault /\ faults' = faults /\ ~Fault /\ Argument
      /\ delegateFrom \in BOOLEAN /\ savedFrom \in BOOLEAN
  BY NextCases, NoFaultBefore DEF TronArgument, TronTypeOK
<1>1. CASE EngineStep
  BY <1>0, <1>1 DEF EngineStep, Argument
<1>2. CASE StepFunction
  <2>1. pc = "func"
    BY <1>2, StepAt
  <2>2. delegateFrom = savedFrom
    BY <1>0, <2>1 DEF Argument
  <2>3. CASE Quietly \/ Announces \/ sendFailureEventStep
    BY <1>0, <2>2, <2>3 DEF Quietly, Announces, sendFailureEventStep, tronVars, Argument
  <2>4. CASE Broadcasts \/ Pays
    <3>1. savedFrom' = savedFrom /\ (delegateFrom => delegateFrom')
      BY <2>4 DEF Broadcasts, Pays, Remembers
    <3>2. pc' = "post"
      BY <1>0, <1>2, FunctionReturns
    <3> QED
      BY <2>2, <3>1, <3>2 DEF Argument
  <2> QED
    BY <1>2, <2>3, <2>4, StepData DEF DataMoves
<1>3. CASE OnFailure
  <2>1. pc = "failure" /\ UNCHANGED delegateFrom /\ savedFrom' \in {savedFrom, delegateFrom}
    BY <1>3 DEF OnFailure, RedirectFailure, IgnoreFailure
  <2> QED
    BY <1>0, <2>1 DEF Argument
<1>4. CASE ChainMoves \/ ActivatedByOthers \/ UNCHANGED vars
  BY <1>0, <1>4 DEF ChainMoves, ActivatedByOthers, vars, wfVars, tronVars, Argument
<1> QED
  BY <1>1, <1>2, <1>3, <1>4 DEF NextTron

(***************************************************************************)
(* Where a status, a jump and a result come from                           *)
(***************************************************************************)

\* Step i is behind, in memory or in the snapshot.
Past(i) == status[i] \in Settled \/ snapshot.status[i] \in Settled

\* The jump that is pending passes over step i.
PassesOver(i) == pc = "scan" /\ pos = i /\ stage = StageOf[i] /\ state.NextStep \notin {0, i}

Succeeded(i) == pc = "post" /\ pos = i /\ result = "nil"

LEMMA PastFrom ==
    ASSUME EngineInv, TronResults, Cases, [Next]_wfVars, NEW i \in 1..25, Past(i)'
    PROVE  Past(i) \/ PassesOver(i) \/ Succeeded(i)
<1> USE DEF Settled
<1>0. TronTypes
  BY TypesOf
<1>1. status'[i] \in Settled => Past(i) \/ PassesOver(i) \/ Succeeded(i)
  <2> SUFFICES ASSUME status'[i] \in Settled PROVE Past(i) \/ PassesOver(i) \/ Succeeded(i)
    OBVIOUS
  <2>1. CASE status'[i] = status[i]
    BY <2>1 DEF Past
  <2>2. CASE Start
    BY <2>2 DEF Start, Past
  <2>3. CASE SkipStep
    BY <1>0, <2>3, SkipFields DEF Past, PassesOver
  <2>4. CASE BeginStep
    BY <1>0, <2>4, BeginFields DEF Past
  <2>5. CASE AfterStep
    BY <1>0, <2>5, AfterFields DEF Past, Succeeded, TronResults
  <2>6. CASE Leaves
    BY <1>0, <2>6, LeavesFields
  <2>7. CASE EnterStage \/ SkipStage \/ EndExecute \/ ExitFinished
    BY <2>1, <2>7 DEF EnterStage, SkipStage, EndExecute, ExitFinished
  <2>8. CASE StepGivesUp \/ LeavesToRiver \/ Redirects
    BY <2>1, <2>8 DEF StepGivesUp, LeavesToRiver, IgnoreFailure, Redirects, RedirectFailure
  <2>9. ASSUME NEW r, Finishes(r) PROVE status'[i] = status[i]
    BY <2>9 DEF Finishes, Return
  <2>10. ASSUME NEW k, JumpsTo(k) PROVE status'[i] = status[i]
    BY <2>10 DEF JumpsTo, ReturnsJump, Return
  <2>11. UNCHANGED wfVars => status'[i] = status[i]
    BY DEF wfVars
  <2> QED
    BY <2>1, <2>2, <2>3, <2>4, <2>5, <2>6, <2>7, <2>8, <2>9, <2>10, <2>11 DEF Cases
<1>2. snapshot'.status[i] \in Settled => Past(i)
  <2>1. BeginStep => status'[i] = status[i] \/ status'[i] \notin Settled
    BY <1>0, BeginFields
  <2> QED
    BY <2>1, SnapshotWrites DEF EngineInv, Past
<1> QED
  BY <1>1, <1>2 DEF Past

LEMMA NextStepFrom ==
    ASSUME EngineInv, TronJumps, CalmRun, Cases, NEW k \in 1..25, k # 22, state'.NextStep = k
    PROVE  state.NextStep = k \/ (JumpsTo(k) /\ MayJump(k))
<1>0. TronTypes /\ snapshot.state.NextStep \in Nat
  BY TypesOf DEF TronTypes, WorkflowState
<1>1. CASE Start
  BY <1>0, <1>1 DEF Start, CalmRun
<1>2. CASE ExitFinished \/ LeavesToRiver \/ SkipStage
  BY <1>2 DEF ExitFinished, LeavesToRiver, IgnoreFailure, SkipStage
<1>3. CASE EnterStage
  BY <1>0, <1>3, EnterFields
<1>4. CASE SkipStep
  BY <1>0, <1>4, SkipFields
<1>5. CASE BeginStep
  BY <1>0, <1>5, BeginFields
<1>6. CASE AfterStep
  BY <1>6 DEF AfterStep
<1>7. CASE EndExecute
  BY <1>0, <1>7, EndFields
<1>8. CASE Leaves
  BY <1>0, <1>8, LeavesFields, StateFields
<1>9. ASSUME NEW r, Finishes(r) PROVE state.NextStep = k
  BY <1>9, FinishFields
<1>10. ASSUME NEW j \in 1..25, JumpsTo(j) PROVE j = k
  BY <1>0, <1>10, JumpFields
<1>11. CASE StepGivesUp
  BY <1>0, <1>11, GivesUpFields, StateFields
<1>12. CASE Redirects
  BY <1>0, <1>12, RedirectFields
<1>13. UNCHANGED wfVars => state.NextStep = k
  BY DEF wfVars
<1> QED
  BY <1>1, <1>2, <1>3, <1>4, <1>5, <1>6, <1>7, <1>8, <1>9, <1>10, <1>11, <1>12, <1>13 DEF Cases

LEMMA SucceededFrom ==
    ASSUME [NextTron]_vars, NEW i, Succeeded(i)'
    PROVE  Succeeded(i) \/ (pc = "func" /\ pos = i /\ StepFunction)
<1>1. CASE pc = "func"
  <2>1. StepFunction
    BY <1>1, OnlyFunctionsReturn DEF Succeeded
  <2>2. pos' = pos
    BY <2>1, StepFunctionEnds DEF Ends, Finishes, Return, JumpsTo, ReturnsJump, Dies, LostRun, Forget, StepGivesUp,
       CrashAfterVerdict, Succeeded
  <2> QED
    BY <1>1, <2>1, <2>2 DEF Succeeded
<1>2. CASE pc # "func"
  BY <1>2, NextCases, StepFunctionEnds DEF Cases, Start, ExitFinished, EnterStage, SkipStage, AtStage, SkipStep,
     BeginStep, AtStep, AfterStep, Settle, EndExecute, Leaves, Forget, Finishes, JumpsTo, StepGivesUp, LeavesToRiver,
     IgnoreFailure, Redirects, RedirectFailure, wfVars, Succeeded
<1> QED
  BY <1>1, <1>2

(***************************************************************************)
(* What a step may do to the resources                                     *)
(***************************************************************************)

Delegations == {t \in DOMAIN chain : chain[t].purpose = "delegate"}

Reclaims == {t \in DOMAIN chain : chain[t].purpose = "reclaim"}

Succeeds(tx) == tx.state \in {"success", "confirmed"}

\* A resource gets delegated by a delegation that was pending, and a reclaim that
\* succeeds takes its resource back.
Known ==
    /\ \A t \in DOMAIN chain :
        /\ t \in DOMAIN chain'
        /\ chain'[t].purpose = chain[t].purpose /\ chain'[t].res = chain[t].res
        /\ chain[t].state # "pending" => chain'[t].state # "pending"
        /\ chain[t].state = "confirmed" => chain'[t].state = "confirmed"
        /\ (t \in Reclaims /\ Succeeds(chain'[t])) => Succeeds(chain[t]) \/ chain[t].res \notin frozen'
    /\ \A r \in frozen' : r \in frozen \/ \E t \in Delegations : chain[t].state = "pending" /\ chain[t].res = r

ResourcesMove ==
    /\ Known
    /\ \A t \in DOMAIN chain' \ DOMAIN chain :
        /\ chain'[t].state = "pending"
        /\ chain'[t].purpose = "delegate" => Broadcasts /\ StepFunction /\ pos = 12
        /\ chain'[t].purpose = "reclaim" => Broadcasts /\ StepFunction /\ pos \in {19, 23}
    /\ records \subseteq records' /\ stateData \subseteq stateData' /\ UNCHANGED req
    /\ loaded' \in {loaded, stateData}
    /\ pc = "idle" => pc' = "idle" \/ loaded' = stateData

LEMMA MinedKnown == TronTypeOK /\ ChainMoves => Known /\ DOMAIN chain' = DOMAIN chain
<1> SUFFICES ASSUME TronTypeOK, ChainMoves PROVE Known /\ DOMAIN chain' = DOMAIN chain
  OBVIOUS
<1>1. PICK t \in DOMAIN chain, s \in {"success", "reverted", "confirmed"} :
        /\ chain[t].state = IF s = "confirmed" THEN "success" ELSE "pending"
        /\ chain' = [chain EXCEPT ![t].state = s]
        /\ frozen' = CASE s = "success" /\ chain[t].purpose = "delegate" -> frozen \cup {chain[t].res}
                       [] s = "success" /\ chain[t].purpose = "reclaim" -> frozen \ {chain[t].res}
                       [] OTHER -> frozen
  BY DEF ChainMoves
<1>2. chain \in Seq(Tx)
  BY DEF TronTypeOK
<1>3. chain \in [1..Len(chain) -> Tx] /\ DOMAIN chain = 1..Len(chain)
  BY <1>2, LenProperties, ElementOfSeq
<1>4. DOMAIN chain' = DOMAIN chain
  BY <1>1, <1>3
<1>5. /\ chain'[t].purpose = chain[t].purpose /\ chain'[t].res = chain[t].res /\ chain'[t].state = s
      /\ \A u \in DOMAIN chain : u # t => chain'[u] = chain[u]
  <2>1. chain[t] \in Tx
    BY <1>3
  <2> QED
    BY <1>1, <1>3, <2>1 DEF Tx
<1>6. ASSUME NEW u \in DOMAIN chain
      PROVE  /\ chain'[u].purpose = chain[u].purpose /\ chain'[u].res = chain[u].res
             /\ chain[u].state # "pending" => chain'[u].state # "pending"
             /\ chain[u].state = "confirmed" => chain'[u].state = "confirmed"
             /\ (u \in Reclaims /\ Succeeds(chain'[u])) => Succeeds(chain[u]) \/ chain[u].res \notin frozen'
  <2>1. CASE u = t
    BY <1>1, <1>5, <2>1 DEF Succeeds, Reclaims
  <2>2. CASE u # t
    BY <1>5, <2>2
  <2> QED
    BY <2>1, <2>2
<1>7. ASSUME NEW r \in frozen'
      PROVE  r \in frozen \/ \E u \in Delegations : chain[u].state = "pending" /\ chain[u].res = r
  BY <1>1, <1>7 DEF Delegations
<1> QED
  BY <1>4, <1>6, <1>7 DEF Known

LEMMA GrowsKnown ==
    ASSUME NEW purpose, Grows(purpose), UNCHANGED frozen
    PROVE  /\ Known /\ records \subseteq records'
           /\ \A t \in DOMAIN chain' \ DOMAIN chain : chain'[t].purpose = purpose /\ chain'[t].state = "pending"
BY DEF Grows, Known, Succeeds

LEMMA ResourcesFrom == TronTypeOK /\ [NextTron]_vars => ResourcesMove
<1> SUFFICES ASSUME TronTypeOK, [NextTron]_vars PROVE ResourcesMove
  OBVIOUS
<1>1. ASSUME UNCHANGED <<chain, records, frozen, stateData, req>>, loaded' \in {loaded, stateData},
             pc = "idle" => pc' = "idle" \/ loaded' = stateData
      PROVE  ResourcesMove
  BY <1>1 DEF ResourcesMove, Known, Succeeds
<1>2. CASE EngineStep
  <2>1. UNCHANGED <<chain, records, frozen, stateData, req>> /\ loaded' = IF pc = "idle" THEN stateData ELSE loaded
    BY <1>2 DEF EngineStep
  <2> QED
    BY <1>1, <2>1
<1>3. CASE StepFunction
  <2>1. pc = "func"
    BY <1>3, StepAt
  <2>2. CASE Quietly \/ Announces \/ sendFailureEventStep
    <3>1. UNCHANGED tronVars
      BY <2>2 DEF Quietly, Announces, sendFailureEventStep
    <3> QED
      BY <1>1, <2>1, <3>1 DEF tronVars
  <2>3. CASE Broadcasts
    <3>1. PICK purpose \in {"activation", "burn", "delegate", "reclaim"} :
             /\ Grows(purpose)
             /\ purpose = "delegate" => pos = 12
             /\ purpose = "reclaim" => pos \in {19, 23}
      BY <2>3 DEF Broadcasts
    <3>2. UNCHANGED <<req, frozen>> /\ Remembers
      BY <2>3 DEF Broadcasts
    <3>3. /\ Known /\ records \subseteq records'
          /\ \A t \in DOMAIN chain' \ DOMAIN chain : chain'[t].purpose = purpose /\ chain'[t].state = "pending"
      BY <3>1, <3>2, GrowsKnown
    <3> QED
      BY <1>3, <2>1, <2>3, <3>1, <3>2, <3>3 DEF ResourcesMove, Remembers
  <2>4. CASE Pays
    <3>1. Grows("transfer") /\ UNCHANGED frozen /\ Remembers
      BY <2>4 DEF Pays
    <3>2. /\ Known /\ records \subseteq records'
          /\ \A t \in DOMAIN chain' \ DOMAIN chain : chain'[t].purpose = "transfer" /\ chain'[t].state = "pending"
      BY <3>1, GrowsKnown
    <3>3. UNCHANGED req
      BY <2>4 DEF Pays
    <3> QED
      BY <2>1, <3>1, <3>2, <3>3 DEF ResourcesMove, Remembers
  <2> QED
    BY <1>3, <2>2, <2>3, <2>4, StepData DEF DataMoves
<1>4. CASE OnFailure
  <2>1. pc = "failure" /\ UNCHANGED <<chain, records, frozen, stateData, req, loaded>>
    BY <1>4 DEF OnFailure, RedirectFailure, IgnoreFailure
  <2> QED
    BY <1>1, <2>1
<1>5. CASE ChainMoves
  <2>1. UNCHANGED <<records, stateData, req, loaded, pc>>
    BY <1>5 DEF ChainMoves, wfVars
  <2>2. Known /\ DOMAIN chain' = DOMAIN chain
    BY <1>5, MinedKnown
  <2> QED
    BY <2>1, <2>2 DEF ResourcesMove
<1>6. CASE ActivatedByOthers \/ UNCHANGED vars
  <2>1. UNCHANGED <<chain, records, frozen, stateData, req, loaded, pc>>
    BY <1>6 DEF ActivatedByOthers, vars, wfVars, tronVars
  <2> QED
    BY <1>1, <2>1
<1> QED
  BY <1>2, <1>3, <1>4, <1>5, <1>6 DEF NextTron

LEMMA DelegateNil ==
    ASSUME TronTypeOK, delegateResources, ~Fault, CurrentStep = 12, pc' = "post", result' = "nil",
           NEW t \in Delegations' \ Delegations
    PROVE  t \in RecordsOf("delegate")' /\ chain'[t].res \in stateData' /\ delegateFrom'
<1>1. /\ ~Abort
      /\ ~Returns("error") /\ ~Returns("failed")
  BY DEF Abort, Returns, Return
<1>2. ~Quietly
  BY DEF Quietly, tronVars, Delegations
<1>3. \E need \in SUBSET Resources : \E outcome \in [need -> Outcomes] :
        /\ Broadcast("delegate", outcome)
        /\ AllDone(outcome)
        /\ delegateFrom' = (delegateFrom \/ {r \in need : outcome[r] = "done"} # {})
        /\ stateData' = stateData \cup {r \in need : outcome[r] = "done"}
  BY <1>1, <1>2 DEF delegateResources, StepWhFails, Forget
<1>4. PICK need \in SUBSET Resources : \E outcome \in [need -> Outcomes] :
        /\ Broadcast("delegate", outcome)
        /\ AllDone(outcome)
        /\ delegateFrom' = (delegateFrom \/ {r \in need : outcome[r] = "done"} # {})
        /\ stateData' = stateData \cup {r \in need : outcome[r] = "done"}
  BY <1>3
<1>5. PICK outcome \in [need -> Outcomes] :
        /\ Broadcast("delegate", outcome)
        /\ AllDone(outcome)
        /\ delegateFrom' = (delegateFrom \/ {r \in need : outcome[r] = "done"} # {})
        /\ stateData' = stateData \cup {r \in need : outcome[r] = "done"}
  BY <1>4
<1>6. /\ chain \in Seq(Tx) /\ "delegate" \in Purposes /\ need \in SUBSET About("delegate")
      /\ outcome \in [need -> {"done", "refused", "lost"}]
  BY DEF TronTypeOK, Purposes, About, Outcomes
<1>7. Sent("delegate", outcome) /\ Cardinality(Taken(outcome)) \in Nat
  BY <1>5, <1>6, BroadcastSends
<1>8. t \in Len(chain) + 1..Len(chain')
  <2>1. /\ DOMAIN chain = 1..Len(chain) /\ Len(chain) \in Nat
        /\ DOMAIN chain' = 1..Len(chain') /\ Len(chain') \in Nat
    BY <1>6, <1>7, LenProperties DEF Sent
  <2>2. \A u \in 1..Len(chain) : chain'[u] = chain[u]
    BY <1>7 DEF Sent
  <2>3. t \in DOMAIN chain' /\ t \notin DOMAIN chain
    BY <2>1, <2>2 DEF Delegations
  <2> QED
    BY <2>1, <2>3
<1>9. chain'[t].res \in need /\ outcome[chain'[t].res] = "done" /\ <<TxType, t>> \in records'
  BY <1>5, <1>7, <1>8 DEF Sent, Taken, AllDone
<1>10. TxType = "delegate"
  BY DEF TxType, activate_wallet_resources, activate_wallet_burn_trx, send_trx_for_burn, delegate_resources, sending,
     reclaim_resources, reclaim_on_error, waiting_reclaim_resources_confirmations, waiting_for_the_first_confirmation
<1> QED
  BY <1>5, <1>9, <1>10 DEF RecordsOf, Delegations

(***************************************************************************)
(* The delegations of the straight way                                     *)
(***************************************************************************)

Backed == \A t \in Delegations : t \in RecordsOf("delegate") /\ chain[t].res \in stateData

AllConfirmed == \A t \in Delegations : chain[t].state = "confirmed"

\* What is delegated, this transfer has delegated, to a hot wallet.
TronDelegates ==
    /\ frozen \subseteq {chain[t].res : t \in Delegations}
    /\ Delegations # {} => req.wallet = "hot"

\* On the straight way the step delegate_resources is executed once: when it is
\* behind, every delegation is recorded and known to the state data, and when the
\* wait for them is behind all of them are confirmed.
Delegating ==
    /\ Delegations # {} => snapshot.status[12] \in Begun /\ (pc # "idle" => status[12] \in Begun)
    /\ (pc = "func" /\ pos = 12) => Delegations = {}
    /\ Past(12) => Backed /\ (Delegations # {} => savedFrom)
    /\ Succeeded(12) => Backed /\ (Delegations # {} => delegateFrom)
    /\ (Past(13) \/ state.NextStep = 15) => AllConfirmed
    /\ Recorded = {} => Reclaims = {}

TronDelegating == Straight => Delegating

LEMMA DelegatesStep == TronTypeOK /\ TronDelegates /\ [NextTron]_vars => TronDelegates'
<1> SUFFICES ASSUME TronTypeOK, TronDelegates, [NextTron]_vars PROVE TronDelegates'
  OBVIOUS
<1>1. ResourcesMove
  BY ResourcesFrom
<1>2. \A t \in Delegations : t \in Delegations' /\ chain'[t].res = chain[t].res
  BY <1>1 DEF ResourcesMove, Known, Delegations
<1>3. frozen' \subseteq {chain[t].res : t \in Delegations}
  BY <1>1 DEF ResourcesMove, Known, TronDelegates
<1>4. frozen' \subseteq {chain'[t].res : t \in Delegations'}
  BY <1>2, <1>3
<1>5. ASSUME Delegations' # {} PROVE req'.wallet = "hot"
  <2>1. CASE Delegations # {}
    BY <1>1, <2>1 DEF ResourcesMove, TronDelegates
  <2>2. CASE Delegations = {}
    <3>1. Broadcasts /\ pos = 12
      BY <1>1, <1>5, <2>2 DEF ResourcesMove, Known, Delegations
    <3>2. req.wallet # "processing" /\ UNCHANGED req
      BY <3>1, PassedNumbers DEF Broadcasts
    <3> QED
      BY <3>2 DEF TronTypeOK, Requests
  <2> QED
    BY <2>1, <2>2
<1> QED
  BY <1>4, <1>5 DEF TronDelegates

LEMMA FuncFrom == Cases /\ pc' = "func" => BeginStep \/ UNCHANGED wfVars
BY DEF Cases, Start, ExitFinished, EnterStage, SkipStage, AtStage, SkipStep, AtStep, AfterStep, Settle, EndExecute,
   Leaves, Forget, Finishes, Return, JumpsTo, ReturnsJump, StepGivesUp, LeavesToRiver, IgnoreFailure, Redirects,
   RedirectFailure

LEMMA DelegationBegun ==
    ASSUME EngineInv, TronResults, Path, Cases, [Next]_wfVars,
           snapshot.status[12] \in Begun, pc # "idle" => status[12] \in Begun
    PROVE  snapshot'.status[12] \in Begun /\ (pc' # "idle" => status'[12] \in Begun)
<1> USE DEF Begun, Settled
<1>0. TronTypes
  BY TypesOf
<1>1. pc' # "idle" => status'[12] \in Begun
  <2>1. CASE Start
    BY <2>1 DEF Start
  <2>2. CASE SkipStep
    BY <1>0, <2>2, SkipFields DEF Path, Stopped
  <2>3. CASE BeginStep
    BY <1>0, <2>3, BeginFields
  <2>4. CASE AfterStep
    BY <1>0, <2>4, AfterFields DEF TronResults
  <2>5. CASE Leaves
    BY <1>0, <2>5, LeavesFields
  <2>6. CASE EnterStage \/ SkipStage \/ EndExecute \/ ExitFinished
    BY <1>0, <2>6 DEF EnterStage, SkipStage, AtStage, EndExecute, ExitFinished
  <2>7. CASE StepGivesUp \/ LeavesToRiver \/ Redirects
    BY <2>7 DEF StepGivesUp, LeavesToRiver, IgnoreFailure, Redirects, RedirectFailure
  <2>8. ASSUME NEW r, Finishes(r) PROVE status'[12] \in Begun
    BY <2>8 DEF Finishes, Return
  <2>9. ASSUME NEW k, JumpsTo(k) PROVE status'[12] \in Begun
    BY <2>9 DEF JumpsTo, ReturnsJump, Return
  <2>10. UNCHANGED wfVars => UNCHANGED <<pc, status>>
    BY DEF wfVars
  <2> QED
    BY <2>1, <2>2, <2>3, <2>4, <2>5, <2>6, <2>7, <2>8, <2>9, <2>10 DEF Cases
<1>2. BeginStep => pc' # "idle"
  BY <1>0, BeginFields
<1> QED
  BY <1>1, <1>2, SnapshotWrites DEF EngineInv

LEMMA DelegatingStep ==
    ASSUME EngineInv, TronFlow, TronPayment, TronCalm, TronPath, TronArgument, TronDelegates, TronDelegating,
           [NextTron]_vars
    PROVE  TronDelegating'
<1> SUFFICES ASSUME Straight' PROVE Delegating'
  BY DEF TronDelegating
<1> USE DEF Settled, Begun
<1>0. /\ TronTypes /\ TronTypeOK /\ TronJumps /\ TronResults /\ TronWay /\ CalmRun /\ Path /\ Straight /\ Argument
      /\ Delegating /\ ~Fault /\ Cases /\ [Next]_wfVars /\ ResourcesMove
      /\ \A i \in 1..25 : status[i] \in StepStatus /\ snapshot.status[i] \in StepStatus
      /\ pc \in {"func", "post"} => snapshot.status = status
  <2>1. Cases /\ [Next]_wfVars /\ TronTypes
    BY NextCases, TypesOf
  <2>2. Straight /\ ~Fault
    BY <2>1, StraightBefore
  <2> QED
    BY <2>1, <2>2, ResourcesFrom
       DEF TronFlow, TronPath, TronCalm, TronArgument, TronDelegating, Straight, TronTypes, EngineInv, MemoryInv
<1>1. \A t \in Delegations : t \in Delegations' /\ chain'[t].res = chain[t].res
  BY <1>0 DEF ResourcesMove, Known, Delegations
\* Something is delegated in the first execution of the step only.
<1>2. ASSUME NEW t \in Delegations' \ Delegations
      PROVE  /\ pc = "func" /\ pos = 12 /\ StepFunction /\ ~MayPass(12)
             /\ status[12] = "processing" /\ snapshot.status[12] = "processing"
             /\ pc' = "post" /\ Delegations = {}
  <2>1. Broadcasts /\ StepFunction /\ pos = 12
    BY <1>0 DEF ResourcesMove, Known, Delegations
  <2> QED
    BY <1>0, <2>1, FunctionReturns DEF Broadcasts, TronTypes, Delegating
<1>3. ~(pc = "func" /\ pos = 12) => Delegations' = Delegations
  BY <1>1, <1>2
<1>4. Delegations' # {} => snapshot'.status[12] \in Begun /\ (pc' # "idle" => status'[12] \in Begun)
  <2>1. Delegations' # {} => snapshot.status[12] \in Begun /\ (pc # "idle" => status[12] \in Begun)
    BY <1>0, <1>2 DEF Delegating
  <2> QED
    BY <1>0, <2>1, DelegationBegun
<1>5. ASSUME pc' = "func", pos' = 12 PROVE Delegations' = {}
  <2>1. Delegations' = Delegations
    BY <1>1, <1>2, <1>5
  <2>2. CASE BeginStep
    <3>1. pc = "scan" /\ pos = 12 /\ status[12] \notin Settled
      BY <1>0, <1>5, <2>2, BeginFields
    <3>2. status[12] \notin Begun
      BY <1>0, <3>1 DEF Path, Stopped
    <3> QED
      BY <1>0, <2>1, <3>1, <3>2 DEF Delegating
  <2>3. CASE UNCHANGED wfVars
    BY <1>0, <1>5, <2>1, <2>3 DEF Delegating, wfVars
  <2> QED
    BY <1>0, <1>5, <2>2, <2>3, FuncFrom
<1>6. Backed /\ Delegations' = Delegations => Backed'
  BY <1>0, <1>1 DEF Backed, ResourcesMove, Known, Delegations, RecordsOf
<1>7. savedFrom => savedFrom'
  BY <1>0, ArgumentStep DEF Straight
<1>8. ASSUME Past(12)' PROVE Backed' /\ (Delegations' # {} => savedFrom')
  <2>1. Past(12) \/ PassesOver(12) \/ Succeeded(12)
    BY <1>0, <1>8, PastFrom
  <2>2. Delegations' = Delegations
    BY <1>0, <1>1, <1>2, <2>1 DEF Past, PassesOver, Succeeded
  <2>3. CASE Past(12)
    BY <1>0, <1>6, <1>7, <2>2, <2>3 DEF Delegating
  <2>4. CASE PassesOver(12) /\ ~Past(12)
    <3>1. Delegations = {}
      BY <1>0, <2>4 DEF PassesOver, Past, Path, Stopped, Delegating
    <3> QED
      BY <2>2, <3>1 DEF Backed
  <2>5. CASE Succeeded(12) /\ ~Past(12)
    <3>1. ~UNCHANGED wfVars
      BY <1>8, <2>5 DEF Past, wfVars
    <3>2. EngineStep
      BY <2>5, <3>1, StepAt DEF NextTron, OnFailure, RedirectFailure, IgnoreFailure, ChainMoves, ActivatedByOthers, vars,
         Succeeded
    <3>3. faults' = faults /\ savedFrom' = delegateFrom
      BY <1>0, <2>5, <3>2, StraightBefore DEF EngineStep, Succeeded, TronFlow
    <3> QED
      BY <1>0, <1>6, <2>2, <2>5, <3>3 DEF Delegating
  <2> QED
    BY <2>1, <2>3, <2>4, <2>5
<1>9. ASSUME Succeeded(12)' PROVE Backed' /\ (Delegations' # {} => delegateFrom')
  <2>1. CASE Succeeded(12)
    <3>1. Delegations' = Delegations
      BY <1>3, <2>1 DEF Succeeded
    <3>2. delegateFrom' = delegateFrom
      BY <2>1, StepAt DEF NextTron, EngineStep, OnFailure, ChainMoves, ActivatedByOthers, vars, tronVars, Succeeded
    <3> QED
      BY <1>0, <1>6, <2>1, <3>1, <3>2 DEF Delegating
  <2>2. CASE pc = "func" /\ pos = 12 /\ StepFunction
    <3>1. delegateResources /\ Delegations = {}
      BY <1>0, <2>2, StepAt DEF Delegating
    <3>2. CurrentStep = 12
      BY <1>0, <2>2, StoppedIsCurrent DEF Stopped, TronTypes
    <3>3. \A t \in Delegations' : t \in RecordsOf("delegate")' /\ chain'[t].res \in stateData' /\ delegateFrom'
      BY <1>0, <1>9, <3>1, <3>2, DelegateNil DEF Succeeded
    <3> QED
      BY <3>3 DEF Backed
  <2> QED
    BY <1>9, <2>1, <2>2, SucceededFrom
<1>10. AllConfirmed /\ Delegations' = Delegations => AllConfirmed'
  BY <1>0, <1>1 DEF AllConfirmed, ResourcesMove, Known, Delegations
<1>11. ASSUME Past(13)' \/ state'.NextStep = 15 PROVE AllConfirmed'
  <2>1. Past(13) \/ PassesOver(13) \/ Succeeded(13) \/ state.NextStep = 15 \/ (JumpsTo(15) /\ MayJump(15))
    BY <1>0, <1>11, PastFrom, NextStepFrom
  <2>2. ASSUME NEW t \in Delegations' \ Delegations PROVE FALSE
    <3>1. status[13] = "unset" /\ snapshot.status[13] = "unset"
      BY <1>0, <1>2, StepNumbers DEF EngineInv, OrderInv, StageOrder
    <3>2. state.NextStep = 0
      BY <1>0, <1>2 DEF TronJumps
    <3>3. ~MayJump(15)
      BY <1>2, MayJumpNumbers DEF Passed
    <3> QED
      BY <1>2, <2>1, <3>1, <3>2, <3>3 DEF Past, PassesOver, Succeeded
  <2>3. Delegations' = Delegations
    BY <1>1, <2>2
  <2>4. CASE Past(13) \/ state.NextStep = 15
    BY <1>0, <1>10, <2>3, <2>4 DEF Delegating
  <2>5. CASE PassesOver(13) /\ state.NextStep # 15
    <3>1. state.NextStep = 14
      BY <1>0, <2>5, PathJumps DEF PassesOver
    <3>2. status[12] \notin Begun
      BY <1>0, <3>1, ChoiceNumbers DEF Path, Fork
    <3>3. Delegations = {}
      BY <1>0, <2>5, <3>2 DEF Delegating, PassesOver
    <3> QED
      BY <2>3, <3>3 DEF AllConfirmed
  <2>6. CASE Succeeded(13)
    <3>1. state.NextStep = 15
      BY <1>0, <2>6, PassedNumbers DEF Succeeded, TronResults, TronJumps, JumpShape
    <3> QED
      BY <2>4, <3>1
  <2>7. CASE JumpsTo(15) /\ MayJump(15)
    <3>1. pc = "func" /\ pos < 15 /\ Passed(pos)
      BY <2>7, MayJumpNumbers DEF JumpsTo
    <3>2. status[pos] = "processing" /\ pos \in 10..13
      BY <1>0, <3>1, PassedNumbers DEF TronTypes
    <3>3. CASE pos \in {10, 11}
      <4>1. status[12] \notin Begun
        BY <1>0, <3>2, <3>3, ChoiceNumbers DEF Path, Fork
      <4>2. Delegations = {}
        BY <1>0, <3>1, <4>1 DEF Delegating
      <4> QED
        BY <2>3, <4>2 DEF AllConfirmed
    <3>4. CASE pos = 12
      <4>1. Delegations = {}
        BY <1>0, <3>1, <3>4 DEF Delegating
      <4> QED
        BY <2>3, <4>1 DEF AllConfirmed
    <3>5. CASE pos = 13
      <4>1. Past(12)
        BY <1>0, <3>1, <3>5 DEF Path, InLoop, Past
      <4>2. Confirmed(RecordsOf("delegate")) /\ Backed
        BY <1>0, <3>1, <3>5, <4>1, PassedNumbers DEF Delegating
      <4>3. AllConfirmed
        BY <4>2 DEF AllConfirmed, Confirmed, Backed
      <4> QED
        BY <1>10, <2>3, <4>3
    <3> QED
      BY <3>2, <3>3, <3>4, <3>5
  <2> QED
    BY <2>1, <2>4, <2>5, <2>6, <2>7
<1>12. ASSUME Recorded' = {}, NEW t \in Reclaims' PROVE FALSE
  <2>1. Recorded = {}
    BY <1>0, <1>12 DEF ResourcesMove, Known, Recorded, RecordsOf
  <2>2. Reclaims = {}
    BY <1>0, <2>1 DEF Delegating
  <2>3. Broadcasts /\ pos \in {19, 23}
    BY <1>0, <2>2 DEF ResourcesMove, Known, Reclaims
  <2>4. pc = "func" /\ status[pos] = "processing"
    BY <1>0, <2>3 DEF Broadcasts, TronTypes
  <2>5. pos # 23
    BY <1>0, <2>4 DEF Path, InLoop
  <2>6. status[17] = "completed"
    BY <1>0, <2>3, <2>4, <2>5 DEF TronWay, MainInTurn, Main
  <2> QED
    BY <2>1, <2>6 DEF TronPayment, Done
<1> QED
  BY <1>4, <1>5, <1>8, <1>9, <1>11, <1>12 DEF Delegating

(***************************************************************************)
(* The reclaim after the payment                                           *)
(***************************************************************************)

LEMMA ReclaimNil ==
    ASSUME TronTypeOK, reclaimResources, ~Fault, CurrentStep \in 19..25, frozen \subseteq loaded,
           pc' = "post", result' = "nil", delegateFrom, NEW r \in frozen
    PROVE  \E t \in RecordsOf("reclaim")' \cap Reclaims' : chain'[t].res = r
<1>1. ~Abort /\ ~Returns("error")
  BY DEF Abort, Returns, Return
<1>2. \E outcome \in [frozen \cap loaded -> Outcomes] : Broadcast("reclaim", outcome) /\ AllDone(outcome)
  BY <1>1 DEF reclaimResources, Reclaim
<1>3. PICK outcome \in [frozen -> Outcomes] : Broadcast("reclaim", outcome) /\ AllDone(outcome)
  <2>1. frozen \cap loaded = frozen
    OBVIOUS
  <2> QED
    BY <1>2, <2>1
<1>4. /\ chain \in Seq(Tx) /\ "reclaim" \in Purposes /\ frozen \in SUBSET About("reclaim")
      /\ outcome \in [frozen -> {"done", "refused", "lost"}]
  BY DEF TronTypeOK, Purposes, About, Outcomes
<1>5. Sent("reclaim", outcome) /\ Cardinality(Taken(outcome)) \in Nat
  BY <1>3, <1>4, BroadcastSends
<1>6. outcome[r] = "done" /\ r \in Taken(outcome)
  BY <1>3, <1>4 DEF AllDone, Taken
<1>7. PICK t \in Len(chain) + 1..Len(chain') : chain'[t].res = r
  BY <1>5, <1>6 DEF Sent
<1>8. t \in DOMAIN chain'
  <2>1. /\ Len(chain) \in Nat
        /\ DOMAIN chain' = 1..Len(chain') /\ Len(chain') \in Nat
    BY <1>4, <1>5, LenProperties DEF Sent
  <2> QED
    BY <2>1
<1>9. chain'[t].purpose = "reclaim" /\ <<TxType, t>> \in records'
  BY <1>5, <1>6, <1>7 DEF Sent
<1>10. TxType = "reclaim"
  <2>1. outcome[r] \in Outcomes
    BY <1>3
  <2>2. TxType # "unresolved"
    BY <1>6, <2>1 DEF Outcomes
  <2> QED
    BY <2>2 DEF TxType, activate_wallet_resources, activate_wallet_burn_trx, send_trx_for_burn, delegate_resources,
       sending, reclaim_resources, reclaim_on_error, waiting_reclaim_resources_confirmations,
       waiting_for_the_first_confirmation
<1> QED
  BY <1>7, <1>8, <1>9, <1>10 DEF RecordsOf, Reclaims

LEMMA ReclaimsAwaited ==
    ASSUME waitingReclaimResourcesConfirmations, ~Fault, pc' = "post", result' = "nil"
    PROVE  Confirmed(RecordsOf("reclaim"))
<1>1. ~Abort /\ \A r \in {"error", "snooze", "failed"} : ~Returns(r)
  BY DEF Abort, Returns, Return
<1> QED
  BY <1>1 DEF waitingReclaimResourcesConfirmations, StepWhFails, AwaitAll, Unconfirmed

\* The transfer succeeds without a reclaim when the kind of the transfer asks for
\* none, or nothing was delegated.
LEMMA JumpsToSuccess ==
    ASSUME TronTypes, TronJumps, [NextTron]_vars, JumpsTo(21), MayJump(21)
    PROVE  /\ pc = "func"
           /\ (pos = 18 /\ ~(req.wallet = "hot" /\ req.kind = "resources")) \/ (pos = 19 /\ ~delegateFrom)
<1>1. pc = "func" /\ pc' = "post" /\ state'.NextStep = 21
  BY JumpFields
<1>2. pos \in {18, 19} /\ StepFunction
  BY <1>1, MayJumpNumbers, PassedNumbers, OnlyFunctionsReturn
<1>3. ASSUME pos = 18, req.wallet = "hot", req.kind = "resources" PROVE FALSE
  <2>1. ReturnsJump(19)
    BY <1>2, <1>3, StepAt DEF afterSendingCheckTransferKind, reclaim_resources
  <2>2. JumpsTo(19)
    BY <1>1, <2>1 DEF JumpsTo
  <2> QED
    BY <1>1, <2>2, JumpFields
<1>4. ASSUME pos = 19, delegateFrom PROVE FALSE
  <2>1. reclaimResources
    BY <1>2, <1>4, StepAt
  <2>2. UNCHANGED state
    BY <1>1, <1>4, <2>1 DEF reclaimResources, Reclaim, Returns, Return, Abort, Forget
  <2> QED
    BY <1>1, <2>2 DEF TronJumps
<1> QED
  BY <1>1, <1>2, <1>3, <1>4

\* When the payment is recorded every delegation is confirmed, and what is frozen
\* has its key in the state data; when a reclaim of everything frozen was recorded
\* and is confirmed, nothing is frozen.
Reclaiming ==
    /\ \A t \in Delegations : chain[t].state # "pending"
    /\ frozen \subseteq stateData /\ (pc # "idle" => frozen \subseteq loaded)
    /\ frozen # {} => req.wallet = "hot" /\ req.kind = "resources" /\ savedFrom
    /\ \A t \in Reclaims : Succeeds(chain[t]) => chain[t].res \notin frozen
    /\ (Past(19) \/ Succeeded(19)) => \A r \in frozen : \E t \in RecordsOf("reclaim") \cap Reclaims : chain[t].res = r
    /\ (Past(20) \/ Succeeded(20) \/ state.NextStep = 21) => frozen = {}

TronReclaiming == NoFault /\ Recorded # {} => Reclaiming

\* A record of the payment is written on the straight way only.
LEMMA RecordedFirst ==
    ASSUME EngineInv, TronFlow, [NextTron]_vars, NoFault', Recorded = {}, Recorded' # {}
    PROVE  /\ Pays /\ CurrentStep = 15 /\ pc = "func" /\ pos = 15 /\ Straight
           /\ pc' = "post" /\ loaded' = stateData /\ UNCHANGED <<pos, status, snapshot, state, stateData>>
<1>0. /\ TronTypes /\ TronTypeOK /\ TronJumps /\ TronWay /\ TronCompensation /\ TronSent /\ Cases
      /\ NoFault /\ ~Fault
  BY NextCases, TypesOf, NoFaultBefore DEF TronFlow
<1>1. ~Broadcasts
  BY <1>0, BroadcastsWhen, GrowsKeeps, TypeByStep DEF Broadcasts, Recorded
<1>2. Pays /\ CurrentStep = 15
  BY <1>0, <1>1, NextKeeps, GrowsKeeps, TypeByStep DEF Pays, NothingSent, Recorded
<1>3. ~UNCHANGED records
  BY <1>0 DEF Recorded, RecordsOf, TronTypeOK
<1>4. Finishes("nil") /\ loaded' = stateData /\ UNCHANGED stateData
  BY <1>0, <1>2, <1>3 DEF Pays
<1>5. snapshot.status[22] = "unset" /\ snapshot.state.NextStage # 4
  BY <1>0, <1>2, AtPayment, CurrentIsFurthest DEF Pays
<1> QED
  BY <1>0, <1>2, <1>4, <1>5, FinishFields DEF Pays, Straight

LEMMA ReclaimingBegins ==
    ASSUME EngineInv, TronFlow, TronPath, TronDelegates, TronDelegating, [NextTron]_vars,
           NoFault', Recorded = {}, Recorded' # {}
    PROVE  Reclaiming'
<1> USE DEF Settled, Begun
<1>0. /\ TronTypes /\ TronTypeOK /\ TronJumps /\ Path /\ Delegating /\ ResourcesMove
      /\ Pays /\ CurrentStep = 15 /\ pc = "func" /\ pos = 15 /\ pc' = "post"
      /\ loaded' = stateData /\ UNCHANGED <<pos, status, snapshot, state, stateData>>
      /\ snapshot.status = status
      /\ \A i \in 1..25 : status[i] \in StepStatus
  BY RecordedFirst, TypesOf, ResourcesFrom DEF TronPath, TronDelegating, TronFlow, TronTypes, EngineInv, MemoryInv
<1>1. Past(12) /\ Past(13)
  BY <1>0 DEF Path, InLoop, Past
<1>2. Backed /\ AllConfirmed /\ (Delegations # {} => savedFrom /\ status[12] \in Begun)
  BY <1>0, <1>1 DEF Delegating
<1>3. Delegations' = Delegations /\ Reclaims' = Reclaims /\ Reclaims = {}
  BY <1>0 DEF Delegating, ResourcesMove, Known, Delegations, Reclaims
<1>4. /\ frozen' = frozen /\ savedFrom' = savedFrom /\ req' = req
      /\ \A t \in Delegations : chain'[t] = chain[t]
  BY <1>0 DEF Pays, Remembers, Grows, Delegations
<1>5. frozen \subseteq stateData
  BY <1>2 DEF TronDelegates, Backed
<1>6. frozen # {} => Delegations # {} /\ req.wallet = "hot"
  BY DEF TronDelegates
<1>7. status[12] \in Begun => req.kind = "resources"
  BY <1>0, ChoiceNumbers DEF Path, Fork
<1>8. status[19] = "unset" /\ status[20] = "unset" /\ state.NextStep = 0
  BY <1>0, CurrentIsFurthest DEF TronJumps
<1>9. ~Past(19)' /\ ~Past(20)' /\ ~Succeeded(19)' /\ ~Succeeded(20)'
  BY <1>0, <1>8 DEF Past, Succeeded
<1> QED
  BY <1>0, <1>2, <1>3, <1>4, <1>5, <1>6, <1>7, <1>8, <1>9 DEF Reclaiming, AllConfirmed

LEMMA ReclaimingStep ==
    ASSUME EngineInv, TronFlow, TronPayment, TronCalm, TronArgument, TronReclaiming, [NextTron]_vars,
           NoFault', Recorded # {}
    PROVE  Reclaiming'
<1> USE DEF Settled
<1>0. /\ TronTypes /\ TronTypeOK /\ TronJumps /\ TronResults /\ CalmRun /\ Argument /\ Reclaiming
      /\ NoFault /\ ~Fault /\ Cases /\ [Next]_wfVars /\ ResourcesMove
      /\ pc \in {"func", "post"} => snapshot.status = status
  <2>1. Cases /\ [Next]_wfVars /\ TronTypes
    BY NextCases, TypesOf
  <2>2. NoFault /\ ~Fault
    BY <2>1, NoFaultBefore
  <2> QED
    BY <2>1, <2>2, ResourcesFrom DEF TronFlow, TronCalm, TronArgument, TronReclaiming, EngineInv, MemoryInv
<1>1. Delegations' = Delegations
  <2>1. ASSUME NEW t \in Delegations' \ Delegations PROVE FALSE
    <3>1. Broadcasts /\ pos = 12
      BY <1>0, <2>1 DEF ResourcesMove, Known, Delegations
    <3>2. status[15] # "unset"
      BY <1>0, <3>1 DEF Broadcasts, TronPayment
    <3> QED
      BY <1>0, <3>1, <3>2, BroadcastsWhen DEF TronFlow
  <2> QED
    BY <1>0, <2>1 DEF ResourcesMove, Known, Delegations
<1>2. frozen' \subseteq frozen
  BY <1>0 DEF ResourcesMove, Known, Reclaiming
<1>3. \A t \in Delegations' : chain'[t].state # "pending"
  BY <1>0, <1>1 DEF ResourcesMove, Known, Reclaiming, Delegations
<1>4. frozen' \subseteq stateData' /\ (pc' # "idle" => frozen' \subseteq loaded')
  BY <1>0, <1>2 DEF ResourcesMove, Reclaiming
<1>5. savedFrom => savedFrom'
  BY <1>0, ArgumentStep
<1>6. frozen' # {} => req'.wallet = "hot" /\ req'.kind = "resources" /\ savedFrom'
  BY <1>0, <1>2, <1>5 DEF ResourcesMove, Reclaiming
<1>7. ASSUME NEW t \in Reclaims', Succeeds(chain'[t]) PROVE chain'[t].res \notin frozen'
  <2>1. CASE t \in DOMAIN chain
    BY <1>0, <1>2, <1>7, <2>1 DEF ResourcesMove, Known, Reclaiming, Reclaims
  <2>2. CASE t \notin DOMAIN chain
    BY <1>0, <1>7, <2>2 DEF ResourcesMove, Reclaims, Succeeds
  <2> QED
    BY <2>1, <2>2
\* Of the jumps that are pending only the one to the success passes over these steps.
<1>8. ASSUME NEW i \in 19..20, PassesOver(i) PROVE state.NextStep = 21
  <2>1. state.NextStep \in {0, 19, 21, 22, 23, 25} \cup 2..15 /\ i =< state.NextStep
    BY <1>0, <1>8 DEF PassesOver, TronJumps, JumpShape, InLoop
  <2>2. state.NextStep # 22
    BY <1>0, <1>8, StageNumbers DEF PassesOver, TronJumps
  <2>3. state.NextStep \notin {23, 25}
    BY <1>0, <1>8 DEF PassesOver, CalmRun, From
  <2> QED
    BY <1>8, <2>1, <2>2, <2>3 DEF PassesOver
<1>9. \A r \in frozen' : (\E t \in RecordsOf("reclaim") \cap Reclaims : chain[t].res = r) =>
                            \E t \in RecordsOf("reclaim")' \cap Reclaims' : chain'[t].res = r
  BY <1>0 DEF ResourcesMove, Known, RecordsOf, Reclaims
<1>10. ASSUME Past(19)' \/ Succeeded(19)', NEW r \in frozen'
       PROVE  \E t \in RecordsOf("reclaim")' \cap Reclaims' : chain'[t].res = r
  <2>1. Past(19) \/ PassesOver(19) \/ Succeeded(19) \/ (pc = "func" /\ pos = 19 /\ StepFunction /\ Succeeded(19)')
    BY <1>0, <1>10, PastFrom, SucceededFrom
  <2>2. r \in frozen
    BY <1>2
  <2>3. CASE Past(19) \/ Succeeded(19)
    BY <1>0, <1>9, <2>2, <2>3 DEF Reclaiming
  <2>4. ~PassesOver(19)
    BY <1>0, <1>8, <2>2 DEF Reclaiming
  <2>5. CASE pc = "func" /\ pos = 19 /\ StepFunction /\ Succeeded(19)'
    <3>1. reclaimResources /\ frozen \subseteq loaded /\ savedFrom
      BY <1>0, <2>2, <2>5, StepAt DEF Reclaiming
    <3>2. delegateFrom
      BY <1>0, <2>5, <3>1 DEF Argument
    <3>3. CurrentStep \in 19..25
      BY <1>0, <2>5, CurrentIsFurthest DEF TronTypes
    <3> QED
      BY <1>0, <2>2, <2>5, <3>1, <3>2, <3>3, ReclaimNil DEF Succeeded
  <2> QED
    BY <2>1, <2>3, <2>4, <2>5
<1>11. ASSUME Past(20)' \/ Succeeded(20)' \/ state'.NextStep = 21 PROVE frozen = {}
  <2>1. \/ Past(20) \/ PassesOver(20) \/ Succeeded(20) \/ state.NextStep = 21
        \/ pc = "func" /\ pos = 20 /\ StepFunction /\ Succeeded(20)'
        \/ JumpsTo(21) /\ MayJump(21)
    BY <1>0, <1>11, PastFrom, SucceededFrom, NextStepFrom
  <2>2. CASE Past(20) \/ Succeeded(20) \/ state.NextStep = 21
    BY <1>0, <2>2 DEF Reclaiming
  <2>3. CASE PassesOver(20)
    BY <1>8, <2>2, <2>3
  <2>4. CASE pc = "func" /\ pos = 20 /\ StepFunction /\ Succeeded(20)'
    <3>1. Confirmed(RecordsOf("reclaim"))
      BY <1>0, <2>4, StepAt, ReclaimsAwaited DEF Succeeded
    <3>2. Past(19)
      BY <1>0, <2>4, StepNumbers DEF TronTypes, EngineInv, OrderInv, StageOrder, Past
    <3> QED
      BY <1>0, <3>1, <3>2 DEF Reclaiming, Confirmed, Succeeds
  <2>5. CASE JumpsTo(21) /\ MayJump(21)
    <3>1. /\ pc = "func"
          /\ (pos = 18 /\ ~(req.wallet = "hot" /\ req.kind = "resources")) \/ (pos = 19 /\ ~delegateFrom)
      BY <1>0, <2>5, JumpsToSuccess
    <3>2. delegateFrom = savedFrom
      BY <1>0, <3>1 DEF Argument
    <3> QED
      BY <1>0, <3>1, <3>2 DEF Reclaiming
  <2> QED
    BY <2>1, <2>2, <2>3, <2>4, <2>5
<1>12. (Past(20)' \/ Succeeded(20)' \/ state'.NextStep = 21) => frozen' = {}
  BY <1>2, <1>11
<1> QED
  BY <1>3, <1>4, <1>6, <1>7, <1>10, <1>12 DEF Reclaiming

(***************************************************************************)
(* The invariant of the reclaim                                            *)
(***************************************************************************)

ReclaimInv ==
    /\ TronCalm /\ TronPath /\ TronArgument
    /\ TronDelegates /\ TronDelegating /\ TronReclaiming

LEMMA InitReclaimInv == InitTron => ReclaimInv
<1> SUFFICES ASSUME InitTron PROVE ReclaimInv
  OBVIOUS
<1>1. \A i \in 1..25 : status[i] = "unset" /\ snapshot.status[i] = "unset"
  BY StepNumbers DEF InitTron, InitTransfer, Init, FreshStatus
<1>2. /\ state.NextStage = 0 /\ state.NextStep = 0 /\ snapshot.state.NextStep = 0
      /\ pc = "idle" /\ pos = 1 /\ stage = 0 /\ result = "nil"
  BY DEF InitTron, InitTransfer, Init, FreshState, None
<1>3. records = {} /\ chain = <<>> /\ frozen = {} /\ ~delegateFrom /\ ~savedFrom
  BY DEF InitTron
<1>4. TronCalm
  BY <1>1, <1>2 DEF TronCalm, CalmRun
<1>5. TronPath
  <2>1. Fork(status, state) /\ Fork(snapshot.status, snapshot.state)
    BY <1>1, <1>2, ForkAtStart
  <2>2. BeforePayment(status) /\ BeforePayment(snapshot.status)
    <3>1. \A i \in 15..21 : i \in 1..25
      OBVIOUS
    <3> QED
      BY <1>1, <3>1 DEF BeforePayment
  <2>3. ~Stopped(status) /\ ~Stopped(snapshot.status)
    <3>1. status[12] = "unset" /\ snapshot.status[12] = "unset"
      BY <1>1
    <3> QED
      BY <3>1 DEF Stopped
  <2> QED
    BY <1>1, <1>2, <2>1, <2>2, <2>3 DEF TronPath, Path, InLoop
<1>6. TronArgument
  BY <1>2, <1>3 DEF TronArgument, Argument
<1>7. Delegations = {} /\ Reclaims = {} /\ Recorded = {}
  BY <1>3 DEF Delegations, Reclaims, Recorded, RecordsOf
<1>8. TronDelegates /\ TronDelegating /\ TronReclaiming
  BY <1>1, <1>2, <1>3, <1>7 DEF TronDelegates, TronDelegating, Delegating, TronReclaiming, Past, Succeeded, Settled,
     Backed, AllConfirmed
<1> QED
  BY <1>4, <1>5, <1>6, <1>8 DEF ReclaimInv

LEMMA ReclaimInvStep == TronInv /\ ReclaimInv /\ [NextTron]_vars => ReclaimInv'
<1> SUFFICES ASSUME TronInv, ReclaimInv, [NextTron]_vars PROVE ReclaimInv'
  OBVIOUS
<1>0. /\ EngineInv /\ TronFlow /\ TronPayment /\ TronTypeOK /\ TronJumps /\ TronResults
      /\ Cases /\ [Next]_wfVars /\ UNCHANGED req
      /\ TronCalm /\ TronPath /\ TronArgument /\ TronDelegates /\ TronDelegating /\ TronReclaiming
  BY NextCases, NextKeeps DEF TronInv, TronFlow, ReclaimInv
<1>1. TronCalm' /\ TronArgument' /\ TronDelegates' /\ TronDelegating'
  BY <1>0, CalmStep, ArgumentStep, DelegatesStep, DelegatingStep
<1>2. TronPath'
  BY <1>0, ChosenByKind, PathStep
<1>3. TronReclaiming'
  BY <1>0, ReclaimingBegins, ReclaimingStep DEF TronReclaiming
<1> QED
  BY <1>1, <1>2, <1>3 DEF ReclaimInv

\* A Tron transfer that is completed leaves none of the resources delegated that it
\* got for its payment, unless a write failed or the process crashed: the step that
\* delegates is executed once, records every delegation and remembers its resource,
\* and the reclaim finds all of them.
THEOREM TronNothingLeftDelegated == SpecTron => []ReclaimNeedsNoFault
<1>1. TronInv /\ ReclaimInv => ReclaimNeedsNoFault
  <2> SUFFICES ASSUME TronInv, ReclaimInv, row.status = "completed", NoFault PROVE frozen = {}
    BY DEF ReclaimNeedsNoFault, NoFault
  <2>1. snapshot.status[21] \in Begun
    BY DEF TronInv, RowInv
  <2>2. snapshot.status[20] \in Settled
    BY <2>1, StepNumbers DEF TronInv, EngineInv, OrderInv, StageOrder, Begun
  <2>3. snapshot.status[17] = "completed"
    BY <2>1 DEF TronInv, TronFlow, TronWay, MainInTurn, Main
  <2>4. Recorded # {}
    BY <2>3 DEF TronInv, TronPayment, Done
  <2> QED
    BY <2>2, <2>4 DEF ReclaimInv, TronReclaiming, Reclaiming, Past
<1> QED
  BY <1>1, ReclaimInvStep, InitReclaimInv, TronInductive, PTL DEF SpecTron

=============================================================================
