------------------------- MODULE TransferEvmProofs --------------------------
(***************************************************************************)
(* Proofs about the transfers of the EVM chains, for every number of       *)
(* attempts, faults and confirmations.                                     *)
(***************************************************************************)
EXTENDS TransferEvm, TransferProofs, FiniteSetTheorems

\* The steps that no jump passes over.
Main ==
    {validate_request, sending, waiting_for_the_first_confirmation, waiting_confirmations, send_success_event}

Pending(st) == st.NextStage # None \/ st.NextStep # None

\* The only jump is the one to sending.  It is asked for after validate_request
\* and is over when sending begins; and only three steps fail the transfer.
EvmJumps ==
    /\ \A st \in {state, snapshot.state} :
            st.NextStage \in {None, StageOf[sending]} /\ st.NextStep \in {None, sending}
    /\ Pending(state) => status[validate_request] = "completed"
    /\ Pending(snapshot.state) => snapshot.status[validate_request] = "completed"
    /\ (InLoop /\ Pending(state)) => pos =< sending
    /\ (pc = "post" /\ Pending(state)) => pos < sending
    /\ pc = "func" => state.NextStep = None
    /\ result \in {"nil", "snooze", "failed", "error"}
    /\ (result = "failed" /\ pc \in {"post", "end", "failure"}) =>
            pos \in {waiting_send_base_asset_for_burn_confirmations, waiting_for_the_first_confirmation,
                     waiting_confirmations}

WayInv == PlainInv /\ EvmJumps /\ Walk(Main)

HasConfirmations ==
    /\ row.txHash \in DOMAIN chain
    /\ chain[row.txHash].state = "success"
    /\ chain[row.txHash].confirmations >= MinConfirmations

\* A status is announced or in the row only when the step that sets it was begun,
\* and the failure only with the verdict in the snapshot.
RowInv ==
    /\ "completed" \in events \cup {row.status} => snapshot.status[send_success_event] # "unset"
    /\ "unconfirmed" \in events \cup {row.status} =>
            snapshot.status[waiting_for_the_first_confirmation] # "unset"
    /\ "in_mempool" \notin events \cup {row.status}
    /\ "failed" \in events \cup {row.status} => snapshot.state.IsFailed

\* Step p has returned nil: unless a write fails or the process crashes, the next
\* snapshot has it settled.
Passed(p) ==
    \/ snapshot.status[p] \in Settled
    \/ pc = "post" /\ pos = p /\ result = "nil"
    \/ pc = "scan" /\ status[p] \in Settled

\* The payments of a type made by step p: each beyond the first needs a fault, and
\* the first either has its record or has closed the step.
PaidOnce(type, p) ==
    \/ Cardinality(Payments(type)) =< Spent
    \/ /\ RecordsOf(type) # {} \/ Closed(p) \/ Passed(p)
       /\ Cardinality(Payments(type)) =< Spent + 1

\* The base asset was sent by a step behind the jump and filed as the payment.
Misfiled == \E t \in RecordsOf("transfer") : chain[t].type = "base"

\* No step is passed over: sending begins with the two steps before it settled in
\* the snapshot, and a jump in the snapshot is about to be taken by this run.
Unbroken ==
    /\ snapshot.status[sending] # "unset" => snapshot.status[2] \in Settled /\ snapshot.status[3] \in Settled
    /\ (pc # "idle" /\ status[sending] # "unset") => status[2] \in Settled /\ status[3] \in Settled
    /\ (InLoop /\ pos >= 3) => status[2] \in Settled
    /\ (InLoop /\ pos >= 4) => status[3] \in Settled
    /\ (pc = "scan" /\ pos = 3) => stage = StageOf[3]
    /\ Pending(snapshot.state) => pc = "scan" /\ pos \in {3, 4} /\ status[sending] = "unset"
    /\ (pc # "idle" /\ Pending(state)) =>
            (pc = "scan" /\ pos >= 3) \/ (pc = "post" /\ pos \in {2, 3} /\ result = "nil")

\* Sending is the furthest step and send_base_asset_for_burn is still to be done.
Behind(s) ==
    s[sending] # "unset" /\ s[waiting_for_the_first_confirmation] = "unset" /\ s[send_base_asset_for_burn] \notin Settled

\* Such a snapshot is only met while sending is executed for the first time, or
\* when it has failed.
SendsOnce ==
    Behind(snapshot.status) =>
        \/ Finished(snapshot.state)
        \/ pc \in {"func", "post"} /\ pos = 4
        \/ pc = "scan" /\ pos = 5 /\ status[5] = "unset"
        \/ pc \in {"end", "failure"} /\ pos = 4 /\ result # "nil"

\* The run that misfiles the base asset fails in the next step, which finds no
\* record of it.
Doomed ==
    /\ RecordsOf("base") = {} /\ ~Pending(state)
    /\ status[4] # "unset" /\ status[5] = "unset" /\ snapshot.status[5] = "unset"
    /\ \/ pc = "post" /\ pos = 2 /\ result = "nil"
       \/ pc = "scan" /\ pos = 3 /\ stage = 1 /\ status[3] = "unset"
       \/ pc = "func" /\ pos = 3
       \/ pc \in {"post", "end", "failure"} /\ pos = 3 /\ result = "error"

\* What each number of faults cannot do yet: one to pass a step over, two to execute
\* it behind the jump, three to complete the transfer by what it sent.
FaultsNeeded ==
    /\ Spent >= 1 \/ Unbroken
    /\ Spent >= 2 \/ (SendsOnce /\ ~Misfiled)
    /\ Spent >= 3 \/ (Misfiled => Doomed \/ (Finished(snapshot.state) /\ snapshot.status[5] = "unset"))

EvmInv ==
    /\ WayInv
    /\ EvmTypeOK
    /\ Done(sending) => row.txHash \in RecordsOf("transfer")
    /\ Done(waiting_confirmations) => HasConfirmations
    /\ RowInv
    /\ PaidOnce("transfer", sending)
    /\ Cardinality(Payments("base")) =< Spent + 1
    /\ snapshot.status[waiting_for_the_first_confirmation] = "unset" => PaidOnce("base", send_base_asset_for_burn)
    /\ FaultsNeeded

(***************************************************************************)
(* How the step functions end                                              *)
(***************************************************************************)

LEMMA StepNumbers ==
    /\ Steps = 1..7
    /\ StageOf[1] = 1 /\ StageOf[2] = 1 /\ StageOf[3] = 1 /\ StageOf[4] = 2
    /\ StageOf[5] = 3 /\ StageOf[6] = 3 /\ StageOf[7] = 3
    /\ Main = {1, 4, 5, 6, 7} /\ Main \in SUBSET Steps
BY EvmSteps DEF Steps, EvmStageOf, Main, validate_request, sending, waiting_for_the_first_confirmation,
   waiting_confirmations, send_success_event

Ends ==
    \/ \E r \in {"nil", "snooze", "error"} : Finishes(r)
    \/ pos \in {3, 5, 6} /\ Finishes("failed")
    \/ pos \in {2, 3} /\ JumpsTo(4)
    \/ Dies

LEMMA ResultEnds ==
    ASSUME NEW r \in {"nil", "snooze", "error"}, pc = "func", Returns(r) PROVE Ends
BY ReturnsEnds DEF Ends

LEMMA FailedEnds == ASSUME pos \in {3, 5, 6}, pc = "func", Returns("failed") PROVE Ends
BY ReturnsEnds DEF Ends

LEMMA AbortedEnds == ASSUME pc = "func", Abort PROVE Ends
BY AbortEnds DEF Ends

LEMMA EnsureEnds == ASSUME NEW t, pos \in {3, 5}, pc = "func", ensureTxFails(t) PROVE Ends
<1>1. (Fault /\ Return("failed", state) /\ UNCHANGED snapshot) => Ends
  BY DEF Ends, Finishes
<1> QED
  BY <1>1, ResultEnds, FailedEnds DEF ensureTxFails

LEMMA SubmitFailsEnds ==
    ASSUME NEW type, pc = "func", SubmitFails(type)
    PROVE  /\ UNCHANGED records
           /\ UNCHANGED chain \/ Submitted(type)
           /\ \/ Finishes("error") /\ UNCHANGED faults
              \/ Fault /\ (Finishes("error") \/ Dies)
BY ReturnsEnds, AbortEnds DEF SubmitFails

LEMMA StepFunctionEnds == StepFunction => Ends
<1> USE DEF InStep
<1>1. validateRequest => Ends
  BY ResultEnds, SetStatusEnds DEF validateRequest, Ends
<1>2. sendBaseAssetForBurn => Ends
  <2> SUFFICES ASSUME sendBaseAssetForBurn PROVE Ends
    OBVIOUS
  <2>1. pc = "func" /\ pos = 2
    BY DEF sendBaseAssetForBurn, send_base_asset_for_burn
  <2>2. CASE SubmitFails("base")
    BY <2>1, <2>2, SubmitFailsEnds DEF Ends
  <2>3. CASE ReturnsJump(sending)
    BY <2>1, <2>3 DEF Ends, JumpsTo, sending
  <2> QED
    BY <2>1, <2>2, <2>3, ResultEnds, AbortedEnds DEF sendBaseAssetForBurn, stepWhFails
<1>3. waitingSendBurnBaseAssetConfirmations => Ends
  <2> SUFFICES ASSUME waitingSendBurnBaseAssetConfirmations PROVE Ends
    OBVIOUS
  <2>1. pc = "func" /\ pos = 3
    BY DEF waitingSendBurnBaseAssetConfirmations, waiting_send_base_asset_for_burn_confirmations
  <2>2. CASE ReturnsJump(sending)
    BY <2>1, <2>2 DEF Ends, JumpsTo, sending
  <2> QED
    BY <2>1, <2>2, ResultEnds, EnsureEnds DEF waitingSendBurnBaseAssetConfirmations
<1>4. sendingStep => Ends
  <2> SUFFICES ASSUME sendingStep PROVE Ends
    OBVIOUS
  <2>1. pc = "func" /\ pos = 4
    BY DEF sendingStep, sending
  <2>2. CASE SubmitFails("transfer")
    BY <2>1, <2>2, SubmitFailsEnds DEF Ends
  <2>3. CASE LostRun
    BY <2>1, <2>3 DEF Ends, Dies
  <2> QED
    BY <2>1, <2>2, <2>3, ResultEnds, AbortedEnds DEF sendingStep
<1>5. waitingForTheFirstConfirmation => Ends
  <2> SUFFICES ASSUME waitingForTheFirstConfirmation PROVE Ends
    OBVIOUS
  <2>1. pc = "func" /\ pos = 5
    BY DEF waitingForTheFirstConfirmation, waiting_for_the_first_confirmation
  <2>2. CASE setTransferStatus("unconfirmed", "nil")
    BY <2>1, <2>2, SetStatusEnds DEF Ends
  <2> QED
    BY <2>1, <2>2, ResultEnds, FailedEnds, AbortedEnds, EnsureEnds DEF waitingForTheFirstConfirmation, stepWhFails
<1>6. waitingConfirmations => Ends
  BY ResultEnds, FailedEnds, AbortedEnds DEF waitingConfirmations, stepWhFails, waiting_confirmations
<1>7. sendSuccessEvent => Ends
  BY SetStatusEnds DEF sendSuccessEvent, Ends
<1> QED
  BY <1>1, <1>2, <1>3, <1>4, <1>5, <1>6, <1>7 DEF StepFunction

\* OnFailureFn fails the transfer, or loses the failure, or leaves it to River.
ExitsOnFailure == result = "failed" \/ CurrentStep \in exitOnFailedSteps

LEMMA OnFailureCases ==
    OnFailure =>
        /\ UNCHANGED evmVars
        /\ \/ ExitsOnFailure /\ sendFailureEvent({0})
           \/ LoseFailure /\ UNCHANGED trVars
           \/ ~ExitsOnFailure /\ IgnoreFailure /\ UNCHANGED trVars
BY DEF OnFailure, failureEventLost, ExitsOnFailure

LEMMA OnFailureEvent ==
    ASSUME sendFailureEvent({0})
    PROVE  /\ pc = "failure" /\ (GiveUp \/ Crash \/ CrashAfterVerdict)
           /\ \/ FailureWrites(3) /\ UNCHANGED faults /\ GiveUp
              \/ Fault /\ FailureWrites(0)
BY FailureEventEnds

\* Every step of the FSM is one of the engine's.
LEMMA EvmIsPlain == [NextEvm]_vars => [NextPlain]_wfVars
<1> SUFFICES ASSUME [NextEvm]_vars PROVE [NextPlain]_wfVars
  OBVIOUS
<1>1. CASE StepFunction
  <2>1. CASE pos \in {2, 3} /\ JumpsTo(4)
    <3>1. 4 \in Steps /\ 4 > pos
      BY <2>1, StepNumbers
    <3> QED
      BY <2>1, <3>1, StepEnds DEF NextPlain
  <2> QED
    BY <1>1, <2>1, StepFunctionEnds, StepEnds DEF Ends, Results, NextPlain, Engine
<1>2. CASE OnFailure
  BY <1>2, OnFailureCases, OnFailureEvent DEF NextPlain, Engine
<1>3. CASE EngineStep
  BY <1>3 DEF EngineStep, NextPlain
<1>4. CASE UNCHANGED wfVars
  BY <1>4
<1> QED
  BY <1>1, <1>2, <1>3, <1>4 DEF NextEvm, TimePasses, ChainMoves, vars

\* The FSM of the EVM chains runs on the workflow engine: what is proved of the
\* engine holds of it.
THEOREM EvmRunsOnEngine == SpecEvm => Spec
<1>1. InitEvm => Init
  BY DEF InitEvm, InitTransfer
<1>2. [NextEvm]_vars => [Next]_wfVars
  BY EvmIsPlain, PlainIsEngine
<1> QED
  BY <1>1, <1>2, PTL DEF SpecEvm, Spec

(***************************************************************************)
(* The way through the steps                                               *)
(***************************************************************************)

\* EvmJumps with the numbers of the steps.
LEMMA JumpNumbers ==
    EvmJumps <=>
        /\ state.NextStage \in {0, 2} /\ state.NextStep \in {0, 4}
        /\ snapshot.state.NextStage \in {0, 2} /\ snapshot.state.NextStep \in {0, 4}
        /\ Pending(state) => status[1] = "completed"
        /\ Pending(snapshot.state) => snapshot.status[1] = "completed"
        /\ (InLoop /\ Pending(state)) => pos =< 4
        /\ (pc = "post" /\ Pending(state)) => pos < 4
        /\ pc = "func" => state.NextStep = 0
        /\ result \in {"nil", "snooze", "failed", "error"}
        /\ (result = "failed" /\ pc \in {"post", "end", "failure"}) => pos \in {3, 5, 6}
BY StepNumbers DEF EvmJumps, sending, validate_request, None, waiting_confirmations,
   waiting_send_base_asset_for_burn_confirmations, waiting_for_the_first_confirmation

LEMMA JumpsStepEvm == WayInv /\ [NextEvm]_vars => EvmJumps'
<1> SUFFICES ASSUME WayInv, [NextEvm]_vars PROVE EvmJumps'
  OBVIOUS
<1> USE DEF Pending, None
<1>0. /\ EngineInv /\ IndInv /\ Walk(Main) /\ EvmJumps
      /\ state \in WorkflowState /\ snapshot \in Snapshot
      /\ status \in [1..7 -> StepStatus]
      /\ pos \in 1..8
      /\ pc = "idle" => pos = 1
      /\ pc \in {"func", "post"} => status[pos] = "processing" /\ pos \in 1..7
  BY StepNumbers, EvmSteps DEF WayInv, PlainInv, EngineInv, IndInv, TypeOK, Loops, InLoop
<1>1. /\ state.NextStage \in {0, 2} /\ state.NextStep \in {0, 4}
      /\ snapshot.state.NextStage \in {0, 2} /\ snapshot.state.NextStep \in {0, 4}
      /\ Pending(state) => status[1] = "completed"
      /\ Pending(snapshot.state) => snapshot.status[1] = "completed"
      /\ (InLoop /\ Pending(state)) => pos =< 4
      /\ (pc = "post" /\ Pending(state)) => pos < 4
      /\ pc = "func" => state.NextStep = 0
      /\ result \in {"nil", "snooze", "failed", "error"}
      /\ (result = "failed" /\ pc \in {"post", "end", "failure"}) => pos \in {3, 5, 6}
  BY <1>0, JumpNumbers
<1> DEFINE Goal == /\ state'.NextStage \in {0, 2} /\ state'.NextStep \in {0, 4}
                   /\ snapshot'.state.NextStage \in {0, 2} /\ snapshot'.state.NextStep \in {0, 4}
                   /\ Pending(state') => status'[1] = "completed"
                   /\ Pending(snapshot'.state) => snapshot'.status[1] = "completed"
                   /\ (InLoop' /\ Pending(state')) => pos' =< 4
                   /\ (pc' = "post" /\ Pending(state')) => pos' < 4
                   /\ pc' = "func" => state'.NextStep = 0
                   /\ result' \in {"nil", "snooze", "failed", "error"}
                   /\ (result' = "failed" /\ pc' \in {"post", "end", "failure"}) => pos' \in {3, 5, 6}
<1>2. SUFFICES Goal
  BY StepNumbers DEF EvmJumps, sending, validate_request, waiting_confirmations,
     waiting_send_base_asset_for_burn_confirmations, waiting_for_the_first_confirmation
<1>3. /\ FreshState.NextStage = 0 /\ FreshState.NextStep = 0
      /\ FailedState.NextStage = state.NextStage /\ FailedState.NextStep = state.NextStep
  BY <1>0 DEF FreshState, FailedState, WorkflowState
<1>4. CASE Start
  BY <1>0, <1>1, <1>4 DEF Start, InLoop
<1>5. CASE ExitFinished
  BY <1>1, <1>5 DEF ExitFinished, InLoop
<1>6. CASE EnterStage
  BY <1>0, <1>1, <1>6 DEF EnterStage, AtStage, InLoop, WorkflowState
<1>7. CASE SkipStage
  <2>1. state.NextStage \notin {0, StageOf[pos]} /\ pc = "scan" /\ pc' = "scan" /\ pos' = pos + 1
    BY <1>7 DEF SkipStage, AtStage
  <2>2. pos < 4
    BY <1>0, <1>1, <2>1, StepNumbers DEF InLoop
  <2> QED
    BY <1>0, <1>1, <1>7, <2>1, <2>2 DEF SkipStage
<1>8. CASE SkipStep
  <2>1. /\ pc = "scan" /\ pc' = "scan" /\ pos' = pos + 1 /\ state' = ConsumeNextStep /\ pos \in 1..7
        /\ UNCHANGED <<snapshot, result>>
    BY <1>8, StepNumbers DEF SkipStep, AtStep
  <2>2. pos = 4 => state.NextStage = 0
    BY <1>0, <1>1, <1>8, StepNumbers DEF SkipStep, AtStep, IndInv, Jumps, InLoop
  <2>3. /\ state'.NextStage = state.NextStage /\ state'.NextStep \in {0, 4}
        /\ pos = 4 => state'.NextStep = 0 /\ state'.NextStage = 0
    BY <1>0, <1>1, <2>1, <2>2 DEF ConsumeNextStep, WorkflowState
  <2>4. Pending(state') => Pending(state)
    BY <1>0, <1>1, <2>1, <2>3 DEF ConsumeNextStep, WorkflowState
  <2>5. status[1] = "completed" => status'[1] = "completed"
    BY <1>0, <1>8, <2>1 DEF SkipStep, Settled
  <2>6. Pending(state') => pos < 4
    BY <1>0, <1>1, <2>1, <2>3, <2>4 DEF InLoop
  <2> QED
    BY <1>1, <2>1, <2>3, <2>4, <2>5, <2>6
<1>9. CASE BeginStep
  <2>1. state' = ConsumeNextStep /\ state.NextStep \in {0, pos} /\ pc' \in {"func", "end"} /\ UNCHANGED pos
    BY <1>9 DEF BeginStep
  <2>2. state.NextStage = 0
    BY <1>0, <1>9, NoStagePending DEF BeginStep
  <2>3. state'.NextStage = 0 /\ state'.NextStep = 0
    BY <1>0, <2>1, <2>2 DEF ConsumeNextStep, WorkflowState
  <2>4. snapshot'.state = state' \/ UNCHANGED snapshot
    BY <1>9 DEF BeginStep, SaveSnapshot, SaveFails
  <2>5. result' \in {"nil", "error"}
    BY <1>0, <1>9 DEF BeginStep, AtStep, EngineInv, OutcomeInv
  <2> QED
    BY <1>1, <2>1, <2>3, <2>4, <2>5
<1>10. CASE AfterStep
  <2>1. PICK r \in {result, "error"} : Settle(r)
    BY <1>10 DEF AfterStep
  <2>2. /\ pc = "post" /\ UNCHANGED state
        /\ UNCHANGED snapshot \/ (snapshot'.state = state /\ snapshot'.status = status)
    BY <1>10 DEF AfterStep, SaveFails
  <2>3. status[1] = "completed" => status'[1] = "completed"
    BY <1>0, <2>1, <2>2 DEF Settle
  <2>4. pos' \in {pos, pos + 1} /\ (pc' = "end" => UNCHANGED pos) /\ pc' \in {"scan", "return", "end"}
    BY <1>0, <1>1, <2>1 DEF Settle
  <2>5. result' \in {"nil", r}
    BY <2>1 DEF Settle
  <2> QED
    BY <1>0, <1>1, <2>1, <2>2, <2>3, <2>4, <2>5 DEF InLoop
<1>11. CASE EndExecute
  <2>1. state'.NextStage = state.NextStage /\ state'.NextStep = state.NextStep
    BY <1>0, <1>11 DEF EndExecute, WorkflowState
  <2>2. UNCHANGED snapshot \/ (snapshot'.state = state' /\ snapshot'.status = status)
    BY <1>11 DEF EndExecute, SaveSnapshot, SaveFails
  <2>3. UNCHANGED <<status, pos, result>> /\ pc' \in {"failure", "return"}
    BY <1>11 DEF EndExecute
  <2>4. (result' = "failed" /\ pc' \in {"post", "end", "failure"}) => pos' \in {3, 5, 6}
    BY <1>0, <1>1, <1>11 DEF EndExecute, EngineInv, OutcomeInv
  <2> QED
    BY <1>1, <2>1, <2>2, <2>3, <2>4 DEF InLoop
<1>12. CASE ReturnToRiver \/ Crash
  BY <1>1, <1>3, <1>12 DEF ReturnToRiver, Crash, Forget, InLoop
<1>13. CASE StepFunction
  <2>1. UNCHANGED snapshot /\ pc = "func"
    BY <1>13, StepFunctionEnds DEF Ends, Finishes, Dies, LostRun, JumpsTo, ReturnsJump
  <2>2. CASE \E r \in {"nil", "snooze", "error"} : Finishes(r)
    <3>1. state.NextStage = 0
      BY <1>0, <2>1 DEF IndInv, Jumps
    <3> QED
      BY <1>1, <2>1, <2>2, <3>1 DEF Finishes, Return, InLoop
  <2>3. CASE pos \in {3, 5, 6} /\ Finishes("failed")
    BY <1>1, <2>1, <2>3 DEF Finishes, Return, InLoop
  <2>4. CASE pos \in {2, 3} /\ JumpsTo(4)
    <3>1. state' = [state EXCEPT !.NextStage = 2, !.NextStep = 4]
      BY <2>4, StepNumbers DEF JumpsTo, ReturnsJump, Return, Jump
    <3>2. status[1] = "completed"
      BY <1>0, <2>1, <2>4, StepNumbers DEF Walk, InLoop
    <3>3. pc' = "post" /\ result' = "nil" /\ UNCHANGED <<status, pos>>
      BY <2>4 DEF JumpsTo, ReturnsJump, Return
    <3> QED
      BY <1>0, <1>1, <2>1, <2>4, <3>1, <3>2, <3>3 DEF WorkflowState
  <2>5. CASE Dies
    BY <1>1, <1>3, <2>1, <2>5 DEF Dies, LostRun, Forget, InLoop
  <2> QED
    BY <1>13, <2>2, <2>3, <2>4, <2>5, StepFunctionEnds DEF Ends
<1>14. CASE GiveUp
  <2>1. /\ state' = FailedState /\ pc' = "return" /\ UNCHANGED <<status, result>>
        /\ UNCHANGED snapshot \/ (snapshot'.state = FailedState /\ snapshot'.status = status)
    BY <1>14 DEF GiveUp, VerdictWrites, SaveVerdict, SaveFails
  <2> QED
    BY <1>1, <1>3, <2>1 DEF InLoop
<1>15. CASE CrashAfterVerdict
  BY <1>1, <1>3, <1>15 DEF CrashAfterVerdict, SaveVerdict, Forget, InLoop
<1>16. CASE LoseFailure \/ IgnoreFailure
  BY <1>1, <1>16 DEF LoseFailure, IgnoreFailure, InLoop
<1>17. CASE UNCHANGED wfVars
  BY <1>1, <1>17 DEF wfVars, InLoop
<1>18. CASE OnFailure
  BY <1>12, <1>14, <1>15, <1>16, <1>18, OnFailureCases, OnFailureEvent
<1> HIDE DEF Goal
<1> QED
  BY <1>4, <1>5, <1>6, <1>7, <1>8, <1>9, <1>10, <1>11, <1>12, <1>13, <1>17, <1>18
     DEF NextEvm, EngineStep, Engine, TimePasses, ChainMoves, vars

LEMMA WayInductive ==
    /\ InitEvm => WayInv
    /\ WayInv /\ [NextEvm]_vars => WayInv'
<1>1. InitEvm => WayInv
  <2> SUFFICES ASSUME InitEvm PROVE WayInv
    OBVIOUS
  <2>1. Init
    BY DEF InitEvm, InitTransfer
  <2>2. PlainInv
    BY <2>1, EngineInductive DEF PlainInv, Init
  <2>3. EvmJumps
    BY <2>1 DEF Init, FreshState, EvmJumps, Pending
  <2>4. Walk(Main)
    BY <2>1, StepNumbers DEF Init, FreshStatus, Walk, InTurn, InLoop
  <2> QED
    BY <2>2, <2>3, <2>4 DEF WayInv
<1>2. WayInv /\ [NextEvm]_vars => WayInv'
  <2> SUFFICES ASSUME WayInv, [NextEvm]_vars PROVE WayInv'
    OBVIOUS
  <2>1. PlainInv'
    BY PlainStep, EvmIsPlain DEF WayInv
  <2>2. EvmJumps'
    BY JumpsStepEvm
  <2>3. KeepsToWay(Main)
    <3>1. result \notin {"skipStep", "breakStages"}
      BY JumpNumbers DEF WayInv
    <3>2. ASSUME pc = "scan", pos \in {1, 4, 5, 6, 7}, status[pos] # "completed"
          PROVE  state.NextStage \in {None, StageOf[pos]} /\ state.NextStep \in {None, pos}
      BY <3>2, JumpNumbers, StepNumbers DEF WayInv, Pending, InLoop, None
    <3> QED
      BY <3>1, <3>2, StepNumbers DEF KeepsToWay
  <2>4. Walk(Main)'
    BY <2>3, WalkStep, EvmIsPlain, PlainIsEngine, StepNumbers DEF WayInv, PlainInv
  <2> QED
    BY <2>1, <2>2, <2>4 DEF WayInv
<1> QED
  BY <1>1, <1>2

(***************************************************************************)
(* The chain and the records                                               *)
(***************************************************************************)

Tx == [type: {"base", "transfer"}, state: {"pending", "success", "reverted", "dropped"},
       confirmations: 0..MinConfirmations]

\* Step p submits a transaction of the type, of which there is no record yet; the
\* record may be of another type.
Submits(type, p) ==
    /\ pc = "func" /\ pos = p
    /\ RecordsOf(type) = {}
    /\ Submitted(type)
    /\ \/ records' = records \cup {<<TxType, Len(chain')>>} /\ (type = "base" => Returns("nil"))
       \/ UNCHANGED records /\ Finishes("error") /\ UNCHANGED faults
       \/ UNCHANGED records /\ Fault

\* A step function leaves the chain alone, or submits.
LEMMA StepEffects ==
    ASSUME StepFunction
    PROVE  UNCHANGED <<records, chain>> \/ Submits("base", 2) \/ Submits("transfer", 4)
<1>1. CASE sendBaseAssetForBurn
  <2>1. pc = "func" /\ pos = 2
    BY <1>1 DEF sendBaseAssetForBurn, send_base_asset_for_burn, InStep
  <2>2. CASE stepWhFails
    BY <2>2 DEF stepWhFails, evmVars
  <2>3. CASE RecordsOf("base") = {} /\ SubmitFails("base")
    BY <2>1, <2>3, SubmitFailsEnds DEF Submits
  <2>4. CASE RecordsOf("base") = {} /\ SubmitRecorded("base") /\ Returns("nil")
    BY <2>1, <2>4 DEF Submits, SubmitRecorded
  <2> QED
    BY <1>1, <2>2, <2>3, <2>4 DEF sendBaseAssetForBurn
<1>2. CASE sendingStep
  <2>1. pc = "func" /\ pos = 4
    BY <1>2 DEF sendingStep, sending, InStep
  <2>2. CASE RecordsOf("transfer") = {} /\ SubmitFails("transfer")
    BY <2>1, <2>2, SubmitFailsEnds DEF Submits
  <2>3. CASE RecordsOf("transfer") = {} /\ SubmitRecorded("transfer")
    BY <2>1, <2>3 DEF Submits, SubmitRecorded
  <2> QED
    BY <1>2, <2>2, <2>3 DEF sendingStep
<1> QED
  BY <1>1, <1>2 DEF StepFunction, validateRequest, waitingSendBurnBaseAssetConfirmations, waitingForTheFirstConfirmation,
     waitingConfirmations, sendSuccessEvent, stepWhFails, evmVars

\* Nothing else touches the records, and only ChainMoves the transactions.
LEMMA ChainEffects ==
    ASSUME [NextEvm]_vars
    PROVE  \/ UNCHANGED <<records, chain>>
           \/ StepFunction /\ (Submits("base", 2) \/ Submits("transfer", 4))
           \/ ChainMoves
BY StepEffects, OnFailureCases DEF NextEvm, EngineStep, TimePasses, evmVars, vars

\* A new transaction comes behind the others.
LEMMA SubmittedAppends ==
    ASSUME chain \in Seq(Tx), NEW type \in {"base", "transfer"}, Submitted(type)
    PROVE  /\ chain' \in Seq(Tx) /\ Len(chain) \in Nat /\ Len(chain') = Len(chain) + 1
           /\ DOMAIN chain = 1..Len(chain) /\ DOMAIN chain' = DOMAIN chain \cup {Len(chain')}
           /\ Len(chain') \notin DOMAIN chain
           /\ \A t \in DOMAIN chain : chain'[t] = chain[t]
           /\ chain'[Len(chain')].type = type
<1> DEFINE new == [type |-> type, state |-> "pending", confirmations |-> 0]
<1>1. new \in Tx
  BY EvmAssumption DEF Tx
<1>2. chain' = Append(chain, new)
  BY DEF Submitted
<1>3. new.type = type
  OBVIOUS
<1> HIDE DEF new
<1>4. chain' \in Seq(Tx) /\ Len(chain) \in Nat /\ Len(chain') = Len(chain) + 1
  BY <1>1, <1>2
<1>5. DOMAIN chain = 1..Len(chain) /\ DOMAIN chain' = 1..Len(chain')
  BY <1>4
<1>6. chain'[Len(chain) + 1] = new /\ \A t \in 1..Len(chain) : chain'[t] = chain[t]
  BY <1>1, <1>2, <1>4
<1> QED
  BY <1>3, <1>4, <1>5, <1>6

\* What the chain may do to a transaction.
LEMMA ChainMovesTx ==
    ASSUME chain \in Seq(Tx), ChainMoves
    PROVE  /\ chain' \in Seq(Tx) /\ DOMAIN chain' = DOMAIN chain
           /\ \A t \in DOMAIN chain :
                /\ chain'[t].type = chain[t].type
                /\ chain[t].state = "success" =>
                        chain'[t].state = "success" /\ chain[t].confirmations =< chain'[t].confirmations
<1> USE EvmAssumption
<1>0. Len(chain) \in Nat /\ DOMAIN chain = 1..Len(chain) /\ \A t \in DOMAIN chain : chain[t] \in Tx
  OBVIOUS
<1>1. ASSUME NEW tx \in Tx, NEW new \in Moved(tx)
      PROVE  /\ new \in Tx /\ new.type = tx.type
             /\ tx.state = "success" => new.state = "success" /\ tx.confirmations =< new.confirmations
  <2>1. CASE tx.state = "pending"
    BY <2>1 DEF Moved, Tx
  <2>2. CASE tx.state # "pending"
    BY <2>2 DEF Moved, Tx
  <2> QED
    BY <2>1, <2>2
<1>2. PICK u \in DOMAIN chain : \E tx \in Moved(chain[u]) : chain' = [chain EXCEPT ![u] = tx]
  BY DEF ChainMoves
<1>3. PICK tx \in Moved(chain[u]) : chain' = [chain EXCEPT ![u] = tx]
  BY <1>2
<1>4. /\ tx \in Tx /\ tx.type = chain[u].type
      /\ chain[u].state = "success" => tx.state = "success" /\ chain[u].confirmations =< tx.confirmations
  BY <1>0, <1>1
<1>5. chain' \in Seq(Tx) /\ DOMAIN chain' = DOMAIN chain
  BY <1>0, <1>3, <1>4
<1>6. \A t \in DOMAIN chain : chain'[t] = IF t = u THEN tx ELSE chain[t]
  BY <1>3
<1>7. \A t \in DOMAIN chain : chain[t].confirmations =< chain[t].confirmations
  BY <1>0 DEF Tx
<1> QED
  BY <1>4, <1>5, <1>6, <1>7

ChainOK == chain \in Seq(Tx) /\ records \subseteq {"base", "transfer"} \X DOMAIN chain

\* No transaction and no record is forgotten, and a success is not taken back.
LEMMA ChainStep ==
    ASSUME ChainOK, [NextEvm]_vars
    PROVE  /\ ChainOK' /\ records \subseteq records' /\ DOMAIN chain \subseteq DOMAIN chain'
           /\ \A t \in DOMAIN chain :
                /\ chain'[t].type = chain[t].type
                /\ chain[t].state = "success" =>
                        chain'[t].state = "success" /\ chain[t].confirmations =< chain'[t].confirmations
<1>0. \A t \in DOMAIN chain : chain[t].confirmations =< chain[t].confirmations
  <2>1. \A t \in DOMAIN chain : chain[t] \in Tx
    BY DEF ChainOK
  <2> QED
    BY <2>1, EvmAssumption DEF Tx
<1>1. CASE UNCHANGED <<records, chain>>
  BY <1>0, <1>1 DEF ChainOK
<1>2. CASE ChainMoves
  BY <1>2, ChainMovesTx DEF ChainMoves, ChainOK
<1>3. ASSUME NEW type \in {"base", "transfer"}, NEW p, Submits(type, p)
      PROVE  /\ ChainOK' /\ records \subseteq records' /\ DOMAIN chain \subseteq DOMAIN chain'
             /\ \A t \in DOMAIN chain : chain'[t] = chain[t]
  <2>1. /\ chain' \in Seq(Tx) /\ DOMAIN chain' = DOMAIN chain \cup {Len(chain')}
        /\ \A t \in DOMAIN chain : chain'[t] = chain[t]
    BY <1>3, SubmittedAppends DEF Submits, ChainOK
  <2>2. TxType \in {"base", "transfer"}
    BY <1>3 DEF Submits, Submitted, TxType
  <2>3. records \subseteq {"base", "transfer"} \X DOMAIN chain'
    BY <2>1 DEF ChainOK
  <2>4. records' = records \/ records' = records \cup {<<TxType, Len(chain')>>}
    BY <1>3 DEF Submits
  <2>5. <<TxType, Len(chain')>> \in {"base", "transfer"} \X DOMAIN chain'
    BY <2>1, <2>2
  <2>6. records' \subseteq {"base", "transfer"} \X DOMAIN chain' /\ records \subseteq records'
    BY <2>3, <2>4, <2>5
  <2> QED
    BY <2>1, <2>6 DEF ChainOK
<1> QED
  BY <1>0, <1>1, <1>2, <1>3, ChainEffects

LEMMA RecordsKeep ==
    ASSUME ChainOK, [NextEvm]_vars, NEW type
    PROVE  RecordsOf(type) \subseteq RecordsOf(type)' /\ RecordsOf(type) \subseteq DOMAIN chain
BY ChainStep DEF RecordsOf

\* A submission is one payment more, anything else none.
LEMMA PaymentsStep ==
    ASSUME ChainOK, [NextEvm]_vars, NEW type \in {"base", "transfer"}
    PROVE  /\ Cardinality(Payments(type)) \in Nat
           /\ \/ UNCHANGED Cardinality(Payments(type))
              \/ /\ StepFunction /\ Submits(type, IF type = "base" THEN 2 ELSE 4)
                 /\ Cardinality(Payments(type)') = Cardinality(Payments(type)) + 1
<1>1. IsFiniteSet(Payments(type)) /\ Cardinality(Payments(type)) \in Nat
  <2>1. IsFiniteSet(1..Len(chain)) /\ Payments(type) \subseteq 1..Len(chain)
    BY FS_Interval DEF ChainOK, Payments
  <2> QED
    BY <2>1, FS_Subset, FS_CardinalityType
<1>2. CASE UNCHANGED <<records, chain>>
  BY <1>1, <1>2 DEF Payments
<1>3. CASE ChainMoves
  <2>1. Payments(type)' = Payments(type)
    BY <1>3, ChainMovesTx DEF ChainOK, Payments
  <2> QED
    BY <1>1, <2>1
<1>4. ASSUME NEW other \in {"base", "transfer"}, NEW p, Submits(other, p)
      PROVE  /\ other = type => Cardinality(Payments(type)') = Cardinality(Payments(type)) + 1
             /\ other # type => UNCHANGED Cardinality(Payments(type))
  <2>1. /\ DOMAIN chain' = DOMAIN chain \cup {Len(chain')} /\ Len(chain') \notin DOMAIN chain
        /\ \A t \in DOMAIN chain : chain'[t] = chain[t]
        /\ chain'[Len(chain')].type = other
    BY <1>4, SubmittedAppends DEF Submits, ChainOK
  <2>2. CASE other = type
    <3>1. Payments(type)' = Payments(type) \cup {Len(chain')} /\ Len(chain') \notin Payments(type)
      BY <2>1, <2>2 DEF Payments
    <3>2. Cardinality(Payments(type)') = Cardinality(Payments(type)) + 1
      BY <1>1, <3>1, FS_AddElement
    <3> QED
      BY <2>2, <3>2
  <2>3. CASE other # type
    <3>1. Payments(type)' = Payments(type)
      BY <2>1, <2>3 DEF Payments
    <3> QED
      BY <2>3, <3>1
  <2> QED
    BY <2>2, <2>3
<1> QED
  BY <1>1, <1>2, <1>3, <1>4, ChainEffects

\* Every action keeps the variables of the FSM in their types.
LEMMA EvmTypeStep == WayInv /\ WayInv' /\ EvmTypeOK /\ [NextEvm]_vars => EvmTypeOK'
<1> SUFFICES ASSUME WayInv, WayInv', EvmTypeOK, [NextEvm]_vars PROVE EvmTypeOK'
  OBVIOUS
<1>0. /\ TypeOK' /\ pos \in Nat
      /\ row \in [status: TransferStatus, txHash: Nat] /\ events \subseteq TransferStatus
      /\ age \in 0..2 /\ loaded \in TransferStatus /\ stepWh \in [step: Nat, status: TransferStatus]
      /\ ChainOK
  BY DEF WayInv, PlainInv, EngineInv, IndInv, TypeOK, EvmTypeOK, TransferTypeOK, ChainOK, Tx
<1> DEFINE RowOK == row' \in [status: TransferStatus, txHash: Nat] /\ events' \subseteq TransferStatus
           LocalOK == /\ age' \in 0..2 /\ loaded' \in TransferStatus
                      /\ stepWh' \in [step: Nat, status: TransferStatus]
<1>1. ASSUME NEW s \in TransferStatus, NEW r, setTransferStatus(s, r) PROVE RowOK
  BY <1>0, <1>1 DEF setTransferStatus
<1>2. ASSUME NEW n \in 0..3, FailureWrites(n) PROVE RowOK
  BY <1>0, <1>2 DEF FailureWrites, TransferStatus
<1>3. ASSUME UNCHANGED trVars PROVE RowOK
  BY <1>0, <1>3 DEF trVars
<1>4. ASSUME UNCHANGED <<age, loaded>>, createTransferStepWh \/ UNCHANGED stepWh PROVE LocalOK
  BY <1>0, <1>4 DEF createTransferStepWh
<1>5. CASE sendingStep
  <2>1. row' \in [status: TransferStatus, txHash: Nat] /\ loaded' \in TransferStatus
    <3>1. ASSUME NEW t \in Nat, SetTxHash(t)
          PROVE  row' \in [status: TransferStatus, txHash: Nat] /\ loaded' \in TransferStatus
      BY <1>0, <3>1 DEF SetTxHash
    <3>2. CASE UNCHANGED <<row, loaded>>
      BY <1>0, <3>2
    <3>3. CASE SubmitRecorded("transfer") /\ SetTxHash(Len(chain'))
      BY <1>0, <3>1, <3>3, SubmittedAppends DEF SubmitRecorded, ChainOK
    <3>4. ASSUME NEW t \in RecordsOf("transfer"), SetTxHash(t)
          PROVE  row' \in [status: TransferStatus, txHash: Nat] /\ loaded' \in TransferStatus
      BY <1>0, <3>1, <3>4 DEF RecordsOf, ChainOK
    <3> QED
      BY <1>5, <3>2, <3>3, <3>4 DEF sendingStep
  <2>2. UNCHANGED <<events, age, stepWh>>
    BY <1>5 DEF sendingStep
  <2> QED
    BY <1>0, <2>1, <2>2, ChainStep DEF EvmTypeOK, TransferTypeOK, ChainOK, Tx
<1>6. CASE ~sendingStep
  <2>1. RowOK
    BY <1>1, <1>2, <1>3, <1>6, OnFailureCases, OnFailureEvent DEF NextEvm, StepFunction, validateRequest,
       sendBaseAssetForBurn, waitingSendBurnBaseAssetConfirmations, waitingForTheFirstConfirmation, waitingConfirmations,
       sendSuccessEvent, stepWhFails, EngineStep, TimePasses, ChainMoves, vars, TransferStatus
  <2>2. LocalOK
    <3>1. CASE UNCHANGED <<age, loaded>> /\ (createTransferStepWh \/ UNCHANGED stepWh)
      BY <1>4, <3>1
    <3>2. CASE EngineStep
      BY <1>0, <3>2 DEF EngineStep
    <3>3. CASE TimePasses
      BY <1>0, <3>3 DEF TimePasses
    <3> QED
      BY <1>6, <3>1, <3>2, <3>3, OnFailureCases DEF NextEvm, StepFunction, validateRequest,
         sendBaseAssetForBurn, waitingSendBurnBaseAssetConfirmations, waitingForTheFirstConfirmation, waitingConfirmations,
         sendSuccessEvent, stepWhFails, ChainMoves, evmVars, vars
  <2> QED
    BY <1>0, <2>1, <2>2, ChainStep DEF EvmTypeOK, TransferTypeOK, ChainOK, Tx
<1> QED
  BY <1>5, <1>6

(***************************************************************************)
(* The transfer is completed by a confirmed transaction                    *)
(***************************************************************************)

\* What the invariant says, for the proofs of its parts.
LEMMA EvmFacts ==
    ASSUME EvmInv, [NextEvm]_vars
    PROVE  /\ WayInv /\ PlainInv /\ EngineInv /\ Walk(Main) /\ EvmJumps /\ EvmTypeOK /\ RowInv /\ ChainOK
           /\ [NextPlain]_wfVars /\ [Next]_wfVars
           /\ row \in [status: TransferStatus, txHash: Nat] /\ events \subseteq TransferStatus
           /\ status \in [Steps -> StepStatus]
           /\ faults \in 0..MaxFaults /\ MaxFaults \in Nat
           /\ pc \in {"func", "post"} => status[pos] = "processing" /\ snapshot.status = status
BY EvmIsPlain, PlainIsEngine, WorkflowAssumption
   DEF EvmInv, WayInv, PlainInv, EvmTypeOK, TransferTypeOK, EngineInv, IndInv, TypeOK, Loops, InLoop, MemoryInv,
       ChainOK, Tx

\* When the step sending is executed it is the furthest one, so its record is that
\* of the payment.
LEMMA SendingTxType == ASSUME EvmInv, [NextEvm]_vars, pc = "func", pos = 4 PROVE TxType = "transfer"
<1> USE StepNumbers
<1>0. EngineInv /\ Walk(Main) /\ status[4] = "processing"
  BY EvmFacts
<1>1. \A i \in Steps : status[i] # "unset" => i <= 4
  BY <1>0, AheadIsUnset
<1>2. CurrentStep = 4
  BY <1>0, <1>1, FurthestStep
<1> QED
  BY <1>2 DEF TxType, sending, send_base_asset_for_burn

\* The step that sends the base asset files it under the furthest step.
LEMMA BaseTxType ==
    ASSUME EvmInv, [NextEvm]_vars, pc \in {"func", "failure"}, pos = 2
    PROVE  /\ status[3] = "unset"
           /\ status[4] = "unset" => CurrentStep = 2
           /\ (status[4] # "unset" /\ status[5] = "unset") => CurrentStep = 4
           /\ status[5] # "unset" => CurrentStep > 4
<1> USE StepNumbers
<1>0. /\ EngineInv /\ Walk(Main) /\ status \in [Steps -> StepStatus]
      /\ status[2] \in {"processing", "failed"}
  BY EvmFacts DEF EngineInv, OutcomeInv
<1>1. status[3] = "unset"
  BY <1>0 DEF EngineInv, OrderInv, StageOrder, Settled
<1>2. /\ status[4] = "unset" => status[5] = "unset" /\ status[6] = "unset" /\ status[7] = "unset"
      /\ status[5] = "unset" => status[6] = "unset" /\ status[7] = "unset"
      /\ status[6] = "unset" => status[7] = "unset"
  BY <1>0 DEF Walk, InTurn
<1>3. ASSUME status[4] = "unset" PROVE CurrentStep = 2
  <2>1. \A i \in Steps : status[i] # "unset" => i <= 2
    BY <1>1, <1>2, <1>3
  <2> QED
    BY <1>0, <2>1, FurthestStep
<1>4. ASSUME status[4] # "unset", status[5] = "unset" PROVE CurrentStep = 4
  <2>1. \A i \in Steps : status[i] # "unset" => i <= 4
    BY <1>2, <1>4
  <2> QED
    BY <1>4, <2>1, FurthestStep
<1>5. ASSUME status[5] # "unset" PROVE CurrentStep > 4
  <2>1. CASE status[6] = "unset"
    <3>1. \A i \in Steps : status[i] # "unset" => i <= 5
      BY <1>2, <2>1
    <3>2. CurrentStep = 5
      BY <1>5, <3>1, FurthestStep
    <3> QED
      BY <3>2
  <2>2. CASE status[6] # "unset" /\ status[7] = "unset"
    <3>1. \A i \in Steps : status[i] # "unset" => i <= 6
      BY <2>2
    <3>2. CurrentStep = 6
      BY <2>2, <3>1, FurthestStep
    <3> QED
      BY <3>2
  <2>3. CASE status[7] # "unset"
    <3>1. \A i \in Steps : status[i] # "unset" => i <= 7
      OBVIOUS
    <3>2. CurrentStep = 7
      BY <2>3, <3>1, FurthestStep
    <3> QED
      BY <3>2
  <2> QED
    BY <2>1, <2>2, <2>3
<1> QED
  BY <1>1, <1>3, <1>4, <1>5

\* Only the step sending names another transaction in the row.
LEMMA HashStep == ASSUME EvmInv, [NextEvm]_vars, ~sendingStep PROVE row'.txHash = row.txHash
<1>0. row \in [status: TransferStatus, txHash: Nat]
  BY EvmFacts
<1>1. ASSUME NEW s, setTransferStatus(s, "nil") PROVE row'.txHash = row.txHash
  BY <1>0, <1>1 DEF setTransferStatus
<1>2. CASE OnFailure
  BY <1>0, <1>2, OnFailureCases, OnFailureEvent DEF FailureWrites, trVars
<1>3. CASE UNCHANGED trVars
  BY <1>3 DEF trVars
<1> QED
  BY <1>1, <1>2, <1>3 DEF NextEvm, EngineStep, TimePasses, ChainMoves, StepFunction, validateRequest,
     sendBaseAssetForBurn, waitingSendBurnBaseAssetConfirmations, waitingForTheFirstConfirmation, waitingConfirmations,
     sendSuccessEvent, stepWhFails, vars

\* The function of a step returns nil only in that step.
LEMMA FunctionOf ==
    ASSUME [NextEvm]_vars, pc = "func", pc' = "post"
    PROVE  (pos = 4 => sendingStep) /\ (pos = 6 => waitingConfirmations)
BY DEF NextEvm, EngineStep, Engine, Start, ExitFinished, EnterStage, AtStage, SkipStage, SkipStep, AtStep, BeginStep,
   AfterStep, EndExecute, ReturnToRiver, Crash, Forget, StepFunction, validateRequest, sendBaseAssetForBurn,
   waitingSendBurnBaseAssetConfirmations, waitingForTheFirstConfirmation, waitingConfirmations, sendSuccessEvent,
   sendingStep, InStep, OnFailure, sendFailureEvent, failureEventLost, LoseFailure, IgnoreFailure, TimePasses,
   ChainMoves, vars, wfVars, validate_request, send_base_asset_for_burn, sending, waiting_confirmations,
   waiting_send_base_asset_for_burn_confirmations, waiting_for_the_first_confirmation, send_success_event

\* When sending is done the row names a recorded transaction of the asset.
LEMMA SentStep ==
    ASSUME EvmInv, [NextEvm]_vars, Done(sending)' PROVE row'.txHash \in RecordsOf("transfer")'
<1> USE StepNumbers DEF sending
<1>0. ChainOK /\ EngineInv /\ [Next]_wfVars /\ row \in [status: TransferStatus, txHash: Nat] /\ 4 \in Steps
  BY EvmFacts
<1>1. RecordsOf("transfer") \subseteq RecordsOf("transfer")'
  BY <1>0, RecordsKeep
<1>2. Done(4) \/ (pc = "func" /\ pos = 4 /\ pc' = "post" /\ result' = "nil")
  BY <1>0, DoneFrom
<1>3. CASE sendingStep
  <2>1. pc = "func" /\ pos = 4
    BY <1>3 DEF sendingStep, InStep
  <2>2. ~Done(4)
    BY <2>1, EvmFacts DEF Done
  <2>3. pc' = "post" /\ result' = "nil"
    BY <1>2, <2>2
  <2>4. ASSUME NEW t \in RecordsOf("transfer"), row.txHash = t, UNCHANGED row
        PROVE  row'.txHash \in RecordsOf("transfer")'
    BY <1>1, <2>4
  <2>5. ASSUME NEW t \in RecordsOf("transfer"), SetTxHash(t)
        PROVE  row'.txHash \in RecordsOf("transfer")'
    BY <1>0, <1>1, <2>5 DEF SetTxHash
  <2>6. ASSUME SubmitRecorded("transfer"), SetTxHash(Len(chain'))
        PROVE  row'.txHash \in RecordsOf("transfer")'
    <3>1. Len(chain') \in DOMAIN chain' /\ <<"transfer", Len(chain')>> \in records'
      BY <1>0, <2>1, <2>6, SubmittedAppends, SendingTxType DEF SubmitRecorded, ChainOK
    <3> QED
      BY <1>0, <2>6, <3>1 DEF SetTxHash, RecordsOf
  <2>7. ~Returns("error") /\ ~Abort /\ ~LostRun
    BY <2>3 DEF Returns, Return, Abort, LostRun, Forget
  <2> QED
    BY <1>3, <2>4, <2>5, <2>6, <2>7 DEF sendingStep, SubmitFails
<1>4. CASE ~sendingStep
  <2>1. Done(4)
    BY <1>2, <1>4, FunctionOf
  <2> QED
    BY <1>1, <1>4, <2>1, HashStep DEF EvmInv
<1> QED
  BY <1>3, <1>4

\* When the confirmations were awaited the transaction in the row has them.
LEMMA ConfirmedStep ==
    ASSUME EvmInv, [NextEvm]_vars, Done(waiting_confirmations)' PROVE HasConfirmations'
<1> USE StepNumbers DEF waiting_confirmations, sending
<1>0. /\ ChainOK /\ EngineInv /\ Walk(Main) /\ [Next]_wfVars /\ 4 \in Main /\ 6 \in Steps /\ 4 \in Steps
  BY EvmFacts
<1>1. Done(6) \/ (pc = "func" /\ pos = 6 /\ pc' = "post" /\ result' = "nil")
  BY <1>0, DoneFrom
<1>2. ~sendingStep
  <2> SUFFICES ASSUME sendingStep PROVE FALSE
    OBVIOUS
  <2>1. pc = "func" /\ pos = 4
    BY DEF sendingStep, InStep
  <2>2. ~Done(6)
    BY <1>0, <2>1, AheadIsUnset DEF Done
  <2> QED
    BY <1>1, <2>1, <2>2
<1>3. row'.txHash = row.txHash
  BY <1>2, HashStep
<1>4. CASE Done(6)
  <2>1. HasConfirmations
    BY <1>4 DEF EvmInv
  <2>2. chain \in Seq(Tx) /\ chain' \in Seq(Tx) /\ row.txHash \in DOMAIN chain /\ row.txHash \in DOMAIN chain'
    BY <1>0, <2>1, ChainStep DEF HasConfirmations, ChainOK
  <2>3. chain[row.txHash] \in Tx /\ chain'[row.txHash] \in Tx
    BY <2>2
  <2>4. /\ chain'[row.txHash].state = "success"
        /\ chain[row.txHash].confirmations =< chain'[row.txHash].confirmations
    BY <1>0, <2>1, <2>2, ChainStep DEF HasConfirmations
  <2> QED
    BY <1>3, <2>1, <2>2, <2>3, <2>4, EvmAssumption DEF HasConfirmations, Tx
<1>5. CASE pc = "func" /\ pos = 6 /\ pc' = "post" /\ result' = "nil"
  <2>1. waitingConfirmations
    BY <1>5, FunctionOf
  <2>2. status[4] = "completed"
    BY <1>0, <1>5 DEF Walk, InLoop
  <2>3. row.txHash \in DOMAIN chain
    BY <1>0, <2>2, RecordsKeep DEF EvmInv, Done
  <2>4. ~Returns("error") /\ ~Returns("snooze") /\ ~Returns("failed")
    BY <1>5 DEF Returns, Return
  <2>5. ~Abort
    BY <1>5 DEF Abort, Return, Forget
  <2>6. /\ "success" \in Answers(row.txHash) /\ chain[row.txHash].confirmations >= MinConfirmations
        /\ UNCHANGED <<row, chain>>
    BY <2>1, <2>4, <2>5 DEF waitingConfirmations, stepWhFails, trVars
  <2>7. chain[row.txHash].state = "success"
    BY <2>6 DEF Answers, Unknown
  <2> QED
    BY <2>3, <2>6, <2>7 DEF HasConfirmations
<1> QED
  BY <1>1, <1>4, <1>5

LEMMA RowStep == EvmInv /\ [NextEvm]_vars => RowInv'
<1> SUFFICES ASSUME EvmInv, [NextEvm]_vars PROVE RowInv'
  OBVIOUS
<1> USE StepNumbers DEF validate_request, waiting_for_the_first_confirmation, send_success_event
<1>0. /\ EngineInv /\ PlainInv /\ [Next]_wfVars /\ RowInv
      /\ row \in [status: TransferStatus, txHash: Nat] /\ 5 \in Steps /\ 7 \in Steps
  BY EvmFacts
<1>1. \A i \in Steps : snapshot.status[i] # "unset" => snapshot'.status[i] # "unset"
  BY <1>0, SnapshotKeeps
<1>2. CASE UNCHANGED <<events, row.status>> /\ (snapshot.state.IsFailed => snapshot'.state.IsFailed)
  BY <1>0, <1>1, <1>2 DEF RowInv
<1>3. CASE EngineStep
  BY <1>0, <1>2, <1>3, EngineIsSilent DEF EngineStep, Lifecycle!vars
<1>4. CASE StepFunction
  <2>1. UNCHANGED snapshot /\ pc = "func" /\ snapshot.status[pos] = "processing"
    BY <1>4, StepFunctionEnds, EvmFacts DEF Ends, Finishes, Dies, LostRun, JumpsTo, ReturnsJump
  <2>2. ASSUME NEW s, setTransferStatus(s, "nil")
        PROVE  events' \in {events, events \cup {s}} /\ row'.status \in {row.status, s}
    BY <1>0, <2>2 DEF setTransferStatus
  <2>3. CASE sendingStep
    <3>1. UNCHANGED events /\ row'.status = row.status
      BY <1>0, <2>3 DEF sendingStep, SetTxHash
    <3> QED
      BY <1>2, <2>1, <3>1
  <2>4. CASE UNCHANGED trVars
    BY <1>2, <2>1, <2>4 DEF trVars
  <2>5. CASE validateRequest
    BY <1>0, <2>1, <2>2, <2>4, <2>5 DEF validateRequest, RowInv
  <2>6. CASE waitingForTheFirstConfirmation
    BY <1>0, <2>1, <2>2, <2>4, <2>6 DEF waitingForTheFirstConfirmation, stepWhFails, InStep, RowInv
  <2>7. CASE sendSuccessEvent
    BY <1>0, <2>1, <2>2, <2>7 DEF sendSuccessEvent, InStep, RowInv
  <2> QED
    BY <1>4, <2>3, <2>4, <2>5, <2>6, <2>7 DEF StepFunction, sendBaseAssetForBurn, stepWhFails,
       waitingSendBurnBaseAssetConfirmations, waitingConfirmations
<1>5. CASE OnFailure
  <2>1. CASE FailureWrites(3)
    <3>1. /\ snapshot'.state.IsFailed /\ events' = events \cup {"failed"} /\ row'.status = "failed"
      BY <1>0, <2>1 DEF FailureWrites, EngineInv, IndInv, TypeOK, FailedState, WorkflowState
    <3> QED
      BY <1>0, <1>1, <3>1 DEF RowInv
  <2>2. CASE UNCHANGED <<snapshot, trVars>>
    BY <1>2, <2>2 DEF trVars
  <2> QED
    BY <1>5, <2>1, <2>2, OnFailureCases, OnFailureEvent DEF FailureWrites, LoseFailure, IgnoreFailure, trVars
<1>6. CASE UNCHANGED <<wfVars, trVars>>
  BY <1>2, <1>6 DEF wfVars, trVars
<1> QED
  BY <1>3, <1>4, <1>5, <1>6 DEF NextEvm, TimePasses, ChainMoves, vars

(***************************************************************************)
(* No payment is repeated without a fault                                  *)
(***************************************************************************)

\* An error of a step of exitOnFailedSteps fails the transfer when the step is the
\* furthest one.
LEMMA ExitsAtCurrent ==
    ASSUME [NextEvm]_vars, UNCHANGED faults, faults \in Nat, pc = "failure", CurrentStep \in exitOnFailedSteps
    PROVE  GiveUp \/ UNCHANGED wfVars
<1>1. ~Fault
  BY DEF Fault
<1>2. CASE OnFailure
  BY <1>1, <1>2, OnFailureCases, OnFailureEvent DEF LoseFailure, ExitsOnFailure
<1>3. ~Engine
  BY <1>1 DEF Engine, Start, ExitFinished, EnterStage, AtStage, SkipStage, SkipStep, AtStep, BeginStep, AfterStep,
     EndExecute, ReturnToRiver, Crash
<1>4. ~StepFunction
  BY StepFunctionEnds DEF Ends, Finishes, Dies, JumpsTo
<1> QED
  BY <1>2, <1>3, <1>4 DEF NextEvm, EngineStep, TimePasses, ChainMoves, vars

\* The step sending is always the furthest one when it fails ...
LEMMA SendingErrorIsFinal ==
    ASSUME EvmInv, [NextEvm]_vars, UNCHANGED faults, pc = "failure", pos = 4
    PROVE  GiveUp \/ UNCHANGED wfVars
<1>0. /\ EngineInv /\ Walk(Main) /\ Main \in SUBSET Steps /\ 4 \in Main /\ faults \in Nat /\ result # "nil"
  BY EvmFacts, StepNumbers DEF EngineInv, OutcomeInv
<1>1. CurrentStep = 4
  BY <1>0, FailedIsCurrent
<1> QED
  BY <1>0, <1>1, ExitsAtCurrent DEF exitOnFailedSteps, sending

\* ... and send_base_asset_for_burn or sending is, until the step after it begins.
LEMMA BaseErrorIsFinal ==
    ASSUME EvmInv, [NextEvm]_vars, UNCHANGED faults, pc = "failure", pos = 2, snapshot.status[5] = "unset"
    PROVE  GiveUp \/ UNCHANGED wfVars
<1> USE StepNumbers
<1>0. EngineInv /\ faults \in Nat
  BY EvmFacts
<1>1. status[5] = "unset"
  BY <1>0 DEF EngineInv, MemoryInv
<1>2. CurrentStep \in {2, 4}
  BY <1>1, BaseTxType
<1> QED
  BY <1>0, <1>2, ExitsAtCurrent DEF exitOnFailedSteps, send_base_asset_for_burn, sending

\* What has returned nil is settled in the next snapshot, unless a fault is spent.
LEMMA PassedStays ==
    ASSUME NEW p \in Steps, PlainInv, EvmJumps, [NextPlain]_wfVars, Passed(p), faults' = faults
    PROVE  Passed(p)'
<1>0. /\ EngineInv /\ [Next]_wfVars /\ faults \in Nat /\ status \in [Steps -> StepStatus]
      /\ pc = "post" => status[pos] = "processing" /\ pos \in Steps
      /\ ~Fault
  BY PlainIsEngine, WorkflowAssumption DEF PlainInv, EngineInv, IndInv, TypeOK, Loops, InLoop, Fault
<1>1. CASE snapshot.status[p] \in Settled
  BY <1>0, <1>1, SnapshotKeeps DEF Passed
<1>2. CASE pc = "post" /\ pos = p /\ result = "nil"
  <2>1. CASE AfterStep
    BY <1>0, <1>2, <2>1 DEF AfterStep, SaveFails, Settle, Settled, Passed
  <2> QED
    BY <1>0, <1>2, <2>1 DEF Passed, NextPlain, Engine, Start, ExitFinished, EnterStage, AtStage, SkipStage, SkipStep,
       AtStep, BeginStep, EndExecute, ReturnToRiver, Crash, StepFunc, IgnoreFailure, LoseFailure, GiveUp,
       CrashAfterVerdict, wfVars
<1>3. CASE pc = "scan" /\ status[p] \in Settled
  <2>1. ~checkStatus
    BY <1>3, StillOpen DEF checkStatus, Finished
  <2>2. CASE SkipStep
    BY <1>0, <1>3, <2>2 DEF SkipStep, AtStep, Settled, Passed
  <2>3. CASE BeginStep
    BY <1>0, <1>3, <2>3 DEF BeginStep, AtStep, SaveSnapshot, SaveFails, Passed
  <2>4. CASE EndExecute
    BY <1>0, <1>3, <2>4 DEF EndExecute, SaveSnapshot, SaveFails, Passed
  <2> QED
    BY <1>0, <1>3, <2>1, <2>2, <2>3, <2>4 DEF Passed, NextPlain, Engine, Start, ExitFinished, EnterStage, SkipStage,
       AfterStep, ReturnToRiver, Crash, StepFunc, IgnoreFailure, LoseFailure, GiveUp, CrashAfterVerdict, wfVars
<1> QED
  BY <1>1, <1>2, <1>3 DEF Passed

LEMMA PaidStep ==
    ASSUME NEW type \in {"base", "transfer"}, NEW p, p = (IF type = "base" THEN 2 ELSE 4),
           EvmInv, [NextEvm]_vars, PaidOnce(type, p),
           (UNCHANGED faults /\ pc = "failure" /\ pos = p) => GiveUp \/ UNCHANGED wfVars
    PROVE  PaidOnce(type, p)'
<1> DEFINE n == Cardinality(Payments(type))
           m == Cardinality(Payments(type)')
<1>0. /\ ChainOK /\ PlainInv /\ EvmJumps /\ [NextPlain]_wfVars
      /\ faults \in 0..MaxFaults /\ MaxFaults \in Nat /\ p \in Steps
  BY EvmFacts, StepNumbers
<1>1. /\ n \in Nat
      /\ \/ m = n
         \/ StepFunction /\ Submits(type, p) /\ m = n + 1
  BY <1>0, PaymentsStep
<1>2. UNCHANGED faults \/ faults' = faults - 1
  BY <1>0, FaultsStep DEF Fault
<1>3. n =< MaxFaults - faults + 1
  BY <1>0, <1>1 DEF PaidOnce, Spent
<1> HIDE DEF n, m
<1>4. CASE m = n + 1 /\ Submits(type, p)
  <2>0. ~Passed(p)
    BY <1>4, EvmFacts DEF Submits, Passed, Settled
  <2>1. ~Closed(p) /\ ~Passed(p) /\ RecordsOf(type) = {}
    BY <1>0, <1>4, <2>0, NotClosed DEF Submits
  <2>2. n =< MaxFaults - faults
    BY <2>1 DEF PaidOnce, Spent, n
  <2>3. CASE faults' = faults - 1
    <3>1. m =< MaxFaults - faults'
      BY <1>0, <1>1, <1>4, <2>2, <2>3
    <3> QED
      BY <3>1 DEF PaidOnce, Spent, m
  <2>4. CASE UNCHANGED faults
    <3>1. m =< MaxFaults - faults' + 1
      BY <1>0, <1>1, <1>4, <2>2, <2>4
    <3>2. ~Fault
      BY <1>0, <2>4 DEF Fault
    <3>3. CASE records' = records \cup {<<TxType, Len(chain')>>} /\ (type = "base" => Returns("nil"))
      <4>1. CASE type = "base"
        <5>1. Passed(p)'
          BY <1>4, <3>3, <4>1 DEF Submits, Returns, Return, Passed
        <5> QED
          BY <3>1, <5>1 DEF PaidOnce, Spent, m
      <4>2. CASE type = "transfer"
        <5>1. TxType = "transfer"
          BY <1>4, <4>2, SendingTxType DEF Submits
        <5>2. Len(chain') \in DOMAIN chain'
          BY <1>0, <1>4, SubmittedAppends DEF Submits, ChainOK
        <5>3. RecordsOf(type)' # {}
          BY <3>3, <4>2, <5>1, <5>2 DEF RecordsOf
        <5> QED
          BY <3>1, <5>3 DEF PaidOnce, Spent, m
      <4> QED
        BY <4>1, <4>2
    <3>4. CASE Finishes("error")
      <4>1. Closed(p)'
        BY <1>4, <3>4 DEF Submits, Finishes, Return, Closed
      <4> QED
        BY <3>1, <4>1 DEF PaidOnce, Spent, m
    <3> QED
      BY <1>4, <3>2, <3>3, <3>4 DEF Submits
  <2> QED
    BY <1>2, <2>3, <2>4
<1>5. CASE m = n /\ faults' = faults - 1
  <2>1. m =< MaxFaults - faults'
    BY <1>0, <1>1, <1>3, <1>5
  <2> QED
    BY <2>1 DEF PaidOnce, Spent, m
<1>6. CASE m = n /\ UNCHANGED faults
  <2>1. CASE n =< MaxFaults - faults
    BY <1>6, <2>1 DEF PaidOnce, Spent, m
  <2>2. CASE RecordsOf(type) # {} \/ Closed(p) \/ Passed(p)
    <3>1. RecordsOf(type)' # {} \/ Closed(p)' \/ Passed(p)'
      BY <1>0, <1>6, <2>2, RecordsKeep, ClosedStays, PassedStays
    <3> QED
      BY <1>3, <1>6, <3>1 DEF PaidOnce, Spent, m
  <2> QED
    BY <2>1, <2>2 DEF PaidOnce, Spent, n
<1> QED
  BY <1>1, <1>2, <1>4, <1>5, <1>6

\* Behind sending nothing is submitted that has no type, so the base asset is paid no
\* more often than the faults so far allow.
LEMMA BaseBoundStep ==
    ASSUME EvmInv, [NextEvm]_vars PROVE Cardinality(Payments("base")') =< Spent' + 1
<1> DEFINE n == Cardinality(Payments("base"))
           m == Cardinality(Payments("base")')
<1>0. /\ ChainOK /\ PlainInv /\ [NextPlain]_wfVars /\ EngineInv
      /\ faults \in 0..MaxFaults /\ MaxFaults \in Nat /\ 5 \in Steps
      /\ n =< MaxFaults - faults + 1
  BY EvmFacts, StepNumbers DEF EvmInv, Spent
<1>1. n \in Nat /\ (m = n \/ (Submits("base", 2) /\ m = n + 1))
  BY <1>0, PaymentsStep
<1>2. UNCHANGED faults \/ faults' = faults - 1
  BY <1>0, FaultsStep DEF Fault
<1>3. CASE m = n
  <2> HIDE DEF n, m
  <2>1. m =< MaxFaults - faults' + 1
    BY <1>0, <1>1, <1>2, <1>3
  <2> QED
    BY <2>1 DEF m, Spent
<1>4. CASE Submits("base", 2)
  <2>1. pc = "func" /\ pos = 2 /\ TxType # "unknown" /\ snapshot.status = status
    BY <1>4, EvmFacts DEF Submits, Submitted
  <2>2. CurrentStep \in {2, 4}
    BY <2>1 DEF TxType, send_base_asset_for_burn, sending
  <2>3. snapshot.status[5] = "unset"
    BY <2>1, <2>2, BaseTxType
  <2>4. PaidOnce("base", 2)
    BY <2>3 DEF EvmInv, waiting_for_the_first_confirmation, send_base_asset_for_burn
  <2>5. (UNCHANGED faults /\ pc = "failure" /\ pos = 2) => GiveUp \/ UNCHANGED wfVars
    BY <2>3, BaseErrorIsFinal
  <2>6. PaidOnce("base", 2)'
    BY <2>4, <2>5, PaidStep
  <2>7. m =< MaxFaults - faults' \/ m =< MaxFaults - faults' + 1
    BY <2>6 DEF PaidOnce, Spent
  <2> HIDE DEF n, m
  <2>8. m =< MaxFaults - faults' + 1
    BY <1>0, <1>1, <1>2, <2>7
  <2> QED
    BY <2>8 DEF m, Spent
<1> QED
  BY <1>1, <1>3, <1>4

(***************************************************************************)
(* What each fault makes possible                                          *)
(***************************************************************************)

\* What the steps of this section have in common: where the run is, and that nothing
\* fails.
LEMMA QuietFacts ==
    ASSUME EvmInv, [NextEvm]_vars
    PROVE  /\ state \in WorkflowState /\ snapshot \in Snapshot /\ snapshot.state \in WorkflowState
           /\ status \in [1..7 -> StepStatus] /\ snapshot.status \in [1..7 -> StepStatus]
           /\ pos \in 1..8 /\ faults \in Nat
           /\ faults' = faults => ~Fault
           /\ pc \in {"func", "post"} => status[pos] = "processing" /\ pos \in 1..7 /\ snapshot.status = status
           /\ pc \in {"func", "post"} => stage = StageOf[pos]
           /\ pc = "idle" => pos = 1
           /\ state.NextStage \in {0, 2} /\ state.NextStep \in {0, 4}
           /\ snapshot.state.NextStage \in {0, 2} /\ snapshot.state.NextStep \in {0, 4}
           /\ pc = "func" => ~Pending(state)
           /\ (InLoop /\ Pending(state)) => pos =< 4
           /\ \A i \in 1..7 : pc # "idle" /\ snapshot.status[i] \in Settled => status[i] = snapshot.status[i]
           /\ \A i \in 1..7 : pc # "idle" /\ i > pos /\ status[i] # "unset" => snapshot.status[i] # "unset"
           /\ \A i \in 1..7 : pc # "idle" /\ snapshot.status[i] # "unset" => status[i] # "unset"
           /\ (pc \in {"end", "failure"} /\ result # "nil") => pos \in 1..7 /\ status[pos] = "failed"
           /\ result \in {"nil", "snooze", "failed", "error"}
           /\ pc \in {"scan", "func", "post", "end", "failure"} => ~Finished(state) /\ ~Finished(snapshot.state)
<1>0. WayInv /\ EngineInv /\ IndInv /\ PlainInv
  BY EvmFacts DEF EngineInv
<1>1. /\ state \in WorkflowState /\ snapshot \in Snapshot /\ pos \in 1..8 /\ faults \in Nat
      /\ status \in [1..7 -> StepStatus]
  BY <1>0, StepNumbers, EvmSteps, WorkflowAssumption DEF IndInv, TypeOK
<1>2. snapshot.state \in WorkflowState /\ snapshot.status \in [1..7 -> StepStatus]
  BY <1>1, StepNumbers DEF Snapshot
<1>3. faults' = faults => ~Fault
  BY <1>1 DEF Fault
<1>4. /\ pc \in {"func", "post"} => status[pos] = "processing" /\ pos \in 1..7 /\ snapshot.status = status
      /\ pc \in {"func", "post"} => stage = StageOf[pos]
      /\ pc = "idle" => pos = 1
      /\ \A i \in 1..7 : pc # "idle" /\ snapshot.status[i] \in Settled => status[i] = snapshot.status[i]
      /\ \A i \in 1..7 : pc # "idle" /\ i > pos /\ status[i] # "unset" => snapshot.status[i] # "unset"
      /\ \A i \in 1..7 : pc # "idle" /\ snapshot.status[i] # "unset" => status[i] # "unset"
  BY <1>0, StepNumbers DEF EngineInv, IndInv, Loops, InLoop, MemoryInv, Agree
<1>5. (pc \in {"end", "failure"} /\ result # "nil") => pos \in 1..7 /\ status[pos] = "failed"
  BY <1>0, StepNumbers DEF EngineInv, OutcomeInv
<1>6. /\ state.NextStage \in {0, 2} /\ state.NextStep \in {0, 4}
      /\ snapshot.state.NextStage \in {0, 2} /\ snapshot.state.NextStep \in {0, 4}
      /\ (InLoop /\ Pending(state)) => pos =< 4
      /\ result \in {"nil", "snooze", "failed", "error"}
  BY <1>0, JumpNumbers DEF WayInv
<1>7. pc = "func" => ~Pending(state)
  BY <1>0 DEF WayInv, EvmJumps, IndInv, Jumps, Pending, None
<1>8. pc \in {"scan", "func", "post", "end", "failure"} => ~Finished(state) /\ ~Finished(snapshot.state)
  BY <1>0, StillOpen
<1> QED
  BY <1>1, <1>2, <1>3, <1>4, <1>5, <1>6, <1>7, <1>8

\* Without a fault no step is passed over.
LEMMA UnbrokenStep ==
    ASSUME EvmInv, WayInv', [NextEvm]_vars, Unbroken, faults' = faults PROVE Unbroken'
<1> USE StepNumbers DEF sending, Pending, None
<1>0. /\ state \in WorkflowState /\ snapshot.state \in WorkflowState
      /\ status \in [1..7 -> StepStatus] /\ pos \in 1..8 /\ ~Fault
      /\ pc \in {"func", "post"} => status[pos] = "processing" /\ pos \in 1..7 /\ snapshot.status = status
      /\ pc \in {"func", "post"} => stage = StageOf[pos]
      /\ pc = "idle" => pos = 1
      /\ state.NextStage \in {0, 2} /\ state.NextStep \in {0, 4}
      /\ pc = "func" => ~Pending(state)
      /\ (InLoop /\ Pending(state)) => pos =< 4
      /\ \A i \in 1..7 : pc # "idle" /\ snapshot.status[i] \in Settled => status[i] = snapshot.status[i]
      /\ \A i \in 1..7 : pc # "idle" /\ i > pos /\ status[i] # "unset" => snapshot.status[i] # "unset"
      /\ (pc \in {"end", "failure"} /\ result # "nil") => pos \in 1..7 /\ status[pos] = "failed"
      /\ result \in {"nil", "snooze", "failed", "error"}
      /\ pc = "scan" => ~checkStatus
  BY QuietFacts DEF checkStatus, Finished
<1>1. /\ snapshot.status[4] # "unset" => snapshot.status[2] \in Settled /\ snapshot.status[3] \in Settled
      /\ (pc # "idle" /\ status[4] # "unset") => status[2] \in Settled /\ status[3] \in Settled
      /\ (pc \in {"scan", "func", "post"} /\ pos >= 3) => status[2] \in Settled
      /\ (pc \in {"scan", "func", "post"} /\ pos >= 4) => status[3] \in Settled
      /\ (pc = "scan" /\ pos = 3) => stage = 1
      /\ Pending(snapshot.state) => pc = "scan" /\ pos \in {3, 4} /\ status[4] = "unset"
      /\ (pc # "idle" /\ Pending(state)) =>
            (pc = "scan" /\ pos >= 3) \/ (pc = "post" /\ pos \in {2, 3} /\ result = "nil")
  BY DEF Unbroken, InLoop
<1> DEFINE Goal ==
      /\ snapshot'.status[4] # "unset" => snapshot'.status[2] \in Settled /\ snapshot'.status[3] \in Settled
      /\ (pc' # "idle" /\ status'[4] # "unset") => status'[2] \in Settled /\ status'[3] \in Settled
      /\ (pc' \in {"scan", "func", "post"} /\ pos' >= 3) => status'[2] \in Settled
      /\ (pc' \in {"scan", "func", "post"} /\ pos' >= 4) => status'[3] \in Settled
      /\ (pc' = "scan" /\ pos' = 3) => stage' = 1
      /\ Pending(snapshot'.state) => pc' = "scan" /\ pos' \in {3, 4} /\ status'[4] = "unset"
      /\ (pc' # "idle" /\ Pending(state')) =>
            (pc' = "scan" /\ pos' >= 3) \/ (pc' = "post" /\ pos' \in {2, 3} /\ result' = "nil")
<1>2. SUFFICES Goal
  BY DEF Unbroken, InLoop
<1>3. CASE Start
  BY <1>0, <1>1, <1>3 DEF Start
<1>4. CASE ExitFinished
  BY <1>0, <1>4 DEF ExitFinished
<1>5. CASE EnterStage
  <2>1. /\ pc = "scan" /\ pc' = "scan" /\ UNCHANGED <<status, snapshot, pos>>
        /\ state'.NextStep = state.NextStep /\ state'.NextStage = 0 /\ stage' = StageOf[pos]
    BY <1>0, <1>5 DEF EnterStage, AtStage, WorkflowState
  <2> QED
    BY <1>0, <1>1, <2>1 DEF InLoop
<1>6. CASE SkipStage
  <2>1. pc = "scan" /\ state.NextStage = 2 /\ StageOf[pos] # 2 /\ StageOf[pos] # stage /\ pos \in 1..7
    BY <1>0, <1>6 DEF SkipStage, AtStage
  <2>2. pos = 3
    BY <1>0, <1>1, <2>1 DEF InLoop
  <2> QED
    BY <1>1, <2>1, <2>2
<1>7. CASE SkipStep
  <2>1. /\ pc = "scan" /\ pc' = "scan" /\ UNCHANGED snapshot /\ pos' = pos + 1 /\ pos \in 1..7
        /\ status' = status \/ status' = [status EXCEPT ![pos] = "skipped"]
        /\ status'[pos] \in Settled
        /\ status[pos] \notin Settled => state.NextStep \notin {0, pos}
        /\ state' = ConsumeNextStep /\ UNCHANGED stage /\ StageOf[pos] = stage
    BY <1>0, <1>7 DEF SkipStep, AtStep, Settled
  <2>2. state'.NextStage = state.NextStage /\ state'.NextStep \in {0, state.NextStep}
    BY <1>0, <2>1 DEF ConsumeNextStep, WorkflowState
  <2>3. \A i \in 1..7 : i # pos => status'[i] = status[i]
    BY <1>0, <2>1
  <2>4. pos = 4 => ~Pending(snapshot.state) /\ status[4] \in Settled
    BY <1>0, <1>1, <2>1 DEF Settled
  <2> QED
    BY <1>0, <1>1, <2>1, <2>2, <2>3, <2>4 DEF Settled
<1>8. CASE BeginStep
  <2>1. /\ pc = "scan" /\ pos \in 1..7 /\ status[pos] \notin Settled /\ UNCHANGED pos
        /\ pc' = "func" /\ status' = [status EXCEPT ![pos] = "processing"]
        /\ snapshot' = [status |-> status', state |-> state']
    BY <1>0, <1>8 DEF BeginStep, AtStep, SaveSnapshot, SaveFails
  <2>2. \A i \in 1..7 : i # pos => status'[i] = status[i]
    BY <1>0, <2>1
  <2>3. ~Pending(state')
    BY <2>1 DEF EvmInv, WayInv, EvmJumps, PlainInv, EngineInv, IndInv, Jumps
  <2>4. pos # 4 => status'[4] = status[4]
    BY <2>2
  <2>5. pos \in {2, 3} => status[4] = "unset"
    BY <1>1, <2>1
  <2>6. status'[4] # "unset" => status'[2] \in Settled /\ status'[3] \in Settled
    BY <1>1, <2>1, <2>2, <2>4, <2>5
  <2> QED
    BY <1>1, <2>1, <2>2, <2>3, <2>6
<1>9. CASE AfterStep
  <2>1. /\ pc = "post" /\ UNCHANGED <<state, stage>> /\ Settle(result)
        /\ snapshot' = [status |-> status, state |-> state]
    BY <1>0, <1>9 DEF AfterStep, SaveFails
  <2>2. \A i \in 1..7 : i # pos => status'[i] = status[i]
    BY <1>0, <2>1 DEF Settle
  <2>3. pos \in {2, 3} => status[4] = "unset"
    BY <1>0, <1>1, <2>1 DEF Settled
  <2>4. CASE result = "nil"
    <3>1. status'[pos] = "completed" /\ pos' = pos + 1 /\ pc' = "scan"
      BY <1>0, <2>1, <2>4 DEF Settle
    <3>2. pos # 4 => status'[4] = status[4]
      BY <2>2
    <3> QED
      BY <1>0, <1>1, <2>1, <2>2, <2>3, <3>1, <3>2 DEF Settled
  <2>5. CASE result # "nil"
    <3>1. pc' = "end" /\ ~Pending(state)
      BY <1>0, <1>1, <2>1, <2>5 DEF Settle
    <3>2. pos # 4 => status'[4] = status[4]
      BY <2>2
    <3> QED
      BY <1>0, <1>1, <2>1, <2>2, <2>3, <3>1, <3>2 DEF Settled
  <2> QED
    BY <2>4, <2>5
<1>10. CASE EndExecute
  <2>1. /\ UNCHANGED <<status, pos>> /\ pc' \in {"return", "failure"}
        /\ snapshot' = [status |-> status, state |-> state'] /\ pc # "idle"
    BY <1>0, <1>10 DEF EndExecute, SaveSnapshot, SaveFails
  <2>2. state'.NextStage = state.NextStage /\ state'.NextStep = state.NextStep
    BY <1>0, <1>10 DEF EndExecute, WorkflowState
  <2>3. ~Pending(state)
    BY <1>0, <1>1, <1>10, EvmSteps DEF EndExecute, InLoop
  <2> QED
    BY <1>1, <2>1, <2>2, <2>3
<1>11. CASE ReturnToRiver
  BY <1>0, <1>1, <1>11 DEF ReturnToRiver, Forget
<1>12. CASE StepFunction
  <2>1. pc = "func" /\ UNCHANGED <<snapshot, status, pos>> /\ pc' = "post"
    BY <1>0, <1>12, StepFunctionEnds DEF Ends, Finishes, Dies, LostRun, JumpsTo, ReturnsJump, Return
  <2>2. UNCHANGED state \/ (pos \in {2, 3} /\ result' = "nil")
    BY <1>0, <1>12, StepFunctionEnds DEF Ends, Finishes, Dies, LostRun, JumpsTo, ReturnsJump, Return
  <2> QED
    BY <1>0, <1>1, <2>1, <2>2
<1>13. CASE OnFailure
  <2>1. CASE GiveUp
    <3>1. /\ pc = "failure" /\ pc' = "return" /\ UNCHANGED <<status, pos>> /\ state' = FailedState
          /\ snapshot' = [status |-> status, state |-> FailedState]
      BY <1>0, <2>1 DEF GiveUp, VerdictWrites, SaveVerdict, SaveFails
    <3>2. FailedState.NextStage = state.NextStage /\ FailedState.NextStep = state.NextStep
      BY <1>0 DEF FailedState, WorkflowState
    <3> QED
      BY <1>1, <3>1, <3>2
  <2>2. CASE IgnoreFailure
    BY <1>1, <2>2 DEF IgnoreFailure
  <2> QED
    BY <1>0, <1>13, <2>1, <2>2, OnFailureCases, OnFailureEvent DEF LoseFailure
<1>14. CASE UNCHANGED wfVars
  BY <1>1, <1>14 DEF wfVars
<1> HIDE DEF Goal
<1>15. ~Crash
  BY <1>0 DEF Crash
<1> QED
  BY <1>3, <1>4, <1>5, <1>6, <1>7, <1>8, <1>9, <1>10, <1>11, <1>12, <1>13, <1>14, <1>15
     DEF NextEvm, EngineStep, Engine, TimePasses, ChainMoves, vars

\* Without a fault sending is behind send_base_asset_for_burn in the snapshot only while
\* it is executed for the first time.
LEMMA SendsOnceStep ==
    ASSUME EvmInv, [NextEvm]_vars, SendsOnce, faults' = faults PROVE SendsOnce'
<1> USE StepNumbers DEF sending, send_base_asset_for_burn, waiting_for_the_first_confirmation, Pending, None
<1>0. /\ Walk(Main) /\ Main = {1, 4, 5, 6, 7} /\ StageOf[5] = 3
      /\ state \in WorkflowState /\ status \in [1..7 -> StepStatus] /\ pos \in 1..8 /\ ~Fault
      /\ pc \in {"func", "post"} => pos \in 1..7 /\ snapshot.status = status
      /\ state.NextStage \in {0, 2} /\ state.NextStep \in {0, 4}
      /\ (pc = "scan" /\ pos = 5) => state.NextStage = 0 /\ state.NextStep = 0
      /\ \A i \in 1..7 : pc # "idle" /\ snapshot.status[i] \in Settled => status[i] = snapshot.status[i]
      /\ \A i \in 1..7 : pc # "idle" /\ i > pos /\ status[i] # "unset" => snapshot.status[i] # "unset"
      /\ \A i \in 1..7 : pc # "idle" /\ snapshot.status[i] # "unset" => status[i] # "unset"
      /\ (pc \in {"end", "failure"} /\ result # "nil") => pos \in 1..7 /\ status[pos] = "failed"
      /\ result \in {"nil", "snooze", "failed", "error"}
      /\ pc \in {"scan", "func", "post", "end", "failure"} => ~checkStatus /\ ~Finished(snapshot.state)
  BY QuietFacts, EvmFacts DEF checkStatus, Finished, InLoop
<1> SUFFICES ASSUME Behind(snapshot'.status), ~Finished(snapshot'.state)
             PROVE  \/ pc' \in {"func", "post"} /\ pos' = 4
                    \/ pc' = "scan" /\ pos' = 5 /\ status'[5] = "unset"
                    \/ pc' \in {"end", "failure"} /\ pos' = 4 /\ result' # "nil"
  BY DEF SendsOnce
<1>1. \/ Behind(snapshot.status) /\ ~Finished(snapshot.state)
      \/ snapshot' # snapshot
  OBVIOUS
<1>2. (Behind(snapshot.status) /\ ~Finished(snapshot.state)) =>
        \/ pc \in {"func", "post"} /\ pos = 4
        \/ pc = "scan" /\ pos = 5 /\ status[5] = "unset"
        \/ pc \in {"end", "failure"} /\ pos = 4 /\ result # "nil"
  BY DEF SendsOnce
<1>3. CASE Start
  BY <1>1, <1>2, <1>3 DEF Start
<1>4. CASE ExitFinished
  BY <1>0, <1>4 DEF ExitFinished
<1>5. CASE EnterStage
  BY <1>1, <1>2, <1>5 DEF EnterStage, AtStage
<1>6. CASE SkipStage
  BY <1>0, <1>1, <1>2, <1>6 DEF SkipStage, AtStage
<1>7. CASE SkipStep
  <2>1. pc = "scan" /\ UNCHANGED snapshot /\ (status[pos] \in Settled \/ state.NextStep \notin {0, pos})
    BY <1>7 DEF SkipStep, AtStep
  <2> QED
    BY <1>0, <1>1, <1>2, <2>1 DEF Settled
<1>8. CASE BeginStep
  <2>1. /\ pc = "scan" /\ pos \in 1..7 /\ status[pos] \notin Settled /\ UNCHANGED pos
        /\ pc' = "func" /\ status' = [status EXCEPT ![pos] = "processing"]
        /\ snapshot'.status = status'
    BY <1>0, <1>8 DEF BeginStep, AtStep, SaveSnapshot, SaveFails
  <2>2. \A i \in 1..7 : status'[i] = IF i = pos THEN "processing" ELSE status[i]
    BY <1>0, <2>1
  <2>3. pos # 5 /\ status[5] = "unset"
    BY <2>1, <2>2 DEF Behind
  <2>4. pos \notin {6, 7}
    BY <1>0, <2>1, <2>3 DEF Walk, InLoop
  <2>5. ASSUME pos < 4 PROVE FALSE
    <3>1. status[4] # "unset" /\ snapshot.status[4] # "unset" /\ snapshot.status[5] = "unset"
      BY <1>0, <2>1, <2>2, <2>3, <2>5 DEF Behind
    <3>2. status[2] \notin Settled
      <4>1. pos # 2 => status[2] \notin Settled
        BY <2>1, <2>2 DEF Behind
      <4> QED
        BY <2>1, <4>1
    <3>3. Behind(snapshot.status)
      BY <1>0, <2>1, <3>1, <3>2 DEF Behind
    <3> QED
      BY <1>0, <1>2, <2>1, <2>5, <3>3
  <2> QED
    BY <1>0, <2>1, <2>3, <2>4, <2>5
<1>9. CASE AfterStep
  <2>1. pc = "post" /\ snapshot'.status = status /\ Settle(result) /\ pos \in 1..7
    BY <1>0, <1>9 DEF AfterStep, SaveFails
  <2>2. pos = 4 /\ status[5] = "unset"
    BY <1>0, <1>2, <2>1 DEF Behind
  <2> QED
    BY <1>0, <2>1, <2>2 DEF Settle
<1>10. CASE EndExecute
  <2>1. /\ pc = "end" \/ (pc = "scan" /\ pos = 8)
        /\ snapshot'.status = status /\ snapshot'.state = [state EXCEPT !.IsCompleted = @ \/ result = "nil"]
        /\ result # "nil" => pc' = "failure"
        /\ UNCHANGED <<pos, result>>
    BY <1>0, <1>10, EvmSteps DEF EndExecute, SaveSnapshot, SaveFails
  <2>2. result # "nil"
    BY <1>0, <2>1 DEF Finished, WorkflowState
  <2>3. /\ status[4] # "unset" /\ status[5] = "unset" /\ status[2] \notin Settled
    BY <2>1 DEF Behind
  <2>4. pc = "end"
    BY <1>0, <2>1, <2>3 DEF Walk, InLoop
  <2>5. pos \notin {5, 6, 7} /\ pos \in 1..7
    BY <1>0, <2>2, <2>3, <2>4 DEF Walk, InTurn
  <2>6. ASSUME pos < 4 PROVE FALSE
    <3>1. Behind(snapshot.status)
      BY <1>0, <2>3, <2>4, <2>6 DEF Behind
    <3> QED
      BY <1>0, <1>2, <2>4, <2>6, <3>1
  <2> QED
    BY <1>0, <2>1, <2>2, <2>5, <2>6
<1>11. CASE ReturnToRiver
  BY <1>1, <1>2, <1>11 DEF ReturnToRiver
<1>12. CASE StepFunction
  <2>1. pc = "func" /\ UNCHANGED <<snapshot, pos>> /\ pc' = "post"
    BY <1>0, <1>12, StepFunctionEnds DEF Ends, Finishes, Dies, LostRun, JumpsTo, ReturnsJump, Return
  <2> QED
    BY <1>1, <1>2, <2>1
<1>13. CASE OnFailure
  <2>1. ~GiveUp
    BY <1>0 DEF GiveUp, VerdictWrites, SaveVerdict, SaveFails, FailedState, WorkflowState, Finished
  <2>2. pc = "failure" /\ UNCHANGED snapshot
    BY <1>0, <1>13, <2>1, OnFailureCases, OnFailureEvent DEF LoseFailure, IgnoreFailure
  <2>3. pos = 4
    BY <1>1, <1>2, <2>2
  <2>4. UNCHANGED wfVars
    BY <2>1, <2>2, <2>3, SendingErrorIsFinal
  <2> QED
    BY <1>2, <1>1, <2>4 DEF wfVars
<1>14. CASE UNCHANGED wfVars
  BY <1>1, <1>2, <1>14 DEF wfVars
<1>15. ~Crash
  BY <1>0 DEF Crash
<1> QED
  BY <1>3, <1>4, <1>5, <1>6, <1>7, <1>8, <1>9, <1>10, <1>11, <1>12, <1>13, <1>14, <1>15
     DEF NextEvm, EngineStep, Engine, TimePasses, ChainMoves, vars

\* The first fault does not set the snapshot behind sending.
LEMMA FirstFault ==
    ASSUME EvmInv, [NextEvm]_vars, Unbroken, faults' # faults PROVE ~Behind(snapshot'.status)
<1> USE StepNumbers DEF sending, send_base_asset_for_burn
<1>1. [NextPlain]_wfVars /\ faults \in Nat
  BY EvmFacts, QuietFacts
<1>2. UNCHANGED snapshot \/ (pc # "idle" /\ snapshot'.status = status)
  BY <1>1 DEF NextPlain, Engine, Start, ExitFinished, EnterStage, SkipStage, SkipStep, BeginStep, AfterStep, EndExecute,
     ReturnToRiver, Crash, SaveSnapshot, SaveFails, StepFunc, IgnoreFailure, LoseFailure, GiveUp, VerdictWrites,
     SaveVerdict, CrashAfterVerdict, wfVars
<1> QED
  BY <1>2 DEF Unbroken, Behind

\* The base asset is filed as the payment only by send_base_asset_for_burn behind
\* sending, and the run that does it is doomed.
LEMMA MisfiledStep ==
    ASSUME EvmInv, [NextEvm]_vars, ~Misfiled, Misfiled'
    PROVE  pc = "func" /\ pos = 2 /\ Behind(snapshot.status) /\ faults' = faults /\ Doomed'
<1> USE StepNumbers DEF sending, send_base_asset_for_burn, waiting_for_the_first_confirmation
<1>0. ChainOK
  BY EvmFacts
<1>1. PICK t \in RecordsOf("transfer")' : chain'[t].type = "base"
  BY DEF Misfiled
<1>2. t \in DOMAIN chain' /\ <<"transfer", t>> \in records'
  BY <1>1 DEF RecordsOf
<1>3. ~(<<"transfer", t>> \in records /\ t \in DOMAIN chain /\ chain'[t].type = chain[t].type)
  BY <1>1 DEF Misfiled, RecordsOf
<1>4. <<"transfer", t>> \notin records
  BY <1>0, <1>3, ChainStep DEF ChainOK
<1>5. records' # records
  BY <1>2, <1>4
<1>6. Submits("base", 2) \/ Submits("transfer", 4)
  BY <1>5, ChainEffects DEF ChainMoves
<1>7. ASSUME NEW type \in {"base", "transfer"}, NEW p, Submits(type, p)
      PROVE  /\ TxType = "transfer" /\ t = Len(chain') /\ type = "base" /\ Returns("nil")
             /\ records' = records \cup {<<"transfer", Len(chain')>>}
             /\ Len(chain') \notin DOMAIN chain
  <2>1. records' = records \cup {<<TxType, Len(chain')>>} /\ (type = "base" => Returns("nil"))
    BY <1>5, <1>7 DEF Submits
  <2>2. TxType = "transfer" /\ t = Len(chain')
    BY <1>2, <1>4, <2>1
  <2>3. chain'[Len(chain')].type = type /\ Len(chain') \notin DOMAIN chain
    BY <1>0, <1>7, SubmittedAppends DEF Submits, ChainOK
  <2> QED
    BY <1>1, <2>1, <2>2, <2>3
<1>8. Submits("base", 2)
  BY <1>6, <1>7
<1>9. /\ pc = "func" /\ pos = 2 /\ RecordsOf("base") = {} /\ CurrentStep = 4
      /\ status[pos] = "processing" /\ snapshot.status = status /\ ~Pending(state)
  BY <1>7, <1>8, QuietFacts DEF Submits, TxType
<1>10. status[4] # "unset" /\ status[5] = "unset"
  BY <1>9, BaseTxType
<1>11. RecordsOf("base")' = {}
  <2>1. \A u : <<"base", u>> \notin records
    BY <1>0, <1>9 DEF RecordsOf, ChainOK
  <2>2. records' = records \cup {<<"transfer", Len(chain')>>}
    BY <1>7, <1>8
  <2>3. \A u : <<"base", u>> \notin records'
    BY <2>1, <2>2
  <2> QED
    BY <2>3 DEF RecordsOf
<1>12. /\ pc' = "post" /\ result' = "nil" /\ UNCHANGED <<state, snapshot, status, pos, faults>>
  BY <1>7, <1>8 DEF Returns, Return
<1> QED
  BY <1>9, <1>10, <1>11, <1>12 DEF Behind, Doomed, Settled, Pending

\* What is finished is not written again.
LEMMA FinishedIsKept ==
    ASSUME EvmInv, [NextEvm]_vars, Finished(snapshot.state) PROVE UNCHANGED snapshot
<1>1. pc \notin {"scan", "func", "post", "end", "failure"} /\ [NextPlain]_wfVars
  BY QuietFacts, EvmFacts
<1> QED
  BY <1>1 DEF NextPlain, Engine, Start, ExitFinished, EnterStage, AtStage, SkipStage, SkipStep, AtStep, BeginStep,
     AfterStep, EndExecute, ReturnToRiver, Crash, StepFunc, IgnoreFailure, LoseFailure, GiveUp, CrashAfterVerdict, wfVars

\* Without another fault the doomed run ends in the failure of the transfer.
LEMMA DoomedStep ==
    ASSUME EvmInv, [NextEvm]_vars, Doomed, faults' = faults
    PROVE  Doomed' \/ (Finished(snapshot'.state) /\ snapshot'.status[5] = "unset")
<1> USE StepNumbers DEF Pending, None
<1>0. /\ ChainOK /\ Walk(Main) /\ EngineInv
      /\ state \in WorkflowState /\ status \in [1..7 -> StepStatus] /\ faults \in Nat /\ ~Fault
      /\ pc \in {"func", "post"} => status[pos] = "processing" /\ pos \in 1..7 /\ stage = StageOf[pos]
      /\ pc \in {"scan", "func", "post", "end", "failure"} => ~checkStatus
  BY QuietFacts, EvmFacts DEF checkStatus, Finished
<1>1. /\ RecordsOf("base") = {} /\ state.NextStage = 0 /\ state.NextStep = 0
      /\ status[4] # "unset" /\ status[5] = "unset" /\ snapshot.status[5] = "unset"
      /\ \/ pc = "post" /\ pos = 2 /\ result = "nil"
         \/ pc = "scan" /\ pos = 3 /\ stage = 1 /\ status[3] = "unset"
         \/ pc = "func" /\ pos = 3
         \/ pc \in {"post", "end", "failure"} /\ pos = 3 /\ result = "error"
  BY DEF Doomed
<1>2. RecordsOf("base")' = {}
  <2>1. ~Submits("base", 2) /\ ~Submits("transfer", 4)
    BY <1>1 DEF Submits
  <2>2. records' = records /\ DOMAIN chain' = DOMAIN chain
    BY <1>0, <2>1, ChainEffects, ChainMovesTx DEF ChainMoves, ChainOK
  <2> QED
    BY <1>1, <2>2 DEF RecordsOf
<1>3. CASE EnterStage \/ SkipStage \/ ExitFinished \/ Start \/ ReturnToRiver \/ SkipStep
  BY <1>0, <1>1, <1>3 DEF EnterStage, SkipStage, AtStage, ExitFinished, Start, ReturnToRiver, SkipStep, AtStep, Settled
<1>4. CASE BeginStep
  <2>1. /\ pc = "scan" /\ pos = 3 /\ UNCHANGED pos /\ pc' = "func" /\ state' = ConsumeNextStep
        /\ status' = [status EXCEPT ![pos] = "processing"] /\ snapshot'.status = status'
    BY <1>0, <1>1, <1>4 DEF BeginStep, AtStep, SaveSnapshot, SaveFails
  <2>2. status'[4] = status[4] /\ status'[5] = status[5]
    BY <1>0, <2>1
  <2>3. state'.NextStage = 0 /\ state'.NextStep = 0
    BY <1>0, <1>1, <2>1 DEF ConsumeNextStep, WorkflowState
  <2> QED
    BY <1>1, <1>2, <2>1, <2>2, <2>3 DEF Doomed
<1>5. CASE AfterStep
  <2>1. pc = "post" /\ snapshot'.status = status /\ Settle(result) /\ UNCHANGED <<state, stage>>
    BY <1>0, <1>5 DEF AfterStep, SaveFails
  <2>2. CASE pos = 2 /\ result = "nil"
    <3>1. status[3] = "unset"
      BY <1>0, <2>1, <2>2 DEF EngineInv, OrderInv, StageOrder, Settled
    <3>2. status' = [status EXCEPT ![2] = "completed"] /\ pos' = 3 /\ pc' = "scan"
      BY <2>1, <2>2 DEF Settle
    <3>3. status'[3] = "unset" /\ status'[4] = status[4] /\ status'[5] = status[5]
      BY <1>0, <3>1, <3>2
    <3> QED
      BY <1>0, <1>1, <1>2, <2>1, <2>2, <3>2, <3>3 DEF Doomed
  <2>3. CASE pos = 3 /\ result = "error"
    <3>1. status' = [status EXCEPT ![3] = "failed"] /\ pos' = 3 /\ pc' = "end" /\ result' = "error"
      BY <2>1, <2>3 DEF Settle
    <3>2. status'[4] = status[4] /\ status'[5] = status[5]
      BY <1>0, <3>1
    <3> QED
      BY <1>1, <1>2, <2>1, <3>1, <3>2 DEF Doomed
  <2> QED
    BY <1>1, <2>1, <2>2, <2>3
<1>6. CASE EndExecute
  <2>1. /\ pc' = "failure" /\ UNCHANGED <<status, pos, result>> /\ snapshot'.status = status
        /\ state' = [state EXCEPT !.IsCompleted = @ \/ result = "nil"] /\ pos = 3 /\ result = "error"
    BY <1>0, <1>1, <1>6, EvmSteps DEF EndExecute, SaveSnapshot, SaveFails
  <2>2. state'.NextStage = 0 /\ state'.NextStep = 0
    BY <1>0, <1>1, <2>1 DEF WorkflowState
  <2> QED
    BY <1>1, <1>2, <2>1, <2>2 DEF Doomed
<1>7. CASE StepFunction
  <2>1. pc = "func" /\ pos = 3
    BY <1>1, <1>7, StepFunctionEnds DEF Ends, Finishes, Dies, JumpsTo
  <2>2. waitingSendBurnBaseAssetConfirmations
    BY <1>7, <2>1 DEF StepFunction, InStep, validateRequest, sendBaseAssetForBurn, sendingStep,
       waitingForTheFirstConfirmation, waitingConfirmations, sendSuccessEvent, validate_request,
       send_base_asset_for_burn, sending, waiting_for_the_first_confirmation, waiting_confirmations, send_success_event
  <2>3. Returns("error")
    BY <1>1, <2>2 DEF waitingSendBurnBaseAssetConfirmations
  <2>4. pc' = "post" /\ result' = "error" /\ UNCHANGED <<state, snapshot, status, pos>>
    BY <2>3 DEF Returns, Return
  <2> QED
    BY <1>1, <1>2, <2>1, <2>4 DEF Doomed
<1>8. CASE OnFailure
  <2>1. pc = "failure"
    BY <1>8, OnFailureCases, OnFailureEvent DEF LoseFailure, IgnoreFailure
  <2>2. CurrentStep = 4
    <3>1. \A i \in Steps : status[i] # "unset" => i <= 4
      BY <1>0, <1>1 DEF Walk, InTurn
    <3> QED
      BY <1>1, <3>1, FurthestStep
  <2>3. GiveUp \/ UNCHANGED wfVars
    BY <1>0, <2>1, <2>2, ExitsAtCurrent DEF exitOnFailedSteps, sending
  <2>4. CASE GiveUp
    <3>1. snapshot' = [status |-> status, state |-> FailedState]
      BY <1>0, <2>4 DEF GiveUp, VerdictWrites, SaveVerdict, SaveFails
    <3>2. FailedState.IsFailed
      BY <1>0 DEF FailedState, WorkflowState
    <3> QED
      BY <1>1, <3>1, <3>2 DEF Finished
  <2>5. CASE UNCHANGED wfVars
    BY <1>1, <1>2, <2>5 DEF wfVars, Doomed
  <2> QED
    BY <2>3, <2>4, <2>5
<1>9. CASE UNCHANGED wfVars
  BY <1>1, <1>2, <1>9 DEF wfVars, Doomed
<1>10. ~Crash
  BY <1>0 DEF Crash
<1> QED
  BY <1>3, <1>4, <1>5, <1>6, <1>7, <1>8, <1>9, <1>10 DEF NextEvm, EngineStep, Engine, TimePasses, ChainMoves, vars

LEMMA FaultsNeededStep == ASSUME EvmInv, WayInv', [NextEvm]_vars PROVE FaultsNeeded'
<1>0. /\ Spent \in Nat /\ Spent' \in Nat
      /\ (faults' = faults /\ Spent' = Spent) \/ (faults' # faults /\ Spent' = Spent + 1)
      /\ FaultsNeeded
  <2>1. faults \in 0..MaxFaults /\ MaxFaults \in Nat /\ (faults' = faults \/ (faults > 0 /\ faults' = faults - 1))
    BY EvmFacts, FaultsStep DEF Fault
  <2> QED
    BY <2>1 DEF Spent, EvmInv
<1>1. Spent' >= 1 \/ Unbroken'
  <2>1. CASE Spent = 0 /\ faults' = faults
    BY <1>0, <2>1, UnbrokenStep DEF FaultsNeeded
  <2> QED
    BY <1>0, <2>1
<1>2. Spent' >= 2 \/ SendsOnce'
  <2>1. CASE Spent =< 1 /\ faults' = faults
    BY <1>0, <2>1, SendsOnceStep DEF FaultsNeeded
  <2>2. CASE Spent = 0 /\ faults' # faults
    BY <1>0, <2>2, FirstFault DEF FaultsNeeded, SendsOnce
  <2> QED
    BY <1>0, <2>1, <2>2
<1>3. Spent' >= 2 \/ ~Misfiled'
  <2> SUFFICES ASSUME Spent' < 2, Misfiled' PROVE FALSE
    BY <1>0
  <2>1. SendsOnce /\ ~Misfiled
    BY <1>0 DEF FaultsNeeded
  <2>2. pc = "func" /\ pos = 2 /\ Behind(snapshot.status)
    BY <2>1, MisfiledStep
  <2>3. ~Finished(snapshot.state)
    BY <2>2, QuietFacts
  <2> QED
    BY <2>1, <2>2, <2>3 DEF SendsOnce
<1>4. Spent' >= 3 \/ (Misfiled' => Doomed' \/ (Finished(snapshot'.state) /\ snapshot'.status[5] = "unset"))
  <2> SUFFICES ASSUME Spent' < 3, Misfiled'
               PROVE  Doomed' \/ (Finished(snapshot'.state) /\ snapshot'.status[5] = "unset")
    BY <1>0
  <2>1. CASE ~Misfiled
    BY <2>1, MisfiledStep
  <2>2. CASE Misfiled
    <3>1. Spent >= 2 /\ faults' = faults
      BY <1>0, <2>2 DEF FaultsNeeded
    <3>2. Doomed \/ (Finished(snapshot.state) /\ snapshot.status[5] = "unset")
      BY <1>0, <2>2, <3>1 DEF FaultsNeeded
    <3> QED
      BY <3>1, <3>2, DoomedStep, FinishedIsKept
  <2> QED
    BY <2>1, <2>2
<1> QED
  BY <1>1, <1>2, <1>3, <1>4 DEF FaultsNeeded

LEMMA EvmInductive == SpecEvm => []EvmInv
<1>1. InitEvm => EvmInv
  <2> SUFFICES ASSUME InitEvm PROVE EvmInv
    OBVIOUS
  <2> USE StepNumbers DEF InitEvm, InitTransfer, Init
  <2>1. WayInv
    BY WayInductive
  <2>2. EvmTypeOK
    <3>1. TypeOK
      BY <2>1 DEF WayInv, PlainInv, EngineInv, IndInv
    <3>2. row \in [status: TransferStatus, txHash: Nat] /\ events \subseteq TransferStatus
      BY DEF TransferStatus, None
    <3>3. loaded \in TransferStatus /\ stepWh \in [step: Nat, status: TransferStatus]
      BY DEF TransferStatus, None
    <3>4. chain \in Seq(Tx)
      OBVIOUS
    <3> QED
      BY <3>1, <3>2, <3>3, <3>4 DEF EvmTypeOK, TransferTypeOK, Tx
  <2>3. ~Done(sending) /\ ~Done(waiting_confirmations)
    BY DEF Done, FreshStatus, sending, waiting_confirmations
  <2>4. RowInv
    BY DEF RowInv
  <2>5. ASSUME NEW type
        PROVE  /\ PaidOnce(type, sending) /\ PaidOnce(type, send_base_asset_for_burn)
               /\ Cardinality(Payments(type)) =< Spent + 1
    <3>1. Payments(type) = {}
      BY DEF Payments
    <3>2. Cardinality(Payments(type)) = 0 /\ Spent = 0
      BY <3>1, FS_EmptySet, WorkflowAssumption DEF Spent
    <3> QED
      BY <3>2 DEF PaidOnce
  <2>6. FaultsNeeded
    <3>1. \A i \in Steps : status[i] = "unset" /\ snapshot.status[i] = "unset"
      BY DEF FreshStatus
    <3>2. Unbroken
      BY <3>1 DEF Unbroken, InLoop, Pending, FreshState, sending
    <3>3. SendsOnce
      BY <3>1 DEF SendsOnce, Behind, sending
    <3>4. ~Misfiled
      BY DEF Misfiled, RecordsOf
    <3> QED
      BY <3>2, <3>3, <3>4 DEF FaultsNeeded
  <2> QED
    BY <2>1, <2>2, <2>3, <2>4, <2>5, <2>6 DEF EvmInv
<1>2. EvmInv /\ [NextEvm]_vars => EvmInv'
  <2> SUFFICES ASSUME EvmInv, [NextEvm]_vars PROVE EvmInv'
    OBVIOUS
  <2>1. WayInv' /\ EvmTypeOK'
    BY WayInductive, EvmTypeStep DEF EvmInv
  <2>2. PaidOnce("transfer", sending)'
    BY PaidStep, SendingErrorIsFinal DEF EvmInv, sending
  <2>3. ASSUME snapshot'.status[waiting_for_the_first_confirmation] = "unset"
        PROVE  PaidOnce("base", send_base_asset_for_burn)'
    <3>1. snapshot.status[5] = "unset"
      BY <2>3, EvmFacts, SnapshotKeeps, StepNumbers DEF waiting_for_the_first_confirmation
    <3>2. (UNCHANGED faults /\ pc = "failure" /\ pos = 2) => GiveUp \/ UNCHANGED wfVars
      BY <3>1, BaseErrorIsFinal
    <3> QED
      BY <3>1, <3>2, PaidStep DEF EvmInv, waiting_for_the_first_confirmation, send_base_asset_for_burn
  <2> QED
    BY <2>1, <2>2, <2>3, SentStep, ConfirmedStep, RowStep, BaseBoundStep, FaultsNeededStep DEF EvmInv
<1> QED
  BY <1>1, <1>2, PTL DEF SpecEvm

\* Row, webhooks, records and the transactions given to the node stay in their
\* types: in particular a record names a transaction that the node was given.
THEOREM EvmTypeCorrect == SpecEvm => []EvmTypeOK
<1>1. EvmInv => EvmTypeOK
  BY DEF EvmInv
<1> QED
  BY <1>1, EvmInductive, PTL

\* sendSuccessEvent completes only transfers whose transaction succeeded and has the
\* confirmations, also when sending was executed again and steps before it after it;
\* and it is the payment, unless three faults have let a step behind the jump file the
\* base asset as one.
THEOREM EvmCompletedIsConfirmed == SpecEvm => []CompletedIsConfirmed
<1>1. EvmInv => CompletedIsConfirmed
  <2> SUFFICES ASSUME EvmInv, row.status = "completed"
               PROVE  HasConfirmations /\ (chain[row.txHash].type = "transfer" \/ Spent >= 3)
    BY DEF CompletedIsConfirmed, HasConfirmations
  <2> USE StepNumbers DEF sending, waiting_confirmations
  <2>1. snapshot.status[7] # "unset"
    BY DEF EvmInv, RowInv, send_success_event
  <2>2. snapshot.status[4] = "completed" /\ snapshot.status[5] = "completed" /\ snapshot.status[6] = "completed"
    BY <2>1 DEF EvmInv, WayInv, Walk, InTurn
  <2>3. HasConfirmations
    BY <2>2 DEF EvmInv, Done
  <2>4. row.txHash \in RecordsOf("transfer")
    BY <2>2 DEF EvmInv, Done
  <2>5. chain[row.txHash].type \in {"base", "transfer"}
    <3>1. chain \in Seq(Tx) /\ row.txHash \in DOMAIN chain
      BY <2>3 DEF EvmInv, EvmTypeOK, Tx, HasConfirmations
    <3>2. chain[row.txHash] \in Tx
      BY <3>1
    <3> QED
      BY <3>2 DEF Tx
  <2>6. ASSUME chain[row.txHash].type = "base" PROVE Spent >= 3
    <3>1. Misfiled
      BY <2>4, <2>6 DEF Misfiled
    <3>2. ~Doomed /\ snapshot.status[5] # "unset"
      BY <2>2 DEF Doomed
    <3> QED
      BY <3>1, <3>2 DEF EvmInv, FaultsNeeded
  <2> QED
    BY <2>3, <2>5, <2>6
<1> QED
  BY <1>1, EvmInductive, PTL

\* The FSM submits the asset once, and once more for each failed write or crash, and
\* so it does the base asset, in whatever order the two steps are executed again.
THEOREM EvmRepaymentNeedsFault == SpecEvm => []RepaymentNeedsFault
<1>1. EvmInv => RepaymentNeedsFault
  <2> SUFFICES ASSUME EvmInv PROVE RepaymentNeedsFault
    OBVIOUS
  <2>1. Spent \in Nat
    <3>1. faults \in 0..MaxFaults /\ MaxFaults \in Nat
      BY WorkflowAssumption DEF EvmInv, WayInv, PlainInv, EngineInv, IndInv, TypeOK
    <3> QED
      BY <3>1 DEF Spent
  <2>2. ASSUME NEW type \in {"base", "transfer"} PROVE Cardinality(Payments(type)) =< 1 + Spent
    <3>1. chain \in Seq(Tx)
      BY DEF EvmInv, EvmTypeOK, Tx
    <3>2. IsFiniteSet(1..Len(chain)) /\ Payments(type) \subseteq 1..Len(chain)
      BY <3>1, FS_Interval DEF Payments
    <3>3. Cardinality(Payments(type)) \in Nat
      BY <3>2, FS_Subset, FS_CardinalityType
    <3>4. Cardinality(Payments(type)) =< Spent \/ Cardinality(Payments(type)) =< Spent + 1
      BY DEF EvmInv, PaidOnce
    <3> QED
      BY <2>1, <3>3, <3>4
  <2> QED
    BY <2>2 DEF RepaymentNeedsFault
<1> QED
  BY <1>1, EvmInductive, PTL

\* The FSM of the EVM chains implements TransferLifecycle, but for the one step that
\* fails a completed transfer: the failure of a step that a jump passed over and a
\* later attempt executed again.
THEOREM EvmLifecycleUnlessLate == SpecEvm => LifecycleUnlessLate
<1>1. InitEvm => Lifecycle!Init
  BY DEF InitEvm, InitTransfer, Init, FreshState, Lifecycle!Init
<1>2. EvmInv /\ [NextEvm]_vars => [Lifecycle!Next \/ FailsLate]_(Lifecycle!vars)
  <2> SUFFICES ASSUME EvmInv, [NextEvm]_vars PROVE [Lifecycle!Next \/ FailsLate]_(Lifecycle!vars)
    OBVIOUS
  <2> USE StepNumbers DEF validate_request, sending, waiting_for_the_first_confirmation, waiting_confirmations,
                          send_success_event, send_base_asset_for_burn, waiting_send_base_asset_for_burn_confirmations
  <2>0. /\ EngineInv /\ PlainInv /\ Walk(Main) /\ RowInv /\ TransferTypeOK /\ EvmJumps
        /\ row \in [status: TransferStatus, txHash: Nat] /\ Main \in SUBSET Steps
    BY EvmFacts DEF EvmTypeOK
  <2>1. CASE EngineStep
    BY <2>0, <2>1, EngineIsSilent DEF EngineStep
  <2>2. CASE StepFunction
    <3>1. UNCHANGED snapshot /\ pc = "func" /\ pos \in Steps
      BY <2>0, <2>2, StepFunctionEnds
         DEF Ends, Finishes, Dies, LostRun, JumpsTo, ReturnsJump, EngineInv, IndInv, Loops, InLoop
    <3>2. pos \in Main => \A j \in Steps : j > pos => snapshot.status[j] = "unset"
      BY <2>0, <3>1, AheadIsUnset
    <3>3. ~snapshot.state.IsFailed
      BY <2>0, <3>1, StillOpen DEF Finished
    <3>4. ASSUME NEW s \in TransferStatus \ {"failed"}, setTransferStatus(s, "nil"),
                 Lifecycle!Rank(s) >= Lifecycle!Rank(row.status)
          PROVE  [Lifecycle!Next]_(Lifecycle!vars)
      BY <2>0, <3>1, <3>3, <3>4, SetStatusProgress
    <3>5. CASE UNCHANGED <<events, row.status>>
      BY <3>1, <3>5 DEF Lifecycle!vars
    <3>6. row.status \notin {"failed", "in_mempool"}
      BY <2>0, <3>3 DEF RowInv
    <3> USE DEF InStep, TransferStatus, Lifecycle!Rank
    <3>7. CASE validateRequest
      <4>1. row.status = "processing"
        BY <2>0, <3>2, <3>6, <3>7 DEF validateRequest, RowInv
      <4> QED
        BY <3>4, <3>5, <3>7, <4>1 DEF validateRequest, trVars
    <3>8. CASE waitingForTheFirstConfirmation
      <4>1. row.status \in {"processing", "unconfirmed"}
        BY <2>0, <3>2, <3>6, <3>8 DEF waitingForTheFirstConfirmation, RowInv
      <4> QED
        BY <3>4, <3>5, <3>8, <4>1 DEF waitingForTheFirstConfirmation, stepWhFails, trVars
    <3>9. CASE sendSuccessEvent
      BY <2>0, <3>4, <3>9 DEF sendSuccessEvent
    <3>10. CASE sendingStep
      <4>1. UNCHANGED <<events, row.status>>
        BY <2>0, <3>10 DEF sendingStep, SetTxHash
      <4> QED
        BY <3>5, <4>1
    <3>11. CASE UNCHANGED trVars
      BY <3>5, <3>11 DEF trVars
    <3> QED
      BY <2>2, <3>7, <3>8, <3>9, <3>10, <3>11 DEF StepFunction, sendBaseAssetForBurn, stepWhFails,
         waitingSendBurnBaseAssetConfirmations, waitingConfirmations
  <2>3. CASE ExitsOnFailure /\ sendFailureEvent({0})
    <3>1. pc = "failure" /\ result # "nil" /\ pos \in Steps /\ status[pos] = "failed"
      BY <2>0, <2>3, OnFailureEvent DEF EngineInv, OutcomeInv
    <3>2. ~snapshot.state.IsFailed
      BY <2>0, <3>1, StillOpen DEF Finished
    <3>3. CASE "completed" \notin events \cup {row.status}
      <4>1. row.status \notin FinalStatus
        BY <2>0, <3>2, <3>3 DEF RowInv, FinalStatus
      <4> QED
        BY <2>0, <2>3, <3>3, <4>1, FailureIsFail
    <3>4. CASE "completed" \in events \cup {row.status}
      <4>1. snapshot.status[7] # "unset" /\ status[7] # "unset"
        BY <2>0, <3>1, <3>4 DEF RowInv, EngineInv, MemoryInv
      <4>2. CurrentStep = 7
        BY <4>1, FurthestStep
      <4>3. result = "failed" /\ pos \in {3, 5, 6}
        BY <2>0, <2>3, <3>1, <4>2, JumpNumbers DEF ExitsOnFailure, exitOnFailedSteps
      <4>4. pos = 3
        BY <2>0, <3>1, <4>1, <4>3 DEF Walk, InTurn
      <4>5. snapshot.status[4] = "completed" /\ snapshot.status[3] \notin Settled
        BY <2>0, <3>1, <4>1, <4>4 DEF Walk, InTurn, EngineInv, IndInv, Agree, Settled
      <4>6. CASE FailureWrites(3)
        <5>1. snapshot'.state.IsFailed
          BY <4>6, <2>0 DEF FailureWrites, EngineInv, IndInv, TypeOK, FailedState, WorkflowState
        <5> QED
          BY <3>1, <4>4, <4>5, <5>1 DEF FailsLate, PassedOver
      <4>7. CASE FailureWrites(0)
        BY <4>7 DEF FailureWrites, Lifecycle!vars
      <4> QED
        BY <2>3, <4>6, <4>7, OnFailureEvent
    <3> QED
      BY <3>3, <3>4
  <2>4. CASE UNCHANGED <<trVars, snapshot>>
    BY <2>4 DEF trVars, Lifecycle!vars
  <2> QED
    BY <2>1, <2>2, <2>3, <2>4, OnFailureCases DEF NextEvm, LoseFailure, IgnoreFailure, TimePasses, ChainMoves, vars, wfVars
<1> QED
  BY <1>1, <1>2, EvmInductive, PTL DEF SpecEvm, LifecycleUnlessLate

=============================================================================
