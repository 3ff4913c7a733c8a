--------------------------- MODULE TransferProofs ---------------------------
(***************************************************************************)
(* Proofs about the workflow engine for every list of stages, every number *)
(* of attempts and every number of faults; and what the state machines of  *)
(* the transfers have in common: the promise of TransferLifecycle, as the  *)
(* module Transfer instantiates it, and how the functions of the FSMs      *)
(* appear to the engine.                                                   *)
(***************************************************************************)
EXTENDS Transfer, TLAPS

(***************************************************************************)
(* The engine                                                              *)
(***************************************************************************)

\* The states in which the loops over stages and steps are being executed.
InLoop == pc \in {"scan", "func", "post"}

Finished(st) == st.IsCompleted \/ st.IsFailed

\* A pending jump to a stage names a step of that stage.
JumpOK(st) ==
    st.NextStage # None => st.NextStep \in Steps /\ StageOf[st.NextStep] = st.NextStage

\* A run belongs to a running job; its memory never contradicts the snapshot.
Agree ==
    pc # "idle" =>
        /\ job.attempt > 0
        /\ \A i \in Steps : snapshot.status[i] \in Settled => status[i] = snapshot.status[i]
        /\ Finished(snapshot.state) => Finished(state)

\* Where the loops are: the entered stage is not behind the position, what is
\* before the position in it is settled, and a stage that was passed over is
\* not entered half way.
Loops ==
    /\ pc = "idle" => pos = 1 /\ stage = None
    /\ InLoop =>
        /\ pos \in Steps => stage =< StageOf[pos]
        /\ \A j \in Steps : (j < pos /\ StageOf[j] = stage) => status[j] \in Settled
        /\ (pc = "scan" /\ pos \in Steps /\ StageOf[pos] # stage) =>
                \A j \in Steps : (j < pos /\ StageOf[j] = StageOf[pos]) =>
                    state.NextStage \notin {None, StageOf[pos]}
        /\ pc # "scan" => /\ pos \in Steps
                          /\ StageOf[pos] = stage
                          /\ status[pos] = "processing"

\* Pending jumps, in memory and in the snapshot.
Jumps ==
    /\ JumpOK(state)
    /\ JumpOK(snapshot.state)
    /\ (InLoop /\ state.NextStage # None) => state.NextStage # stage
    /\ pc \in {"func", "post"} => snapshot.state.NextStage =< stage
    /\ pc = "func" => state.NextStage = None
    /\ pc = "scan" => \/ snapshot.state.NextStage = state.NextStage
                      \/ snapshot.state.NextStage =< stage

IndInv == TypeOK /\ Agree /\ Loops /\ Jumps
\* An update of the WorkflowState, of a status or of the snapshot has its type.
LEMMA StateUpdates ==
    ASSUME NEW st \in WorkflowState, NEW a \in Nat, NEW b \in Nat, NEW c \in BOOLEAN
    PROVE  /\ [st EXCEPT !.NextStage = a] \in WorkflowState
           /\ [st EXCEPT !.NextStep = b] \in WorkflowState
           /\ [st EXCEPT !.NextStage = a, !.NextStep = b] \in WorkflowState
           /\ [st EXCEPT !.NextStage = a, !.NextStep = b, !.CustomError = c] \in WorkflowState
           /\ [st EXCEPT !.IsCompleted = c] \in WorkflowState
           /\ [st EXCEPT !.IsFailed = c] \in WorkflowState
BY DEF WorkflowState

LEMMA StatusUpdate ==
    ASSUME NEW s \in [Steps -> StepStatus], NEW i \in Steps, NEW v \in StepStatus
    PROVE  [s EXCEPT ![i] = v] \in [Steps -> StepStatus]
OBVIOUS

\* The verdict leaves snapshot and faults in their types.
LEMMA VerdictTypes ==
    ASSUME TypeOK, VerdictWrites PROVE snapshot' \in Snapshot /\ faults' \in 0..MaxFaults
<1> USE WorkflowAssumption
<1>1. FailedState \in WorkflowState
  BY StateUpdates DEF TypeOK, FailedState
<1>2. snapshot' \in Snapshot
  BY <1>1 DEF TypeOK, VerdictWrites, SaveVerdict, SaveFails, Snapshot
<1> QED
  BY <1>2 DEF TypeOK, VerdictWrites, SaveFails, Fault

\* Every action keeps the variables in their types.
LEMMA TypeStep == IndInv /\ [Next]_wfVars => TypeOK'
<1> SUFFICES ASSUME IndInv, [Next]_wfVars PROVE TypeOK'
  OBVIOUS
<1> USE WorkflowAssumption
<1>0. /\ TypeOK /\ (pc # "idle" => job.attempt > 0)
      /\ FreshStatus \in [Steps -> StepStatus] /\ FreshState \in WorkflowState
  BY DEF IndInv, Agree, FreshStatus, FreshState, StepStatus, WorkflowState, None
<1>1. CASE Start
  <2>1. status' \in [Steps -> StepStatus] /\ state' \in WorkflowState
    BY <1>0, <1>1 DEF TypeOK, Start, Snapshot
  <2>2. job' \in [status: {"available", "running", "completed", "discarded"}, attempt: Nat]
    BY <1>0, <1>1 DEF TypeOK, Start
  <2>3. pc' \in {"idle", "scan", "func", "post", "end", "failure", "return"}
    BY <1>1 DEF Start
  <2> QED
    BY <1>0, <1>1, <2>1, <2>2, <2>3 DEF TypeOK, Start
<1>2. CASE ExitFinished
  BY <1>0, <1>2 DEF TypeOK, ExitFinished
<1>3. CASE EnterStage
  <2>1. state' \in WorkflowState
    BY <1>0, <1>3, StateUpdates DEF TypeOK, EnterStage, None
  <2>2. stage' \in Nat
    BY <1>0, <1>3 DEF TypeOK, EnterStage, AtStage
  <2> QED
    BY <1>0, <1>3, <2>1, <2>2 DEF TypeOK, EnterStage
<1>4. CASE SkipStage
  <2>1. pos' \in 1..(StepCount + 1)
    BY <1>0, <1>4 DEF TypeOK, SkipStage, AtStage, Steps
  <2> QED
    BY <1>0, <1>4, <2>1 DEF TypeOK, SkipStage
<1>5. CASE SkipStep
  <2>1. pos' \in 1..(StepCount + 1)
    BY <1>0, <1>5 DEF TypeOK, SkipStep, AtStep, Steps
  <2>2. state.NextStep \in Nat /\ None \in Nat
    BY <1>0 DEF TypeOK, WorkflowState, None
  <2>3. state' \in WorkflowState
    BY <1>0, <1>5, <2>2, StateUpdates DEF TypeOK, SkipStep, ConsumeNextStep
  <2>4. status' \in [Steps -> StepStatus]
    BY <1>0, <1>5, StatusUpdate DEF TypeOK, SkipStep, AtStep, StepStatus
  <2> QED
    BY <1>0, <1>5, <2>1, <2>3, <2>4 DEF TypeOK, SkipStep
<1>6. CASE BeginStep
  <2>1. pos \in Steps
    BY <1>6 DEF BeginStep, AtStep
  <2>2. state.NextStep \in Nat /\ None \in Nat
    BY <1>0 DEF TypeOK, WorkflowState, None
  <2>3. state' \in WorkflowState
    BY <1>0, <1>6, <2>2, StateUpdates DEF TypeOK, BeginStep, ConsumeNextStep
  <2>4. status' \in [Steps -> StepStatus]
    BY <1>0, <1>6, <2>1, StatusUpdate DEF TypeOK, BeginStep, StepStatus
  <2>5. snapshot' \in Snapshot
    BY <1>0, <1>6, <2>3, <2>4 DEF TypeOK, BeginStep, SaveSnapshot, SaveFails, Snapshot
  <2>6. faults' \in 0..MaxFaults
    BY <1>0, <1>6 DEF TypeOK, BeginStep, SaveSnapshot, SaveFails, Fault
  <2>7. pc' \in {"func", "end"} /\ result' \in Results
    BY <1>0, <1>6 DEF TypeOK, BeginStep, Results
  <2> QED
    BY <1>0, <1>6, <2>3, <2>4, <2>5, <2>6, <2>7 DEF TypeOK, BeginStep
<1>7. CASE AfterStep
  <2>1. pos \in Steps
    BY <1>7 DEF IndInv, Loops, InLoop, AfterStep
  <2>2. snapshot' \in Snapshot /\ faults' \in 0..MaxFaults
    BY <1>0, <1>7 DEF TypeOK, AfterStep, Snapshot, SaveFails, Fault
  <2>3. PICK r \in Results : Settle(r)
    BY <1>0, <1>7 DEF TypeOK, AfterStep, Results
  <2>4. status' \in [Steps -> StepStatus]
    BY <1>0, <2>1, <2>3, StatusUpdate DEF TypeOK, Settle, StepStatus
  <2>5. pos' \in 1..(StepCount + 1)
    BY <1>0, <2>1, <2>3 DEF Settle, Steps
  <2>6. pc' \in {"scan", "return", "end"} /\ result' \in Results
    BY <2>3 DEF Settle, Results
  <2> QED
    BY <1>0, <1>7, <2>2, <2>4, <2>5, <2>6 DEF TypeOK, AfterStep
<1>8. CASE EndExecute
  <2>1. state.IsCompleted \in BOOLEAN
    BY <1>0 DEF TypeOK, WorkflowState
  <2>2. state' \in WorkflowState
    BY <1>0, <1>8, <2>1, StateUpdates DEF TypeOK, EndExecute
  <2>3. snapshot' \in Snapshot /\ faults' \in 0..MaxFaults
    BY <1>0, <1>8, <2>2 DEF TypeOK, EndExecute, SaveSnapshot, SaveFails, Snapshot, Fault
  <2>4. pc' \in {"failure", "return"}
    BY <1>8 DEF EndExecute
  <2> QED
    BY <1>0, <1>8, <2>2, <2>3, <2>4 DEF TypeOK, EndExecute
<1>9. CASE ReturnToRiver
  <2>1. job' \in [status: {"available", "running", "completed", "discarded"}, attempt: Nat]
    BY <1>0, <1>9 DEF TypeOK, ReturnToRiver, Retry
  <2>2. pos' \in 1..(StepCount + 1) /\ stage' \in Nat /\ result' \in Results
    BY <1>9 DEF ReturnToRiver, Forget, Results, None
  <2> QED
    BY <1>0, <1>9, <2>1, <2>2 DEF TypeOK, ReturnToRiver, Forget
<1>10. CASE Crash
  <2>1. job' \in [status: {"available", "running", "completed", "discarded"}, attempt: Nat]
    BY <1>0, <1>10 DEF TypeOK, Crash, Retry
  <2>2. pos' \in 1..(StepCount + 1) /\ stage' \in Nat /\ result' \in Results
    BY <1>10 DEF Crash, Forget, Results, None
  <2>3. faults' \in 0..MaxFaults
    BY <1>0, <1>10 DEF TypeOK, Crash, Fault
  <2> QED
    BY <1>0, <1>10, <2>1, <2>2, <2>3 DEF TypeOK, Crash, Forget
<1>11. CASE StepFunc
  <2>1. state' \in WorkflowState
    <3>1. CASE state' = state
      BY <1>0, <3>1 DEF TypeOK
    <3>2. ASSUME NEW k \in Steps, state' = Jump(state, k) PROVE state' \in WorkflowState
      <4>1. StageOf[k] \in Nat /\ k \in Nat
        BY DEF Steps
      <4> QED
        BY <1>0, <3>2, <4>1, StateUpdates DEF TypeOK, Jump
    <3> QED
      BY <1>11, <3>1, <3>2 DEF StepFunc, Return
  <2>2. result' \in Results /\ pc' = "post"
    BY <1>11 DEF StepFunc, Return, Results
  <2>3. faults' \in 0..MaxFaults
    BY <1>0, <1>11 DEF TypeOK, StepFunc, Fault
  <2> QED
    BY <1>0, <1>11, <2>1, <2>2, <2>3 DEF TypeOK, StepFunc, Return
<1>12. CASE IgnoreFailure
  BY <1>0, <1>12 DEF TypeOK, IgnoreFailure
<1>13. ASSUME NEW k \in Steps, NEW custom \in BOOLEAN, RedirectFailure(k, custom) PROVE TypeOK'
  <2>1. StageOf[k] \in Nat /\ k \in Nat /\ state.CustomError \in BOOLEAN
    BY <1>0 DEF TypeOK, WorkflowState, Steps
  <2>2. state' \in WorkflowState
    BY <1>0, <1>13, <2>1, StateUpdates DEF TypeOK, RedirectFailure
  <2>3. snapshot' \in Snapshot /\ faults' \in 0..MaxFaults
    BY <1>0, <1>13, <2>2 DEF TypeOK, RedirectFailure, SaveSnapshot, SaveFails, Snapshot, Fault
  <2> QED
    BY <1>0, <1>13, <2>2, <2>3 DEF TypeOK, RedirectFailure
<1>14. CASE GiveUp
  <2>1. state' \in WorkflowState
    BY <1>0, <1>14, StateUpdates DEF TypeOK, GiveUp, FailedState
  <2>2. snapshot' \in Snapshot /\ faults' \in 0..MaxFaults
    BY <1>0, <1>14, VerdictTypes DEF GiveUp
  <2> QED
    BY <1>0, <1>14, <2>1, <2>2 DEF TypeOK, GiveUp
<1>16. CASE StepGivesUp
  <2>1. state' \in WorkflowState
    BY <1>0, <1>16, StateUpdates DEF TypeOK, StepGivesUp, FailedState
  <2>2. snapshot' \in Snapshot /\ faults' \in 0..MaxFaults
    BY <1>0, <1>16, VerdictTypes DEF StepGivesUp
  <2>3. result' \in Results
    BY <1>16 DEF StepGivesUp, Results
  <2> QED
    BY <1>0, <1>16, <2>1, <2>2, <2>3 DEF TypeOK, StepGivesUp
<1>17. CASE CrashAfterVerdict
  <2>1. job' \in [status: {"available", "running", "completed", "discarded"}, attempt: Nat]
    BY <1>0, <1>17 DEF TypeOK, CrashAfterVerdict, Retry
  <2>2. pos' \in 1..(StepCount + 1) /\ stage' \in Nat /\ result' \in Results
    BY <1>17 DEF CrashAfterVerdict, Forget, Results, None
  <2>3. snapshot' \in Snapshot /\ faults' \in 0..MaxFaults
    BY <1>0, <1>17, VerdictTypes DEF CrashAfterVerdict, VerdictWrites
  <2> QED
    BY <1>0, <1>17, <2>1, <2>2, <2>3 DEF TypeOK, CrashAfterVerdict, Forget
<1>18. CASE LoseFailure
  BY <1>0, <1>18 DEF TypeOK, LoseFailure, Fault
<1>15. CASE UNCHANGED wfVars
  BY <1>0, <1>15 DEF TypeOK, wfVars
<1> QED
  BY <1>1, <1>2, <1>3, <1>4, <1>5, <1>6, <1>7, <1>8, <1>9, <1>10, <1>11, <1>12, <1>13, <1>14, <1>15,
     <1>16, <1>17, <1>18 DEF Next, Engine

\* Every action keeps memory and snapshot in agreement.
LEMMA AgreeStep == IndInv /\ [Next]_wfVars => Agree'
<1> SUFFICES ASSUME IndInv, [Next]_wfVars PROVE Agree'
  OBVIOUS
<1> USE DEF Settled
<1>0. /\ status \in [Steps -> StepStatus]
      /\ job \in [status: {"available", "running", "completed", "discarded"}, attempt: Nat]
      /\ state \in WorkflowState
      /\ Agree
      /\ pc \in {"func", "post"} => pos \in Steps /\ status[pos] = "processing"
  BY DEF IndInv, TypeOK, Loops, InLoop
<1>1. CASE Start
  BY <1>0, <1>1 DEF Start, Agree, Finished
<1>2. CASE ExitFinished
  BY <1>0, <1>2 DEF ExitFinished, Agree, Finished
<1>3. CASE EnterStage
  BY <1>0, <1>3 DEF EnterStage, AtStage, Agree, Finished, WorkflowState
<1>4. CASE SkipStage
  BY <1>0, <1>4 DEF SkipStage, AtStage, Agree, Finished
<1>5. CASE SkipStep
  BY <1>0, <1>5 DEF SkipStep, AtStep, ConsumeNextStep, Agree, Finished, WorkflowState
<1>6. CASE BeginStep
  <2>1. job.attempt > 0 /\ UNCHANGED job
    BY <1>0, <1>6 DEF BeginStep, AtStep, Agree
  <2>2. CASE SaveSnapshot
    BY <2>1, <2>2 DEF SaveSnapshot, Agree, Finished
  <2>3. CASE SaveFails
    <3>1. \A i \in Steps : snapshot'.status[i] \in Settled => status'[i] = snapshot'.status[i]
      BY <1>0, <1>6, <2>3 DEF BeginStep, AtStep, SaveFails, Agree
    <3>2. Finished(snapshot'.state) => Finished(state')
      BY <1>0, <1>6, <2>3 DEF BeginStep, AtStep, ConsumeNextStep, SaveFails, Agree, Finished, WorkflowState
    <3> QED
      BY <2>1, <3>1, <3>2 DEF Agree
  <2> QED
    BY <1>6, <2>2, <2>3 DEF BeginStep
<1>7. CASE AfterStep
  <2>1. job.attempt > 0 /\ UNCHANGED job
    BY <1>0, <1>7 DEF AfterStep, Agree
  <2>2. PICK r \in Results : Settle(r)
    BY <1>7 DEF IndInv, TypeOK, AfterStep, Results
  <2>3. \A i \in Steps : i # pos => status'[i] = status[i]
    BY <1>0, <2>2 DEF Settle
  <2>4. snapshot'.status[pos] = "processing" \/ UNCHANGED snapshot
    BY <1>0, <1>7 DEF AfterStep, SaveFails
  <2>5. \A i \in Steps : snapshot'.status[i] \in Settled => status'[i] = snapshot'.status[i]
    BY <1>0, <1>7, <2>3, <2>4 DEF AfterStep, SaveFails, Agree
  <2>6. Finished(snapshot'.state) => Finished(state')
    BY <1>0, <1>7 DEF AfterStep, SaveFails, Agree, Finished
  <2> QED
    BY <2>1, <2>5, <2>6 DEF Agree
<1>8. CASE EndExecute
  <2>1. job.attempt > 0 /\ UNCHANGED <<job, status>>
    BY <1>0, <1>8 DEF EndExecute, Agree
  <2>2. CASE SaveSnapshot
    BY <2>1, <2>2 DEF SaveSnapshot, Agree, Finished
  <2>3. CASE SaveFails
    <3>1. Finished(snapshot.state) => Finished(state')
      BY <1>0, <1>8 DEF EndExecute, Agree, Finished, WorkflowState
    <3> QED
      BY <1>0, <1>8, <2>1, <2>3, <3>1 DEF SaveFails, EndExecute, Agree
  <2> QED
    BY <1>8, <2>2, <2>3 DEF EndExecute
<1>9. CASE ReturnToRiver
  BY <1>9 DEF ReturnToRiver, Forget, Agree
<1>10. CASE Crash
  BY <1>10 DEF Crash, Forget, Agree
<1>11. CASE StepFunc
  <2>1. Finished(state) => Finished(state')
    <3>1. ASSUME NEW k \in Steps PROVE Finished(state) => Finished(Jump(state, k))
      BY <1>0 DEF Jump, Finished, WorkflowState
    <3> QED
      BY <1>11, <3>1 DEF StepFunc, Return
  <2> QED
    BY <1>0, <1>11, <2>1 DEF StepFunc, Return, Agree
<1>12. CASE IgnoreFailure
  BY <1>0, <1>12 DEF IgnoreFailure, Agree, Finished
<1>13. ASSUME NEW k \in Steps, NEW custom \in BOOLEAN, RedirectFailure(k, custom) PROVE Agree'
  <2>1. job.attempt > 0 /\ UNCHANGED <<job, status>>
    BY <1>0, <1>13 DEF RedirectFailure, Agree
  <2>2. CASE SaveSnapshot
    BY <2>1, <2>2 DEF SaveSnapshot, Agree, Finished
  <2>3. CASE SaveFails
    <3>1. Finished(snapshot.state) => Finished(state')
      BY <1>0, <1>13 DEF RedirectFailure, Agree, Finished, WorkflowState
    <3> QED
      BY <1>0, <1>13, <2>1, <2>3, <3>1 DEF SaveFails, RedirectFailure, Agree
  <2> QED
    BY <1>13, <2>2, <2>3 DEF RedirectFailure
<1>14. CASE GiveUp
  <2>1. job.attempt > 0 /\ UNCHANGED <<job, status>>
    BY <1>0, <1>14 DEF GiveUp, Agree
  <2>2. Finished(state')
    BY <1>0, <1>14 DEF GiveUp, FailedState, Finished, WorkflowState
  <2> QED
    BY <1>0, <1>14, <2>1, <2>2 DEF GiveUp, VerdictWrites, SaveVerdict, SaveFails, Agree
<1>16. CASE StepGivesUp
  <2>1. job.attempt > 0 /\ UNCHANGED <<job, status>>
    BY <1>0, <1>16 DEF StepGivesUp, Agree
  <2>2. Finished(state')
    BY <1>0, <1>16 DEF StepGivesUp, FailedState, Finished, WorkflowState
  <2> QED
    BY <1>0, <1>16, <2>1, <2>2 DEF StepGivesUp, VerdictWrites, SaveVerdict, SaveFails, Agree
<1>17. CASE CrashAfterVerdict
  BY <1>17 DEF CrashAfterVerdict, Forget, Agree
<1>18. CASE LoseFailure
  BY <1>0, <1>18 DEF LoseFailure, Agree, Finished
<1>15. CASE UNCHANGED wfVars
  BY <1>0, <1>15 DEF wfVars, Agree, Finished
<1> QED
  BY <1>1, <1>2, <1>3, <1>4, <1>5, <1>6, <1>7, <1>8, <1>9, <1>10, <1>11, <1>12, <1>13, <1>14, <1>15,
     <1>16, <1>17, <1>18 DEF Next, Engine

\* Every action keeps the loops where they may be.
LEMMA LoopsStep == IndInv /\ [Next]_wfVars => Loops'
<1> SUFFICES ASSUME IndInv, [Next]_wfVars PROVE Loops'
  OBVIOUS
<1> USE WorkflowAssumption DEF Loops, InLoop, Settled
<1>0. /\ Loops
      /\ status \in [Steps -> StepStatus]
      /\ pos \in 1..(StepCount + 1)
      /\ state \in WorkflowState
      /\ stage \in Nat
  BY DEF IndInv, TypeOK
<1>1. CASE Start
  <2>1. \A j \in Steps : ~(j < pos)
    BY <1>0, <1>1 DEF Start, Steps
  <2> QED
    BY <1>0, <1>1, <2>1 DEF Start, None
<1>2. CASE ExitFinished
  BY <1>0, <1>2 DEF ExitFinished
<1>3. CASE EnterStage
  BY <1>0, <1>3 DEF EnterStage, AtStage, WorkflowState
<1>4. CASE SkipStage
  BY <1>0, <1>4 DEF SkipStage, AtStage, Steps
<1>5. CASE SkipStep
  <2>1. pos \in Steps /\ StageOf[pos] = stage /\ pos' = pos + 1 /\ UNCHANGED <<stage, pc>> /\ pc = "scan"
    BY <1>0, <1>5 DEF SkipStep, AtStep
  <2>2. \A j \in Steps : status[j] \in Settled => status'[j] \in Settled
    BY <1>0, <1>5 DEF SkipStep
  <2>3. status'[pos] \in Settled
    BY <1>0, <1>5, <2>1 DEF SkipStep
  <2>4. \A j \in Steps : (j < pos' /\ StageOf[j] = stage) => status'[j] \in Settled
    BY <1>0, <2>1, <2>2, <2>3 DEF Steps
  <2>5. pos' \in Steps => stage =< StageOf[pos']
    BY <1>0, <2>1 DEF Steps
  <2>6. (pos' \in Steps /\ StageOf[pos'] # stage) =>
            \A j \in Steps : j < pos' => StageOf[j] # StageOf[pos']
    BY <1>0, <2>1 DEF Steps
  <2> QED
    BY <2>1, <2>4, <2>5, <2>6
<1>6. CASE BeginStep
  <2>1. pos \in Steps /\ StageOf[pos] = stage /\ UNCHANGED <<pos, stage>> /\ pc = "scan"
    BY <1>0, <1>6 DEF BeginStep, AtStep
  <2>2. \A j \in Steps : j # pos => status'[j] = status[j]
    BY <1>0, <1>6 DEF BeginStep
  <2>3. (pc' = "func" /\ status'[pos] = "processing") \/ pc' = "end"
    BY <1>0, <1>6, <2>1 DEF BeginStep
  <2> QED
    BY <1>0, <2>1, <2>2, <2>3 DEF Steps
<1>7. CASE AfterStep
  <2>1. pos \in Steps /\ StageOf[pos] = stage /\ UNCHANGED stage
    BY <1>0, <1>7 DEF AfterStep
  <2>2. PICK r \in Results : Settle(r)
    BY <1>7 DEF IndInv, TypeOK, AfterStep, Results
  <2>3. \A j \in Steps : j # pos => status'[j] = status[j]
    BY <1>0, <2>2 DEF Settle
  <2>4. pc' \in {"scan", "end", "return"}
    BY <2>2 DEF Settle
  <2>5. pc' = "scan" => pos' = pos + 1 /\ status'[pos] \in Settled
    BY <1>0, <2>1, <2>2 DEF Settle
  <2>6. ASSUME pc' = "scan" PROVE Loops'
    <3>1. \A j \in Steps : (j < pos' /\ StageOf[j] = stage) => status'[j] \in Settled
      BY <1>0, <1>7, <2>1, <2>3, <2>5, <2>6 DEF AfterStep, Steps
    <3>2. pos' \in Steps => stage =< StageOf[pos']
      BY <1>0, <2>1, <2>5, <2>6 DEF Steps
    <3>3. (pos' \in Steps /\ StageOf[pos'] # stage) =>
              \A j \in Steps : j < pos' => StageOf[j] # StageOf[pos']
      BY <1>0, <2>1, <2>5, <2>6 DEF Steps
    <3> QED
      BY <2>1, <2>6, <3>1, <3>2, <3>3
  <2> QED
    BY <2>4, <2>6
<1>8. CASE EndExecute
  BY <1>0, <1>8 DEF EndExecute
<1>9. CASE ReturnToRiver
  BY <1>0, <1>9 DEF ReturnToRiver, Forget
<1>10. CASE Crash
  BY <1>0, <1>10 DEF Crash, Forget
<1>11. CASE StepFunc
  BY <1>0, <1>11 DEF StepFunc, Return
<1>12. CASE IgnoreFailure
  BY <1>0, <1>12 DEF IgnoreFailure
<1>13. ASSUME NEW k \in Steps, NEW custom \in BOOLEAN, RedirectFailure(k, custom) PROVE Loops'
  BY <1>0, <1>13 DEF RedirectFailure
<1>14. CASE GiveUp
  BY <1>0, <1>14 DEF GiveUp
<1>16. CASE StepGivesUp
  BY <1>0, <1>16 DEF StepGivesUp
<1>17. CASE CrashAfterVerdict
  BY <1>0, <1>17 DEF CrashAfterVerdict, Forget
<1>18. CASE LoseFailure
  BY <1>0, <1>18 DEF LoseFailure
<1>15. CASE UNCHANGED wfVars
  BY <1>0, <1>15 DEF wfVars
<1> QED
  BY <1>1, <1>2, <1>3, <1>4, <1>5, <1>6, <1>7, <1>8, <1>9, <1>10, <1>11, <1>12, <1>13, <1>14, <1>15,
     <1>16, <1>17, <1>18 DEF Next, Engine

\* When the loops stand at a step that may start, no jump to a stage is pending.
LEMMA NoStagePending ==
    ASSUME IndInv, AtStep, state.NextStep \in {None, pos} PROVE state.NextStage = None
BY DEF IndInv, Jumps, JumpOK, InLoop, AtStep, None, Steps

\* The verdict is written beside a pending jump.
LEMMA FailedKeepsJump ==
    ASSUME state \in WorkflowState
    PROVE  FailedState.NextStage = state.NextStage /\ FailedState.NextStep = state.NextStep
BY DEF FailedState, WorkflowState

\* Every action keeps the pending jumps well formed.
LEMMA JumpsStep == IndInv /\ [Next]_wfVars => Jumps'
<1> SUFFICES ASSUME IndInv, [Next]_wfVars PROVE Jumps'
  OBVIOUS
<1> USE WorkflowAssumption DEF Jumps, JumpOK, InLoop
<1>0. /\ Jumps /\ Loops
      /\ state \in WorkflowState
      /\ snapshot \in Snapshot
      /\ stage \in Nat
  BY DEF IndInv, TypeOK
<1>1. CASE Start
  BY <1>0, <1>1 DEF Start, Loops
<1>2. CASE ExitFinished
  BY <1>0, <1>2 DEF ExitFinished
<1>3. CASE EnterStage
  BY <1>0, <1>3 DEF EnterStage, AtStage, Loops, WorkflowState, Snapshot, None
<1>4. CASE SkipStage
  BY <1>0, <1>4 DEF SkipStage, AtStage
<1>5. CASE SkipStep
  BY <1>0, <1>5 DEF SkipStep, AtStep, ConsumeNextStep, WorkflowState, None
<1>6. CASE BeginStep
  <2>1. state.NextStage = None
    BY <1>6, NoStagePending DEF BeginStep
  <2>2. state'.NextStage = None
    BY <1>0, <1>6, <2>1 DEF BeginStep, ConsumeNextStep, WorkflowState
  <2> QED
    BY <1>0, <1>6, <2>2 DEF BeginStep, SaveSnapshot, SaveFails, None
<1>7. CASE AfterStep
  BY <1>0, <1>7 DEF AfterStep, Settle, SaveFails
<1>8. CASE EndExecute
  <2>1. state'.NextStage = state.NextStage /\ state'.NextStep = state.NextStep
    BY <1>0, <1>8 DEF EndExecute, WorkflowState
  <2>2. pc' \in {"return", "failure"} /\ (SaveSnapshot \/ SaveFails)
    BY <1>8 DEF EndExecute
  <2>3. snapshot'.state \in {state', snapshot.state}
    BY <2>2 DEF SaveSnapshot, SaveFails
  <2> QED
    BY <1>0, <2>1, <2>2, <2>3
<1>9. CASE ReturnToRiver
  BY <1>0, <1>9 DEF ReturnToRiver, Forget, FreshState
<1>10. CASE Crash
  BY <1>0, <1>10 DEF Crash, Forget, FreshState
<1>11. CASE StepFunc
  <2>1. stage = StageOf[pos] /\ snapshot.state.NextStage =< stage
    BY <1>0, <1>11 DEF StepFunc, Loops
  <2>2. CASE state' = state
    BY <1>0, <1>11, <2>1, <2>2 DEF StepFunc, Return
  <2>3. ASSUME NEW k \in Steps, state' = Jump(state, k) PROVE Jumps'
    <3>1. state.NextStage = None
      BY <1>0, <1>11 DEF StepFunc
    <3>2. CASE StageOf[k] = StageOf[pos]
      <4>1. state'.NextStage = None
        BY <1>0, <2>3, <3>1, <3>2 DEF Jump, WorkflowState
      <4> QED
        BY <1>0, <1>11, <2>1, <4>1 DEF StepFunc, Return
    <3>3. CASE StageOf[k] # StageOf[pos]
      <4>1. state'.NextStage = StageOf[k] /\ state'.NextStep = k
        BY <1>0, <2>3, <3>3 DEF Jump, WorkflowState
      <4> QED
        BY <1>0, <1>11, <2>1, <3>3, <4>1 DEF StepFunc, Return
    <3> QED
      BY <3>2, <3>3
  <2> QED
    BY <1>11, <2>2, <2>3 DEF StepFunc, Return
<1>12. CASE IgnoreFailure
  BY <1>0, <1>12 DEF IgnoreFailure
<1>13. ASSUME NEW k \in Steps, NEW custom \in BOOLEAN, RedirectFailure(k, custom) PROVE Jumps'
  <2>1. state'.NextStage = StageOf[k] /\ state'.NextStep = k
    BY <1>0, <1>13 DEF RedirectFailure, WorkflowState
  <2>2. pc' = "return" /\ (SaveSnapshot \/ SaveFails)
    BY <1>13 DEF RedirectFailure
  <2>3. snapshot'.state \in {state', snapshot.state}
    BY <2>2 DEF SaveSnapshot, SaveFails
  <2> QED
    BY <1>0, <2>1, <2>2, <2>3
<1>14. CASE GiveUp
  <2>1. pc' = "return" /\ state' = FailedState /\ snapshot'.state \in {FailedState, snapshot.state}
    BY <1>14 DEF GiveUp, VerdictWrites, SaveVerdict, SaveFails
  <2> QED
    BY <1>0, <2>1, FailedKeepsJump
<1>16. CASE StepGivesUp
  <2>1. /\ pc = "func" /\ pc' = "post" /\ UNCHANGED stage
        /\ state' = FailedState /\ snapshot'.state \in {FailedState, snapshot.state}
    BY <1>16 DEF StepGivesUp, VerdictWrites, SaveVerdict, SaveFails
  <2> QED
    BY <1>0, <2>1, FailedKeepsJump DEF None
<1>17. CASE CrashAfterVerdict
  <2>1. pc' = "idle" /\ state' = FreshState /\ snapshot'.state = FailedState
    BY <1>17 DEF CrashAfterVerdict, Forget, SaveVerdict
  <2> QED
    BY <1>0, <2>1, FailedKeepsJump DEF FreshState
<1>18. CASE LoseFailure
  BY <1>0, <1>18 DEF LoseFailure
<1>15. CASE UNCHANGED wfVars
  BY <1>0, <1>15 DEF wfVars
<1> QED
  BY <1>1, <1>2, <1>3, <1>4, <1>5, <1>6, <1>7, <1>8, <1>9, <1>10, <1>11, <1>12, <1>13, <1>14, <1>15,
     <1>16, <1>17, <1>18 DEF Next, Engine

LEMMA InitInductive == Init => IndInv
<1> USE WorkflowAssumption DEF Init, FreshStatus, FreshState
<1>1. Init => TypeOK
  <2>1. FreshStatus \in [Steps -> StepStatus] /\ FreshState \in WorkflowState
    BY DEF StepStatus, WorkflowState, None
  <2>2. [status |-> FreshStatus, state |-> FreshState] \in Snapshot
    BY <2>1 DEF Snapshot
  <2>3. [status |-> "available", attempt |-> 0]
          \in [status: {"available", "running", "completed", "discarded"}, attempt: Nat]
    OBVIOUS
  <2>4. 1 \in 1..(StepCount + 1) /\ MaxFaults \in 0..MaxFaults
    OBVIOUS
  <2> HIDE DEF FreshStatus, FreshState
  <2> QED
    BY <2>1, <2>2, <2>3, <2>4 DEF TypeOK, Results, None
<1>2. Init => Agree /\ Loops /\ Jumps
  BY DEF Agree, Loops, Jumps, InLoop, JumpOK
<1> QED
  BY <1>1, <1>2 DEF IndInv

\* The inductive invariant holds in every state of every behaviour.
LEMMA Inductive == Spec => []IndInv
<1>1. IndInv /\ [Next]_wfVars => IndInv'
  BY TypeStep, AgreeStep, LoopsStep, JumpsStep DEF IndInv
<1> QED
  BY <1>1, InitInductive, PTL DEF Spec

\* Every variable of the engine stays in its type.
THEOREM TypeCorrect == Spec => []TypeOK
<1>1. IndInv => TypeOK
  BY DEF IndInv
<1> QED
  BY <1>1, Inductive, PTL

\* handleStep never executes a step while an earlier step of its stage is
\* unfinished, for every list of stages and any number of crashes and retries.
THEOREM StepsInOrder == Spec => []InOrder
<1>1. IndInv => InOrder
  BY DEF IndInv, Loops, InLoop, InOrder
<1> QED
  BY <1>1, Inductive, PTL

\* Only BeginStep starts a step function.
LEMMA OnlyBeginStarts ==
    ASSUME [Next]_wfVars, NEW i \in Steps, Starts(i) PROVE BeginStep /\ pos = i
BY DEF Starts, Next, Engine, Start, ExitFinished, EnterStage, SkipStage, SkipStep, BeginStep, AfterStep,
       EndExecute, ReturnToRiver, Crash, StepFunc, StepGivesUp, CrashAfterVerdict, IgnoreFailure, LoseFailure,
       RedirectFailure, GiveUp, Forget, Return, wfVars

\* What a step may write into the snapshot: the statuses of memory, before or
\* after it, with the state of memory after it or with the verdict.
LEMMA SnapshotWrites ==
    ASSUME IndInv, [Next]_wfVars
    PROVE  \/ UNCHANGED snapshot
           \/ /\ pc # "idle"
              /\ \/ snapshot'.status = status
                 \/ snapshot'.status = status' /\ BeginStep
              /\ \/ snapshot'.state = state' /\ pc' # "idle"
                 \/ snapshot'.state = FailedState
<1> DEFINE Writes == \/ UNCHANGED snapshot
                     \/ /\ pc # "idle"
                        /\ \/ snapshot'.status = status
                           \/ snapshot'.status = status' /\ BeginStep
                        /\ \/ snapshot'.state = state' /\ pc' # "idle"
                           \/ snapshot'.state = FailedState
<1>1. CASE BeginStep
  BY <1>1 DEF BeginStep, AtStep, SaveSnapshot, SaveFails
<1>2. CASE AfterStep
  BY <1>2 DEF AfterStep, Settle, SaveFails
<1>3. CASE EndExecute
  <2>1. pc # "idle" /\ pc' # "idle" /\ UNCHANGED status /\ (SaveSnapshot \/ SaveFails)
    BY <1>3 DEF EndExecute
  <2> QED
    BY <2>1 DEF SaveSnapshot, SaveFails
<1>4. ASSUME NEW k \in Steps, NEW custom \in BOOLEAN, RedirectFailure(k, custom) PROVE Writes
  <2>1. pc # "idle" /\ pc' # "idle" /\ UNCHANGED status /\ (SaveSnapshot \/ SaveFails)
    BY <1>4 DEF RedirectFailure
  <2> QED
    BY <2>1 DEF SaveSnapshot, SaveFails
<1>5. CASE GiveUp
  BY <1>5 DEF GiveUp, VerdictWrites, SaveVerdict, SaveFails
<1>6. CASE StepGivesUp
  BY <1>6 DEF StepGivesUp, VerdictWrites, SaveVerdict, SaveFails
<1>7. CASE CrashAfterVerdict
  BY <1>7 DEF CrashAfterVerdict, SaveVerdict
<1>8. CASE UNCHANGED snapshot
  BY <1>8
<1> QED
  BY <1>1, <1>2, <1>3, <1>4, <1>5, <1>6, <1>7, <1>8 DEF Next, Engine, Start, ExitFinished, EnterStage,
     SkipStage, SkipStep, ReturnToRiver, Crash, StepFunc, IgnoreFailure, LoseFailure, wfVars

\* A step that the snapshot records as completed or skipped is never executed
\* again and never loses that record.
THEOREM SettledStepsStay == Spec => SettledForGood
<1>1. ASSUME IndInv, [Next]_wfVars, NEW i \in Steps, snapshot.status[i] \in Settled
      PROVE  snapshot'.status[i] = snapshot.status[i] /\ ~Starts(i)
  <2>1. pc # "idle" => status[i] = snapshot.status[i]
    BY <1>1 DEF IndInv, Agree
  <2>2. ~Starts(i)
    BY <1>1, <2>1, OnlyBeginStarts DEF BeginStep, AtStep
  <2>3. BeginStep => status'[i] = status[i]
    BY <1>1, <2>1 DEF IndInv, TypeOK, BeginStep, AtStep, Settled
  <2>4. snapshot'.status[i] = snapshot.status[i]
    BY <1>1, <2>1, <2>3, SnapshotWrites
  <2> QED
    BY <2>2, <2>4
<1>2. IndInv /\ [Next]_wfVars =>
        [\A i \in Steps : snapshot.status[i] \in Settled =>
            /\ snapshot'.status[i] = snapshot.status[i]
            /\ ~Starts(i)]_wfVars
  BY <1>1
<1> QED
  BY <1>2, Inductive, PTL DEF Spec, SettledForGood

\* While the snapshot holds a jump to a stage, no step of an earlier stage is
\* executed, whatever crashes come between the jump and its target.
THEOREM JumpsAreHonoured == Spec => PendingJumpHonoured
<1>1. ASSUME IndInv, [Next]_wfVars, NEW i \in Steps, Starts(i)
      PROVE  StageOf[i] >= snapshot.state.NextStage
  <2>1. BeginStep
    BY <1>1, OnlyBeginStarts
  <2>2. state.NextStage = None
    BY <1>1, <2>1, NoStagePending DEF BeginStep
  <2>3. StageOf[i] = stage /\ pc = "scan" /\ stage \in Nat /\ snapshot \in Snapshot
    BY <1>1, <2>1 DEF Starts, BeginStep, AtStep, IndInv, TypeOK
  <2> QED
    BY <1>1, <2>2, <2>3 DEF IndInv, Jumps, Snapshot, WorkflowState, None
<1>2. IndInv /\ [Next]_wfVars =>
        [\A i \in Steps : Starts(i) => StageOf[i] >= snapshot.state.NextStage]_wfVars
  BY <1>1
<1> QED
  BY <1>2, Inductive, PTL DEF Spec, PendingJumpHonoured

\* A run does not take a verdict back.
LEMMA FinishedStays ==
    ASSUME IndInv, [Next]_wfVars, pc # "idle", pc' # "idle", Finished(state)
    PROVE  Finished(state')
<1>0. state \in WorkflowState
  BY DEF IndInv, TypeOK
<1>1. CASE EnterStage \/ SkipStep \/ BeginStep
  BY <1>0, <1>1 DEF EnterStage, SkipStep, BeginStep, ConsumeNextStep, Finished, WorkflowState
<1>2. CASE AfterStep \/ IgnoreFailure \/ LoseFailure \/ SkipStage \/ ExitFinished \/ UNCHANGED wfVars
  BY <1>2 DEF AfterStep, IgnoreFailure, LoseFailure, SkipStage, ExitFinished, wfVars, Finished
<1>3. CASE EndExecute
  BY <1>0, <1>3 DEF EndExecute, Finished, WorkflowState
<1>4. ASSUME NEW k \in Steps, NEW custom \in BOOLEAN, RedirectFailure(k, custom)
      PROVE  Finished(state')
  BY <1>0, <1>4 DEF RedirectFailure, Finished, WorkflowState
<1>5. CASE GiveUp \/ StepGivesUp
  BY <1>0, <1>5 DEF GiveUp, StepGivesUp, FailedState, Finished, WorkflowState
<1>6. CASE StepFunc
  <2>1. ASSUME NEW k \in Steps PROVE Finished(Jump(state, k))
    BY <1>0 DEF Jump, Finished, WorkflowState
  <2> QED
    BY <1>6, <2>1 DEF StepFunc, Return
<1> QED
  BY <1>1, <1>2, <1>3, <1>4, <1>5, <1>6 DEF Next, Engine, Start, ReturnToRiver, Crash, CrashAfterVerdict, Forget

\* A verdict in the snapshot keeps every step from being started, and stays.
LEMMA VerdictStep ==
    ASSUME IndInv, [Next]_wfVars, Finished(snapshot.state)
    PROVE  (\A i \in Steps : ~Starts(i)) /\ Finished(snapshot'.state)
<1>1. pc # "idle" => Finished(state)
  BY DEF IndInv, Agree
<1>2. ASSUME NEW i \in Steps PROVE ~Starts(i)
  BY <1>1, OnlyBeginStarts DEF BeginStep, AtStep, checkStatus, Finished
<1>3. pc # "idle" => Finished(FailedState)
  BY DEF IndInv, TypeOK, FailedState, WorkflowState, Finished
<1> QED
  BY <1>1, <1>2, <1>3, SnapshotWrites, FinishedStays

\* A completed or failed verdict in the snapshot is final: no retry executes a
\* step and no write takes the verdict back.
THEOREM VerdictStays == Spec => VerdictIsFinal
<1>1. IndInv /\ [Next]_wfVars =>
        [(snapshot.state.IsCompleted \/ snapshot.state.IsFailed) =>
            /\ \A i \in Steps : ~Starts(i)
            /\ snapshot'.state.IsCompleted \/ snapshot'.state.IsFailed]_wfVars
  BY VerdictStep DEF Finished
<1> QED
  BY <1>1, Inductive, PTL DEF Spec, VerdictIsFinal

(***************************************************************************)
(* What the state machines of the transfers rest on                        *)
(***************************************************************************)

\* Memory is ahead of the snapshot at the position of the loops only: before a
\* step function the two agree, no status is forgotten, and what memory knows of
\* later steps comes from the snapshot.
MemoryInv ==
    /\ pc \in {"func", "post"} => snapshot.status = status
    /\ pc # "idle" => \A i \in Steps : snapshot.status[i] # "unset" => status[i] # "unset"
    /\ pc # "idle" => \A i \in Steps : (i > pos /\ status[i] # "unset") => snapshot.status[i] # "unset"

\* A step that was reached has all earlier steps of its stage settled.
StageOrder(s) ==
    \A i, j \in Steps : (i < j /\ StageOf[i] = StageOf[j] /\ s[j] # "unset") => s[i] \in Settled

OrderInv == StageOrder(status) /\ StageOrder(snapshot.status)

\* A run that goes on although the workflow is finished has given up, and an
\* error leads to OnFailureFn, with the step that failed.
OutcomeInv ==
    /\ pc # "idle" => job.status = "running"
    /\ (pc \in {"end", "failure"} /\ result # "nil") => pos \in Steps /\ status[pos] = "failed"
    /\ (pc \in {"scan", "func", "post", "end", "failure"} /\ Finished(state)) => skipError
    /\ pc = "idle" => ~skipError
    /\ pc \in {"idle", "scan", "func"} => result = "nil"
    /\ pc = "failure" => result # "nil"

LEMMA MemoryStep == IndInv /\ MemoryInv /\ [Next]_wfVars => MemoryInv'
<1> SUFFICES ASSUME IndInv, MemoryInv, [Next]_wfVars PROVE MemoryInv'
  OBVIOUS
<1> USE WorkflowAssumption
<1>0. /\ status \in [Steps -> StepStatus] /\ pos \in 1..(StepCount + 1)
      /\ pc \in {"func", "post"} => pos \in Steps
  BY DEF IndInv, TypeOK, Loops, InLoop
<1>1. CASE Start
  BY <1>1 DEF Start, MemoryInv
<1>2. CASE ExitFinished \/ EnterStage \/ IgnoreFailure \/ LoseFailure \/ UNCHANGED wfVars
  BY <1>2 DEF ExitFinished, EnterStage, AtStage, IgnoreFailure, LoseFailure, wfVars, MemoryInv
<1>3. CASE SkipStage
  BY <1>0, <1>3 DEF SkipStage, AtStage, MemoryInv, Steps
<1>4. CASE SkipStep
  <2>1. pc = "scan" /\ pc' = "scan" /\ pos' = pos + 1 /\ UNCHANGED snapshot /\ pos \in Steps
    BY <1>4 DEF SkipStep, AtStep
  <2>2. \A i \in Steps : i # pos => status'[i] = status[i]
    BY <1>0, <1>4 DEF SkipStep
  <2>3. status'[pos] # "unset"
    BY <1>0, <1>4, <2>1 DEF SkipStep, Settled
  <2> QED
    BY <1>0, <2>1, <2>2, <2>3 DEF MemoryInv, Steps
<1>5. CASE BeginStep
  <2>1. pc = "scan" /\ UNCHANGED pos /\ pos \in Steps
    BY <1>5 DEF BeginStep, AtStep
  <2>2. \A i \in Steps : i # pos => status'[i] = status[i]
    BY <1>0, <1>5 DEF BeginStep
  <2>3. status'[pos] # "unset"
    BY <1>0, <1>5, <2>1 DEF BeginStep
  <2>4. \/ snapshot'.status = status'
        \/ UNCHANGED snapshot /\ pc' = "end"
    BY <1>5 DEF BeginStep, SaveSnapshot, SaveFails
  <2> QED
    BY <1>0, <2>1, <2>2, <2>3, <2>4 DEF MemoryInv, Steps
<1>6. CASE AfterStep
  <2>1. pc = "post" /\ pos \in Steps /\ pos' \in {pos, pos + 1} /\ pc' \notin {"func", "post"}
    BY <1>0, <1>6 DEF AfterStep, Settle
  <2>2. snapshot'.status = status
    BY <1>6, <2>1 DEF AfterStep, SaveFails, MemoryInv
  <2>3. \A i \in Steps : i # pos => status'[i] = status[i]
    BY <1>0, <1>6 DEF AfterStep, Settle
  <2>4. status'[pos] # "unset"
    BY <1>0, <1>6, <2>1 DEF AfterStep, Settle
  <2> QED
    BY <1>0, <2>1, <2>2, <2>3, <2>4 DEF MemoryInv, Steps
<1>7. CASE EndExecute
  <2>1. pc # "idle" /\ pc' \in {"return", "failure"} /\ UNCHANGED <<pos, status>> /\ (SaveSnapshot \/ SaveFails)
    BY <1>7 DEF EndExecute
  <2> QED
    BY <2>1 DEF MemoryInv, SaveSnapshot, SaveFails
<1>8. CASE ReturnToRiver \/ Crash \/ CrashAfterVerdict
  BY <1>8 DEF ReturnToRiver, Crash, CrashAfterVerdict, Forget, MemoryInv
<1>9. CASE StepFunc
  BY <1>9 DEF StepFunc, Return, MemoryInv
<1>10. CASE StepGivesUp \/ GiveUp
  BY <1>10 DEF StepGivesUp, GiveUp, VerdictWrites, SaveVerdict, SaveFails, MemoryInv
<1>11. ASSUME NEW k \in Steps, NEW custom \in BOOLEAN, RedirectFailure(k, custom) PROVE MemoryInv'
  <2>1. pc # "idle" /\ pc' = "return" /\ UNCHANGED <<pos, status>> /\ (SaveSnapshot \/ SaveFails)
    BY <1>11 DEF RedirectFailure
  <2> QED
    BY <2>1 DEF MemoryInv, SaveSnapshot, SaveFails
<1> QED
  BY <1>1, <1>2, <1>3, <1>4, <1>5, <1>6, <1>7, <1>8, <1>9, <1>10, <1>11 DEF Next, Engine

LEMMA OrderStep == IndInv /\ MemoryInv /\ OrderInv /\ [Next]_wfVars => OrderInv'
<1> SUFFICES ASSUME IndInv, MemoryInv, OrderInv, [Next]_wfVars PROVE OrderInv'
  OBVIOUS
<1> USE WorkflowAssumption
<1>0. /\ status \in [Steps -> StepStatus] /\ pos \in 1..(StepCount + 1)
      /\ pc \in {"func", "post"} => pos \in Steps
      /\ Steps \subseteq Nat
  BY DEF IndInv, TypeOK, Loops, InLoop, Steps
<1>1. StageOrder(FreshStatus)
  BY DEF StageOrder, FreshStatus
<1>2. ASSUME pc \in {"scan", "post"}, pos \in Steps, StageOf[pos] = stage, status[pos] \notin Settled,
             NEW v \in StepStatus \ {"unset"}, status' = [status EXCEPT ![pos] = v]
      PROVE  StageOrder(status')
  <2>1. \A j \in Steps : (j < pos /\ StageOf[j] = stage) => status[j] \in Settled
    BY <1>2 DEF IndInv, Loops, InLoop
  <2> SUFFICES ASSUME NEW i \in Steps, NEW j \in Steps, i < j, StageOf[i] = StageOf[j], status'[j] # "unset"
               PROVE  status'[i] \in Settled
    BY DEF StageOrder
  <2>2. CASE j = pos
    BY <1>0, <1>2, <2>1, <2>2
  <2>3. CASE j # pos
    BY <1>0, <1>2, <2>3 DEF OrderInv, StageOrder
  <2> QED
    BY <2>2, <2>3
<1>3. StageOrder(status')
  <2>1. CASE status' \in {status, snapshot.status, FreshStatus}
    BY <1>1, <2>1 DEF OrderInv
  <2>2. CASE SkipStep
    BY <1>2, <2>1, <2>2 DEF SkipStep, AtStep, StepStatus
  <2>3. CASE BeginStep
    BY <1>2, <2>3 DEF BeginStep, AtStep, StepStatus
  <2>4. CASE AfterStep
    <3>1. pos \in Steps /\ StageOf[pos] = stage /\ status[pos] = "processing" /\ pc = "post"
      BY <2>4 DEF AfterStep, IndInv, Loops, InLoop
    <3>2. PICK r \in Results : Settle(r)
      BY <2>4 DEF IndInv, TypeOK, AfterStep, Results
    <3> DEFINE v == IF r = "nil" THEN "completed"
                    ELSE IF r \in {"skipStep", "breakStages"} THEN "skipped" ELSE "failed"
    <3>3. v \in StepStatus \ {"unset"}
      BY DEF StepStatus
    <3>4. status' = [status EXCEPT ![pos] = v]
      BY <3>2 DEF Settle
    <3> HIDE DEF v
    <3> QED
      BY <1>2, <3>1, <3>3, <3>4 DEF Settled
  <2> QED
    BY <2>1, <2>2, <2>3, <2>4 DEF Next, Engine, Start, ExitFinished, EnterStage, SkipStage, EndExecute,
       ReturnToRiver, Crash, StepFunc, StepGivesUp, CrashAfterVerdict, IgnoreFailure, LoseFailure,
       RedirectFailure, GiveUp, Forget, Return, wfVars
<1> QED
  BY <1>3, SnapshotWrites DEF OrderInv

LEMMA OutcomeStep == IndInv /\ OutcomeInv /\ [Next]_wfVars => OutcomeInv'
<1> SUFFICES ASSUME IndInv, OutcomeInv, [Next]_wfVars PROVE OutcomeInv'
  OBVIOUS
<1>0. /\ state \in WorkflowState /\ skipError \in BOOLEAN
      /\ job \in [status: {"available", "running", "completed", "discarded"}, attempt: Nat]
      /\ status \in [Steps -> StepStatus]
      /\ pc = "post" => pos \in Steps
  BY DEF IndInv, TypeOK, Loops, InLoop
<1>1. CASE Start
  BY <1>0, <1>1 DEF Start, OutcomeInv, Finished
<1>2. CASE ExitFinished \/ SkipStage \/ IgnoreFailure \/ LoseFailure \/ UNCHANGED wfVars
  BY <1>2 DEF ExitFinished, SkipStage, AtStage, IgnoreFailure, LoseFailure, wfVars, OutcomeInv, Finished
<1>3. CASE EnterStage
  BY <1>0, <1>3 DEF EnterStage, AtStage, OutcomeInv, Finished, WorkflowState
<1>4. CASE SkipStep
  BY <1>0, <1>4 DEF SkipStep, AtStep, ConsumeNextStep, OutcomeInv, Finished, WorkflowState
<1>5. CASE BeginStep
  <2>1. Finished(state') <=> Finished(state)
    BY <1>0, <1>5 DEF BeginStep, ConsumeNextStep, Finished, WorkflowState
  <2>2. pos \in Steps /\ pc = "scan" /\ pc' \in {"func", "end"} /\ UNCHANGED <<pos, skipError, job>>
    BY <1>5 DEF BeginStep, AtStep
  <2>3. pc' = "end" => status'[pos] = "failed"
    BY <1>0, <1>5, <2>2 DEF BeginStep
  <2>4. pc' = "func" => UNCHANGED result
    BY <1>5 DEF BeginStep
  <2> QED
    BY <2>1, <2>2, <2>3, <2>4 DEF OutcomeInv
<1>6. CASE AfterStep
  <2>1. PICK r \in Results : Settle(r)
    BY <1>6 DEF IndInv, TypeOK, AfterStep, Results
  <2>2. pc = "post" /\ UNCHANGED <<state, skipError, job>>
    BY <1>6 DEF AfterStep
  <2>3. (pc' = "end" /\ result' # "nil") => UNCHANGED pos /\ status'[pos] = "failed"
    BY <1>0, <2>1, <2>2 DEF Settle
  <2>4. pc' \in {"scan", "return", "end"} /\ (pc' = "scan" => result' = "nil")
    BY <2>1 DEF Settle
  <2> QED
    BY <1>0, <2>2, <2>3, <2>4 DEF OutcomeInv, Finished
<1>7. CASE EndExecute
  <2>1. result # "nil" => (Finished(state') <=> Finished(state))
    BY <1>0, <1>7 DEF EndExecute, Finished, WorkflowState
  <2>2. pc = "scan" => result = "nil"
    BY DEF OutcomeInv
  <2> QED
    BY <1>7, <2>1, <2>2 DEF EndExecute, OutcomeInv
<1>8. CASE ReturnToRiver \/ Crash \/ CrashAfterVerdict
  BY <1>8 DEF ReturnToRiver, Crash, CrashAfterVerdict, Forget, OutcomeInv
<1>9. CASE StepFunc
  <2>1. Finished(state') => Finished(state)
    <3>1. ASSUME NEW k \in Steps PROVE Finished(Jump(state, k)) => Finished(state)
      BY <1>0 DEF Jump, Finished, WorkflowState
    <3> QED
      BY <1>9, <3>1 DEF StepFunc, Return
  <2> QED
    BY <1>9, <2>1 DEF StepFunc, Return, OutcomeInv
<1>10. CASE StepGivesUp \/ GiveUp
  BY <1>10 DEF StepGivesUp, GiveUp, OutcomeInv
<1>11. ASSUME NEW k \in Steps, NEW custom \in BOOLEAN, RedirectFailure(k, custom) PROVE OutcomeInv'
  BY <1>11 DEF RedirectFailure, OutcomeInv
<1> QED
  BY <1>1, <1>2, <1>3, <1>4, <1>5, <1>6, <1>7, <1>8, <1>9, <1>10, <1>11 DEF Next, Engine

EngineInv == IndInv /\ MemoryInv /\ OrderInv /\ OutcomeInv

LEMMA EngineInductive ==
    /\ Init => EngineInv
    /\ EngineInv /\ [Next]_wfVars => EngineInv'
<1>1. Init => MemoryInv /\ OrderInv /\ OutcomeInv
  BY DEF Init, MemoryInv, OrderInv, StageOrder, OutcomeInv, FreshStatus
<1> QED
  BY <1>1, InitInductive, TypeStep, AgreeStep, LoopsStep, JumpsStep, MemoryStep, OrderStep, OutcomeStep
     DEF EngineInv, IndInv

(***************************************************************************)
(* The steps on the way of every transfer                                  *)
(***************************************************************************)

\* What the snapshot records is not forgotten.
LEMMA SnapshotKeeps ==
    ASSUME EngineInv, [Next]_wfVars, NEW i \in Steps
    PROVE  /\ snapshot.status[i] # "unset" => snapshot'.status[i] # "unset"
           /\ snapshot.status[i] \in Settled => snapshot'.status[i] = snapshot.status[i]
<1>1. /\ pc # "idle" /\ snapshot.status[i] # "unset" => status[i] # "unset"
      /\ pc # "idle" /\ snapshot.status[i] \in Settled => status[i] = snapshot.status[i]
      /\ status \in [Steps -> StepStatus]
  BY DEF EngineInv, MemoryInv, IndInv, Agree, TypeOK
<1>2. ASSUME BeginStep
      PROVE  /\ status[i] # "unset" => status'[i] # "unset"
             /\ status[i] \in Settled => status'[i] = status[i]
  BY <1>1, <1>2 DEF BeginStep, AtStep, Settled
<1> QED
  BY <1>1, <1>2, SnapshotWrites DEF EngineInv

\* The steps of M are executed one after the other: none is passed over, and the
\* earlier ones are completed when a later step is reached.
InTurn(M, s) ==
    /\ \A i \in M : s[i] # "skipped"
    /\ \A i \in M, j \in Steps : (i < j /\ s[j] # "unset") => s[i] = "completed"

Walk(M) ==
    /\ InTurn(M, status)
    /\ InTurn(M, snapshot.status)
    /\ InLoop => \A i \in M : i < pos => status[i] = "completed"

\* No jump passes over a step of M that is still to be done, and no step asks for
\* its own skipping.
KeepsToWay(M) ==
    /\ (pc = "scan" /\ pos \in M /\ status[pos] # "completed") =>
            state.NextStage \in {None, StageOf[pos]} /\ state.NextStep \in {None, pos}
    /\ result \notin {"skipStep", "breakStages"}

LEMMA WalkStep ==
    ASSUME NEW M \in SUBSET Steps, EngineInv, Walk(M), KeepsToWay(M), [Next]_wfVars
    PROVE  Walk(M)'
<1> USE WorkflowAssumption
<1>0. /\ status \in [Steps -> StepStatus] /\ pos \in 1..(StepCount + 1)
      /\ pc \in {"func", "post"} => pos \in Steps /\ status[pos] = "processing"
      /\ Steps \subseteq Nat
  BY DEF EngineInv, IndInv, TypeOK, Loops, InLoop, Steps
<1>1. InTurn(M, FreshStatus)
  BY DEF InTurn, FreshStatus
<1> DEFINE Behind(p, s) == \A i \in M : i < p => s[i] = "completed"
<1>2. ASSUME InLoop, pos \in Steps, status[pos] # "completed",
             NEW v \in StepStatus, v = "skipped" => pos \notin M, status' = [status EXCEPT ![pos] = v]
      PROVE  InTurn(M, status') /\ Behind(pos, status')
  <2>1. \A i \in M : i < pos => status[i] = "completed"
    BY <1>2 DEF Walk
  <2>2. Behind(pos, status')
    BY <1>0, <1>2, <2>1
  <2>3. \A i \in M : status'[i] # "skipped"
    BY <1>0, <1>2 DEF Walk, InTurn
  <2>4. ASSUME NEW i \in M, NEW j \in Steps, i < j, status'[j] # "unset" PROVE status'[i] = "completed"
    <3>1. CASE j = pos
      BY <1>0, <1>2, <2>1, <2>4, <3>1
    <3>2. CASE j # pos
      BY <1>0, <1>2, <2>4, <3>2 DEF Walk, InTurn
    <3> QED
      BY <3>1, <3>2
  <2> QED
    BY <2>2, <2>3, <2>4 DEF InTurn
<1>3. InTurn(M, status') /\ (InLoop' => Behind(pos', status'))
  <2>1. CASE UNCHANGED <<status, pos>> /\ (InLoop' => InLoop)
    BY <2>1 DEF Walk
  <2>2. CASE Start
    BY <1>0, <2>2 DEF Start, Walk, EngineInv, IndInv, Loops, Steps
  <2>3. CASE SkipStage
    <3>1. pos \in Steps /\ pc = "scan" /\ pos' = pos + 1 /\ UNCHANGED status
      BY <2>3 DEF SkipStage, AtStage
    <3>2. pos \in M => status[pos] = "completed"
      BY <2>3 DEF SkipStage, AtStage, KeepsToWay
    <3> QED
      BY <1>0, <3>1, <3>2 DEF Walk, InLoop
  <2>4. CASE SkipStep
    <3>1. pos \in Steps /\ pc = "scan" /\ pos' = pos + 1
      BY <2>4 DEF SkipStep, AtStep
    <3>2. CASE status[pos] \in Settled /\ UNCHANGED status
      BY <1>0, <3>1, <3>2 DEF Walk, InTurn, InLoop, Settled
    <3>3. CASE /\ status[pos] \notin Settled /\ state.NextStep \notin {None, pos}
               /\ status' = [status EXCEPT ![pos] = "skipped"]
      <4>1. pos \notin M
        BY <3>1, <3>3 DEF KeepsToWay, Settled
      <4>2. InTurn(M, status') /\ Behind(pos, status')
        BY <1>2, <3>1, <3>3, <4>1 DEF InLoop, Settled, StepStatus
      <4> QED
        BY <1>0, <3>1, <4>1, <4>2
    <3> QED
      BY <2>4, <3>2, <3>3 DEF SkipStep
  <2>5. CASE BeginStep
    BY <1>2, <2>5 DEF BeginStep, AtStep, InLoop, Settled, StepStatus
  <2>6. CASE AfterStep
    <3>1. PICK r \in Results : Settle(r) /\ r \notin {"skipStep", "breakStages"}
      BY <2>6 DEF EngineInv, IndInv, TypeOK, AfterStep, KeepsToWay, Results
    <3>2. pc = "post" /\ pos \in Steps /\ status[pos] = "processing"
      BY <1>0, <2>6 DEF AfterStep
    <3>3. CASE r = "nil"
      <4>1. status' = [status EXCEPT ![pos] = "completed"] /\ pos' = pos + 1
        BY <3>1, <3>3 DEF Settle
      <4>2. InTurn(M, status') /\ Behind(pos, status')
        BY <1>2, <3>2, <4>1 DEF InLoop, StepStatus
      <4> QED
        BY <1>0, <3>2, <4>1, <4>2
    <3>4. CASE r # "nil"
      <4>1. status' = [status EXCEPT ![pos] = "failed"] /\ UNCHANGED pos
        BY <3>1, <3>4 DEF Settle
      <4> QED
        BY <1>2, <3>2, <4>1 DEF InLoop, StepStatus
    <3> QED
      BY <3>3, <3>4
  <2>7. CASE status' = FreshStatus /\ pc' = "idle"
    BY <1>1, <2>7 DEF InLoop
  <2> QED
    BY <2>1, <2>2, <2>3, <2>4, <2>5, <2>6, <2>7 DEF Next, Engine, ExitFinished, EnterStage, AtStage, EndExecute,
       ReturnToRiver, Crash, StepFunc, StepGivesUp, CrashAfterVerdict, IgnoreFailure, LoseFailure,
       RedirectFailure, GiveUp, Forget, Return, InLoop, wfVars
<1> QED
  BY <1>3, SnapshotWrites DEF Walk, EngineInv

\* CurrentStep is the furthest step that was reached.
LEMMA FurthestStep ==
    ASSUME NEW p \in Steps, status[p] # "unset", \A i \in Steps : status[i] # "unset" => i <= p
    PROVE  CurrentStep = p
<1> DEFINE S == {i \in Steps : status[i] # "unset"} \cup {1}
<1>1. p \in S /\ \A i \in S : p >= i
  BY WorkflowAssumption DEF Steps
<1>2. S \subseteq Nat
  BY DEF Steps
<1> HIDE DEF S
<1>3. \A x \in S : (\A y \in S : x >= y) => x = p
  BY <1>1, <1>2
<1>4. Max(S) = p
  BY <1>1, <1>3 DEF Max
<1> QED
  BY <1>4 DEF CurrentStep, S

\* When a step of M fails it is the furthest step that was reached.
LEMMA FailedIsCurrent ==
    ASSUME NEW M \in SUBSET Steps, EngineInv, Walk(M), pc \in {"end", "failure"}, result # "nil", pos \in M
    PROVE  CurrentStep = pos
<1>1. pos \in Steps /\ status[pos] = "failed" /\ Steps \subseteq Nat
  BY DEF EngineInv, OutcomeInv, Steps
<1>2. \A i \in Steps : status[i] # "unset" => i <= pos
  BY <1>1 DEF Walk, InTurn
<1> QED
  BY <1>1, <1>2, FurthestStep

\* Nothing beyond a step of M was reached while it is executed.
LEMMA AheadIsUnset ==
    ASSUME NEW M \in SUBSET Steps, EngineInv, Walk(M), pc = "func", pos \in M, NEW j \in Steps, j > pos
    PROVE  status[j] = "unset" /\ snapshot.status[j] = "unset"
BY DEF EngineInv, MemoryInv, IndInv, Loops, InLoop, Walk, InTurn, Steps

\* Step i is completed, or about to be.
Done(i) ==
    \/ status[i] = "completed"
    \/ snapshot.status[i] = "completed"
    \/ pc = "post" /\ pos = i /\ result = "nil"

\* A step is completed by its function only.
LEMMA DoneFrom ==
    ASSUME EngineInv, [Next]_wfVars, NEW i \in Steps, Done(i)'
    PROVE  Done(i) \/ (pc = "func" /\ pos = i /\ pc' = "post" /\ result' = "nil")
<1>0. /\ status \in [Steps -> StepStatus]
      /\ pc = "post" => pos \in Steps
  BY DEF EngineInv, IndInv, TypeOK, Loops, InLoop
<1>1. status'[i] = "completed" => Done(i)
  <2>1. CASE status' \in {status, snapshot.status, FreshStatus}
    BY <2>1 DEF Done, FreshStatus
  <2>2. CASE SkipStep \/ BeginStep
    BY <1>0, <2>2 DEF SkipStep, BeginStep, AtStep, Done
  <2>3. CASE AfterStep
    BY <1>0, <2>3 DEF AfterStep, Settle, Done
  <2> QED
    BY <2>1, <2>2, <2>3 DEF Next, Engine, Start, ExitFinished, EnterStage, SkipStage, EndExecute,
       ReturnToRiver, Crash, StepFunc, StepGivesUp, CrashAfterVerdict, IgnoreFailure, LoseFailure,
       RedirectFailure, GiveUp, Forget, Return, wfVars
<1>2. snapshot'.status[i] = "completed" => Done(i)
  BY <1>1, SnapshotWrites DEF Done, EngineInv
<1>3. ASSUME pc' = "post", pos' = i, result' = "nil"
      PROVE  (pc = "func" /\ pos = i) \/ Done(i)
  BY <1>0, <1>3 DEF Done, Next, Engine, Start, ExitFinished, EnterStage, AtStage, SkipStage, SkipStep, AtStep, BeginStep,
     AfterStep, Settle, EndExecute, ReturnToRiver, Crash, StepFunc, StepGivesUp, CrashAfterVerdict, IgnoreFailure,
     LoseFailure, RedirectFailure, GiveUp, Forget, Return, wfVars
<1> QED
  BY <1>1, <1>2, <1>3 DEF Done

(***************************************************************************)
(* The promise of a transfer                                               *)
(***************************************************************************)

\* A completed transfer has announced it, and only a transfer that is not
\* completed is stopped.
VerdictInv ==
    /\ Lifecycle!TypeOK
    /\ Lifecycle!Honest
    /\ snapshot.state.IsFailed => "completed" \notin events

LEMMA InitVerdict == Lifecycle!Init => VerdictInv
BY DEF Lifecycle!Init, VerdictInv, Lifecycle!TypeOK, Lifecycle!Honest, Lifecycle!TransferStatus, Lifecycle!FinalStatus

LEMMA StepVerdict == VerdictInv /\ [Lifecycle!Next]_(Lifecycle!vars) => VerdictInv'
<1> SUFFICES ASSUME VerdictInv, [Lifecycle!Next]_(Lifecycle!vars) PROVE VerdictInv'
  OBVIOUS
<1> USE DEF VerdictInv, Lifecycle!TypeOK, Lifecycle!Honest, Lifecycle!TransferStatus, Lifecycle!FinalStatus
<1>1. ASSUME NEW s \in Lifecycle!TransferStatus \ {"failed"}, Lifecycle!Progress(s) PROVE VerdictInv'
  BY <1>1 DEF Lifecycle!Progress
<1>2. CASE Lifecycle!Fail
  BY <1>2 DEF Lifecycle!Fail
<1>3. CASE UNCHANGED Lifecycle!vars
  BY <1>3 DEF Lifecycle!vars
<1> QED
  BY <1>1, <1>2, <1>3 DEF Lifecycle!Next

\* Every transfer that keeps to the lifecycle announces a status before the row
\* has it, is stopped when its failure is announced, and never announces both
\* verdicts.
THEOREM ClientIsToldTheTruth == KeepsLifecycle => []Lifecycle!Honest
<1>1. VerdictInv => Lifecycle!Honest
  BY DEF VerdictInv
<1> QED
  BY <1>1, InitVerdict, StepVerdict, PTL DEF KeepsLifecycle, Lifecycle!Spec

\* The status of a transfer never goes back, and its verdict is final.
THEOREM StatusMovesForward == KeepsLifecycle => Lifecycle!Forward
<1>1. VerdictInv /\ [Lifecycle!Next]_(Lifecycle!vars) =>
        [/\ Lifecycle!Rank((row.status)') >= Lifecycle!Rank(row.status)
         /\ row.status \in Lifecycle!FinalStatus => (row.status)' = row.status]_(Lifecycle!vars)
  <2> SUFFICES ASSUME VerdictInv, Lifecycle!Next
               PROVE  /\ Lifecycle!Rank((row.status)') >= Lifecycle!Rank(row.status)
                      /\ row.status \in Lifecycle!FinalStatus => (row.status)' = row.status
    OBVIOUS
  <2> USE DEF VerdictInv, Lifecycle!TypeOK, Lifecycle!Honest, Lifecycle!TransferStatus, Lifecycle!FinalStatus, Lifecycle!Rank
  <2>1. ASSUME NEW s \in Lifecycle!TransferStatus \ {"failed"}, Lifecycle!Progress(s)
        PROVE  /\ Lifecycle!Rank((row.status)') >= Lifecycle!Rank(row.status)
               /\ row.status \in Lifecycle!FinalStatus => (row.status)' = row.status
    BY <2>1 DEF Lifecycle!Progress
  <2>2. CASE Lifecycle!Fail
    BY <2>2 DEF Lifecycle!Fail
  <2> QED
    BY <2>1, <2>2 DEF Lifecycle!Next
<1> QED
  BY <1>1, InitVerdict, StepVerdict, PTL DEF KeepsLifecycle, Lifecycle!Spec, Lifecycle!Forward

(***************************************************************************)
(* How the functions of the FSMs appear to the engine                      *)
(***************************************************************************)

\* A step function returns r, a failed write included or not; or asks for a jump;
\* or the run is lost with it.
Finishes(r) == pc = "func" /\ Return(r, state) /\ UNCHANGED snapshot /\ (UNCHANGED faults \/ Fault)

JumpsTo(k) == pc = "func" /\ ReturnsJump(k)

Dies == pc = "func" /\ LostRun

LEMMA ReturnsEnds == ASSUME NEW r, pc = "func", Returns(r) PROVE Finishes(r) /\ UNCHANGED faults
BY DEF Returns, Finishes

LEMMA AbortEnds == ASSUME pc = "func", Abort PROVE Fault /\ (Finishes("error") \/ Dies)
BY DEF Abort, Finishes, Dies, LostRun

\* setTransferStatus: both writes, or a failure after none or one of them.
LEMMA SetStatusEnds ==
    ASSUME NEW s, NEW r, pc = "func", setTransferStatus(s, r)
    PROVE  \/ /\ Finishes(r) /\ UNCHANGED faults
              /\ events' = events \cup {s} /\ row' = [row EXCEPT !.status = s]
           \/ /\ Fault /\ (Finishes("error") \/ Dies)
              /\ events' \in {events, events \cup {s}} /\ UNCHANGED row
BY ReturnsEnds, AbortEnds DEF setTransferStatus

\* FSMs whose steps do not fail the transfer themselves and do not redirect a
\* failure (Bitcoin family and EVM) take these steps of the engine.
NextPlain ==
    \/ Engine \/ StepFunc \/ IgnoreFailure \/ LoseFailure \/ GiveUp
    \/ pc = "failure" /\ CrashAfterVerdict

LEMMA PlainIsEngine == [NextPlain]_wfVars => [Next]_wfVars
BY DEF NextPlain, Next

LEMMA FaultsStep == [NextPlain]_wfVars => faults' = faults \/ Fault
BY DEF NextPlain, Engine, Start, ExitFinished, EnterStage, SkipStage, SkipStep, BeginStep, AfterStep, EndExecute,
   ReturnToRiver, Crash, SaveSnapshot, SaveFails, StepFunc, IgnoreFailure, LoseFailure, GiveUp, VerdictWrites,
   CrashAfterVerdict, wfVars

LEMMA StepEnds ==
    /\ \A r \in Results : Finishes(r) => StepFunc
    /\ \A k \in Steps : k > pos /\ JumpsTo(k) => StepFunc
    /\ Dies => Crash
<1>1. ASSUME NEW r \in Results, Finishes(r) PROVE StepFunc
  BY <1>1 DEF Finishes, StepFunc
<1>2. ASSUME NEW k \in Steps, k > pos, JumpsTo(k) PROVE StepFunc
  BY <1>2 DEF JumpsTo, ReturnsJump, StepFunc
<1>3. Dies => Crash
  BY DEF Dies, LostRun, Crash
<1> QED
  BY <1>1, <1>2, <1>3

\* sendFailureEvent writes the verdict first, so every prefix of its writes is a
\* step of the engine.
LEMMA FailureEventEnds ==
    ASSUME NEW partial \in SUBSET (0..2), sendFailureEvent(partial)
    PROVE  /\ pc = "failure"
           /\ GiveUp \/ Crash \/ CrashAfterVerdict
           /\ \/ FailureWrites(3) /\ UNCHANGED faults /\ GiveUp
              \/ Fault /\ \E n \in partial : FailureWrites(n)
<1>1. ASSUME NEW n \in 0..3, FailureWrites(n) PROVE SaveVerdict \/ UNCHANGED snapshot
  BY <1>1 DEF FailureWrites, SaveVerdict
<1>2. FailureWrites(3) => SaveVerdict
  BY DEF FailureWrites, SaveVerdict
<1>3. CASE /\ \/ FailureWrites(3) /\ UNCHANGED faults
              \/ Fault /\ \E n \in partial : FailureWrites(n)
           /\ state' = FailedState /\ skipError' = TRUE /\ pc' = "return"
           /\ UNCHANGED <<status, pos, stage, result, job>>
  <2>1. VerdictWrites
    BY <1>1, <1>2, <1>3 DEF VerdictWrites, SaveFails
  <2>2. GiveUp
    BY <1>3, <2>1 DEF sendFailureEvent, GiveUp
  <2> QED
    BY <1>3, <2>2 DEF GiveUp
<1>4. CASE Fault /\ (\E n \in partial : FailureWrites(n)) /\ Forget /\ job' = Retry
  <2>1. PICK n \in partial : FailureWrites(n)
    BY <1>4
  <2>2. SaveVerdict \/ UNCHANGED snapshot
    BY <1>1, <2>1
  <2> QED
    BY <1>4, <2>1, <2>2 DEF sendFailureEvent, Crash, CrashAfterVerdict
<1> QED
  BY <1>3, <1>4 DEF sendFailureEvent

(***************************************************************************)
(* FSMs that leave the verdict to OnFailureFn                              *)
(***************************************************************************)

PlainInv == EngineInv /\ (skipError => pc = "return")

LEMMA PlainStep == PlainInv /\ [NextPlain]_wfVars => PlainInv'
<1> SUFFICES ASSUME PlainInv, [NextPlain]_wfVars PROVE PlainInv'
  OBVIOUS
<1>1. EngineInv'
  BY EngineInductive, PlainIsEngine DEF PlainInv
<1>2. skipError \in BOOLEAN /\ (skipError => pc = "return")
  BY DEF PlainInv, EngineInv, IndInv, TypeOK
<1>3. skipError' => pc' = "return"
  BY <1>2 DEF NextPlain, Engine, Start, ExitFinished, EnterStage, AtStage, SkipStage, SkipStep, AtStep, BeginStep,
     AfterStep, EndExecute, ReturnToRiver, Crash, StepFunc, Return, IgnoreFailure, LoseFailure, GiveUp,
     CrashAfterVerdict, Forget, wfVars
<1> QED
  BY <1>1, <1>3 DEF PlainInv

\* While a run goes on there is no verdict yet, and the job is running.
LEMMA StillOpen ==
    ASSUME PlainInv, pc \in {"scan", "func", "post", "end", "failure"}
    PROVE  ~Finished(state) /\ ~Finished(snapshot.state) /\ job.status = "running"
BY DEF PlainInv, EngineInv, OutcomeInv, IndInv, Agree

\* The engine itself does not touch what the lifecycle sees.
LEMMA EngineIsSilent ==
    ASSUME PlainInv, Engine, UNCHANGED trVars PROVE UNCHANGED Lifecycle!vars
<1>0. state \in WorkflowState
  BY DEF PlainInv, EngineInv, IndInv, TypeOK
<1>1. CASE BeginStep
  <2>1. state'.IsFailed = state.IsFailed /\ pc = "scan"
    BY <1>0, <1>1 DEF BeginStep, AtStep, ConsumeNextStep, WorkflowState
  <2> QED
    BY <1>0, <1>1, <2>1, StillOpen DEF BeginStep, SaveSnapshot, SaveFails, Finished, WorkflowState, Lifecycle!vars, trVars,
       PlainInv, EngineInv, IndInv, TypeOK, Snapshot
<1>2. CASE AfterStep
  BY <1>0, <1>2, StillOpen DEF AfterStep, SaveFails, Finished, WorkflowState, Lifecycle!vars, trVars,
     PlainInv, EngineInv, IndInv, TypeOK, Snapshot
<1>3. CASE EndExecute
  <2>1. state'.IsFailed = state.IsFailed /\ pc \in {"end", "scan"}
    BY <1>0, <1>3 DEF EndExecute, WorkflowState
  <2> QED
    BY <1>0, <1>3, <2>1, StillOpen DEF EndExecute, SaveSnapshot, SaveFails, Finished, WorkflowState, Lifecycle!vars, trVars,
       PlainInv, EngineInv, IndInv, TypeOK, Snapshot
<1>4. CASE UNCHANGED snapshot
  BY <1>4 DEF Lifecycle!vars, trVars
<1> QED
  BY <1>1, <1>2, <1>3, <1>4 DEF Engine, Start, ExitFinished, EnterStage, SkipStage, SkipStep, ReturnToRiver, Crash

\* Step p failed with an error that ends the transfer, or the transfer has ended:
\* p is not executed again.
Closed(p) ==
    \/ pc \in {"post", "end", "failure"} /\ pos = p /\ result = "error"
    \/ Finished(snapshot.state)
    \/ pc = "return" /\ skipError
    \/ job.status = "completed"

LEMMA NotClosed == ASSUME NEW p, PlainInv, pc \in {"scan", "func"} PROVE ~Closed(p)
BY StillOpen DEF Closed, PlainInv, EngineInv, OutcomeInv

LEMMA ClosedStays ==
    ASSUME NEW p \in Steps, PlainInv, [NextPlain]_wfVars, Closed(p), faults' = faults,
           (pc = "failure" /\ pos = p) => GiveUp \/ UNCHANGED wfVars
    PROVE  Closed(p)'
<1>0. /\ faults \in Nat /\ (pc # "idle" => job.status = "running")
      /\ state \in WorkflowState /\ skipError \in BOOLEAN
  BY WorkflowAssumption DEF PlainInv, EngineInv, OutcomeInv, IndInv, TypeOK
<1>1. CASE Finished(snapshot.state)
  BY <1>1, VerdictStep, PlainIsEngine DEF Closed, PlainInv, EngineInv
<1>2. CASE job.status = "completed"
  <2>1. pc = "idle"
    BY <1>0, <1>2
  <2> QED
    BY <1>2, <2>1 DEF Closed, NextPlain, Engine, Start, ExitFinished, EnterStage, AtStage, SkipStage, SkipStep,
       AtStep, BeginStep, AfterStep, EndExecute, ReturnToRiver, Crash, StepFunc, IgnoreFailure, LoseFailure, GiveUp,
       CrashAfterVerdict, wfVars
<1>3. CASE pc = "return" /\ skipError
  <2>1. CASE ReturnToRiver
    BY <1>0, <1>3, <2>1 DEF ReturnToRiver, Closed, PlainInv, EngineInv, IndInv, TypeOK
  <2>2. CASE UNCHANGED <<pc, skipError>>
    BY <1>3, <2>2 DEF Closed
  <2>3. ~Crash
    BY <1>0 DEF Crash, Fault
  <2> QED
    BY <1>3, <2>1, <2>2, <2>3 DEF NextPlain, Engine, Start, ExitFinished, EnterStage, AtStage, SkipStage, SkipStep,
       AtStep, BeginStep, AfterStep, EndExecute, StepFunc, IgnoreFailure, LoseFailure, GiveUp, CrashAfterVerdict, wfVars
<1>4. CASE pc = "post" /\ pos = p /\ result = "error"
  <2>1. CASE AfterStep
    BY <1>0, <1>4, <2>1 DEF AfterStep, Settle, SaveFails, Fault, Closed
  <2> QED
    BY <1>0, <1>4, <2>1 DEF Closed, NextPlain, Engine, Start, ExitFinished, EnterStage, AtStage, SkipStage, SkipStep,
       AtStep, BeginStep, EndExecute, ReturnToRiver, Crash, Fault, StepFunc, IgnoreFailure, LoseFailure, GiveUp,
       CrashAfterVerdict, wfVars
<1>5. CASE pc = "end" /\ pos = p /\ result = "error"
  <2>1. CASE EndExecute
    BY <1>5, <2>1 DEF EndExecute, Closed
  <2> QED
    BY <1>0, <1>5, <2>1 DEF Closed, NextPlain, Engine, Start, ExitFinished, EnterStage, AtStage, SkipStage, SkipStep,
       AtStep, BeginStep, AfterStep, ReturnToRiver, Crash, Fault, StepFunc, IgnoreFailure, LoseFailure, GiveUp,
       CrashAfterVerdict, wfVars
<1>6. CASE pc = "failure" /\ pos = p /\ result = "error"
  BY <1>6 DEF GiveUp, Closed, wfVars
<1> QED
  BY <1>1, <1>2, <1>3, <1>4, <1>5, <1>6 DEF Closed

(***************************************************************************)
(* The two writers of the row and the lifecycle                            *)
(***************************************************************************)

\* setTransferStatus is a progress of the lifecycle when no verdict is there and
\* the row is not further.
LEMMA SetStatusProgress ==
    ASSUME NEW s \in TransferStatus \ {"failed"}, NEW r, pc = "func", setTransferStatus(s, r), TransferTypeOK,
           ~snapshot.state.IsFailed, Lifecycle!Rank(s) >= Lifecycle!Rank(row.status)
    PROVE  [Lifecycle!Next]_(Lifecycle!vars)
<1>1. UNCHANGED snapshot
  BY DEF setTransferStatus, Returns, Abort
<1>2. (row.status)' \in {row.status, s} /\ events' \in {events, events \cup {s}}
  BY SetStatusEnds DEF TransferTypeOK
<1>3. CASE events' = events \cup {s}
  <2>1. Lifecycle!Progress(s)
    BY <1>1, <1>2, <1>3 DEF Lifecycle!Progress
  <2> QED
    BY <2>1 DEF Lifecycle!Next, Lifecycle!TransferStatus, TransferStatus
<1>4. CASE UNCHANGED events /\ UNCHANGED row
  BY <1>1, <1>4 DEF Lifecycle!vars
<1> QED
  BY <1>2, <1>3, <1>4, SetStatusEnds

\* sendFailureEvent fails a transfer that is not final and not announced to be.
LEMMA FailureIsFail ==
    ASSUME NEW partial \in SUBSET (0..2), sendFailureEvent(partial), TransferTypeOK,
           row.status \notin FinalStatus, "completed" \notin events
    PROVE  [Lifecycle!Next]_(Lifecycle!vars)
<1>1. PICK n \in 0..3 : FailureWrites(n)
  BY FailureEventEnds
<1>2. FailedState.IsFailed
  BY DEF FailedState, TransferTypeOK, TypeOK, WorkflowState
<1>3. CASE n = 0
  BY <1>1, <1>3 DEF FailureWrites, Lifecycle!vars
<1>4. CASE n # 0
  <2>1. (snapshot.state.IsFailed)'
    BY <1>1, <1>2, <1>4 DEF FailureWrites
  <2>2. \/ UNCHANGED <<events, row.status>>
        \/ events' = events \cup {"failed"} /\ (row.status)' \in {row.status, "failed"}
    BY <1>1, <1>4 DEF FailureWrites, TransferTypeOK
  <2>3. Lifecycle!Fail
    BY <2>1, <2>2 DEF Lifecycle!Fail, Lifecycle!FinalStatus, FinalStatus
  <2> QED
    BY <2>3 DEF Lifecycle!Next
<1> QED
  BY <1>3, <1>4

=============================================================================
