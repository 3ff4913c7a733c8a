------------------------------ MODULE Workflow ------------------------------
(***************************************************************************)
(* The workflow engine of internal/workflow, as the transfer state         *)
(* machines of internal/fsm use it: a list of stages, each a list of       *)
(* steps, executed by one River job that is retried until it succeeds.     *)
(*                                                                         *)
(* In memory the engine keeps a status for every step and the              *)
(* WorkflowState (the flags and the pending jump NextStage/NextStep).  All *)
(* of it is lost when the process dies; what survives is the snapshot in   *)
(* transfers.workflow_snapshot, which the hooks write before and after     *)
(* every step and at the end of the run.                                   *)
(*                                                                         *)
(* Steps are numbered 1..StepCount in the order of the stages, StageOf     *)
(* gives the stage of each, and 0 stands for the empty name.  A step       *)
(* function is a single action here; the modules TransferTron,             *)
(* TransferEvm and TransferUtxo replace it by the functions of their FSM.  *)
(***************************************************************************)
EXTENDS Naturals, FiniteSetsExt

CONSTANTS
    StepCount,    \* number of steps over all stages
    StageOf,      \* StageOf[i] is the number of the stage that step i is in
    MaxAttempts,  \* River's max_attempts of the job
    MaxFaults     \* bound: failed database writes and crashes in a behaviour

Steps == 1..StepCount

None == 0

ASSUME WorkflowAssumption ==
    /\ StepCount \in Nat \ {0}
    /\ StageOf \in [Steps -> Nat \ {None}]
    /\ \A i, j \in Steps : i =< j => StageOf[i] =< StageOf[j]
    /\ MaxAttempts \in Nat \ {0}
    /\ MaxFaults \in Nat

VARIABLES
    status,     \* in memory: the StepStatus of every step
    state,      \* in memory: the WorkflowState
    snapshot,   \* in the database: the last snapshot written
    pc,         \* where the run of the workflow is
    pos,        \* the step that the loops of execute/handleStage are at
    stage,      \* the stage that handleStage has entered
    result,     \* the error the step function or the run returns
    skipError,  \* Workflow.isSkipError
    job,        \* the River job of the transfer
    faults      \* failures the environment may still cause

wfVars == <<status, state, snapshot, pc, pos, stage, result, skipError, job, faults>>

\* "unset" is the zero StepStatus, for which Valid() is false.
StepStatus == {"unset", "processing", "completed", "failed", "skipped"}

\* The statuses for which handleStep returns ErrSkipStep.
Settled == {"completed", "skipped"}

WorkflowState == [IsCompleted: BOOLEAN, IsFailed: BOOLEAN, CustomError: BOOLEAN,
                  NextStage: Nat, NextStep: Nat]

Snapshot == [status: [Steps -> StepStatus], state: WorkflowState]

\* What a step function returns: nil, one of the sentinel errors of errors.go,
\* an error that wraps river.JobSnooze, a FailedTransferError, another error.
Results == {"nil", "skipStep", "breakStages", "exit", "snooze", "failed", "error"}

FreshStatus == [i \in Steps |-> "unset"]

FreshState == [IsCompleted |-> FALSE, IsFailed |-> FALSE, CustomError |-> FALSE,
               NextStage |-> None, NextStep |-> None]

Init ==
    /\ status = FreshStatus
    /\ state = FreshState
    /\ snapshot = [status |-> FreshStatus, state |-> FreshState]
    /\ pc = "idle"
    /\ pos = 1
    /\ stage = None
    /\ result = "nil"
    /\ skipError = FALSE
    /\ job = [status |-> "available", attempt |-> 0]
    /\ faults = MaxFaults

(***************************************************************************)
(* Helpers                                                                 *)
(***************************************************************************)

checkStatus == state.IsCompleted \/ state.IsFailed

\* One more failure of the environment.
Fault == faults > 0 /\ faults' = faults - 1

\* SetWorkflowSnapshot(GetSnapshot()) with the values of memory after the step.
SaveSnapshot == snapshot' = [status |-> status', state |-> state'] /\ UNCHANGED faults

SaveFails == Fault /\ UNCHANGED snapshot

\* The memory of a run is dropped when the run is over.
Forget ==
    /\ pc' = "idle"
    /\ status' = FreshStatus
    /\ state' = FreshState
    /\ pos' = 1
    /\ stage' = None
    /\ result' = "nil"
    /\ skipError' = FALSE

\* River: a job that failed is retried until its attempts are used up.
Retry == [job EXCEPT !.status = IF job.attempt < MaxAttempts THEN "available" ELSE "discarded"]

(***************************************************************************)
(* The run of the workflow                                                 *)
(***************************************************************************)

\* Mutant of Start: SetSnapshot does not restore IsCompleted and IsFailed.
StartWithoutVerdict ==
    /\ pc = "idle"
    /\ job.status = "available"
    /\ job' = [status |-> "running", attempt |-> job.attempt + 1]
    /\ status' = snapshot.status
    /\ state' = [snapshot.state EXCEPT !.IsCompleted = FALSE, !.IsFailed = FALSE]
    /\ pc' = "scan"
    /\ UNCHANGED <<snapshot, pos, stage, result, skipError, faults>>

\* TransferWorkflowWorker.Work: load the transfer, build the FSM from its
\* snapshot, and enter execute.
Start ==
    /\ pc = "idle"
    /\ job.status = "available"
    /\ job' = [status |-> "running", attempt |-> job.attempt + 1]
    /\ status' = snapshot.status
    /\ state' = snapshot.state
    /\ pc' = IF snapshot.state.IsCompleted \/ snapshot.state.IsFailed THEN "return" ELSE "scan"
    /\ UNCHANGED <<snapshot, pos, stage, result, skipError, faults>>

\* handleStage and handleStep: the workflow was finished by an earlier step.
ExitFinished ==
    /\ pc = "scan"
    /\ pos \in Steps
    /\ checkStatus
    /\ pc' = "return"
    /\ UNCHANGED <<status, state, snapshot, pos, stage, result, skipError, job, faults>>

\* The prologue of handleStage for the stage of step pos.
AtStage == pc = "scan" /\ pos \in Steps /\ StageOf[pos] # stage /\ ~checkStatus

\* Mutant of EnterStage: any stage is entered and the jump is dropped.
EnterStageAnyway ==
    /\ AtStage
    /\ state' = [state EXCEPT !.NextStage = None, !.NextStep = None]
    /\ stage' = StageOf[pos]
    /\ UNCHANGED <<status, snapshot, pc, pos, result, skipError, job, faults>>

\* The stage is entered; a jump to it is consumed.
EnterStage ==
    /\ AtStage
    /\ state.NextStage \in {None, StageOf[pos]}
    /\ state' = [state EXCEPT !.NextStage = None]
    /\ stage' = StageOf[pos]
    /\ UNCHANGED <<status, snapshot, pc, pos, result, skipError, job, faults>>

\* ErrSkipStage: a jump to another stage passes over the steps of this one,
\* here one step at a time; their statuses stay as they are.
SkipStage ==
    /\ AtStage
    /\ state.NextStage \notin {None, StageOf[pos]}
    /\ pos' = pos + 1
    /\ UNCHANGED <<status, state, snapshot, pc, stage, result, skipError, job, faults>>

\* The prologue of handleStep for step pos.
AtStep == pc = "scan" /\ pos \in Steps /\ StageOf[pos] = stage /\ ~checkStatus

ConsumeNextStep == [state EXCEPT !.NextStep = IF @ = pos THEN None ELSE @]

\* ErrSkipStep: the step was settled earlier, or a jump passes over it.
SkipStep ==
    /\ AtStep
    /\ \/ /\ status[pos] \in Settled
          /\ UNCHANGED status
       \/ /\ status[pos] \notin Settled
          /\ state.NextStep \notin {None, pos}
          /\ status' = [status EXCEPT ![pos] = "skipped"]
    /\ state' = ConsumeNextStep
    /\ pos' = pos + 1
    /\ UNCHANGED <<snapshot, pc, stage, result, skipError, job, faults>>

\* Mutant of BeginStep: a settled step is started again.
BeginSettledStep ==
    /\ AtStep
    /\ state.NextStep \in {None, pos}
    /\ state' = ConsumeNextStep
    /\ status' = [status EXCEPT ![pos] = "processing"]
    /\ SaveSnapshot
    /\ pc' = "func"
    /\ UNCHANGED <<pos, stage, result, skipError, job>>

\* The step is started: BeforeAllStepsFn writes the snapshot, and the step
\* fails without being executed when it cannot.
BeginStep ==
    /\ AtStep
    /\ status[pos] \notin Settled
    /\ state.NextStep \in {None, pos}
    /\ state' = ConsumeNextStep
    /\ \/ /\ status' = [status EXCEPT ![pos] = "processing"]
          /\ SaveSnapshot
          /\ pc' = "func"
          /\ UNCHANGED result
       \/ /\ status' = [status EXCEPT ![pos] = "failed"]
          /\ SaveFails
          /\ pc' = "end"
          /\ result' = "error"
    /\ UNCHANGED <<pos, stage, skipError, job>>

\* A step function returns r and leaves the WorkflowState st.
Return(r, st) ==
    /\ pc' = "post"
    /\ result' = r
    /\ state' = st
    /\ UNCHANGED <<status, pos, stage, skipError, job>>

\* A step function is cut short by a failed database write, which it returns
\* as an error, or by a crash.  What it wrote before stays.
Abort ==
    /\ Fault
    /\ UNCHANGED snapshot
    /\ \/ Return("error", state)
       \/ Forget /\ job' = Retry

\* CurrentStep: the last step with a valid status, which is the running step
\* only when no later step was reached by an earlier attempt.
CurrentStep == Max({i \in Steps : status[i] # "unset"} \cup {1})

\* The jumps that a step function asks for: within its stage by NextStep, to
\* a later stage by NextStage and NextStep.  Every FSM jumps forward only.
Jump(st, k) ==
    IF StageOf[k] = StageOf[pos]
    THEN [st EXCEPT !.NextStep = k]
    ELSE [st EXCEPT !.NextStage = StageOf[k], !.NextStep = k]

\* RetryPolicy (one call, as no FSM sets MaxRetries) of an arbitrary step: it
\* returns, and may have met a failed write.  The step's BeforeFn is part of it:
\* its error returns before AfterAllStepsFn, which would only write the snapshot
\* of BeforeAllStepsFn once more.
StepFunc ==
    /\ pc = "func"
    /\ \/ \E r \in Results : Return(r, state)
       \/ \E k \in Steps : k > pos /\ Return("nil", Jump(state, k))
    /\ UNCHANGED snapshot
    /\ UNCHANGED faults \/ Fault

(***************************************************************************)
(* The verdict that the transfer failed                                    *)
(***************************************************************************)

FailedState == [state EXCEPT !.IsFailed = TRUE]

\* sendFailureEvent writes the snapshot first; it, or a write after it, may fail.
SaveVerdict == snapshot' = [status |-> status, state |-> FailedState]

VerdictWrites ==
    \/ SaveVerdict /\ (UNCHANGED faults \/ Fault)
    \/ SaveFails

\* A step that fails the workflow (sendFailureEvent is a step of Tron's FSM).
StepGivesUp ==
    /\ pc = "func"
    /\ VerdictWrites
    /\ state' = FailedState
    /\ skipError' = TRUE
    /\ result' \in {"nil", "error"}
    /\ pc' = "post"
    /\ UNCHANGED <<status, pos, stage, job>>

\* The process dies between the snapshot and the writes after it.
CrashAfterVerdict ==
    /\ pc \in {"func", "failure"}
    /\ Fault
    /\ SaveVerdict
    /\ Forget
    /\ job' = Retry

\* Mutant of Settle: the loop goes on after any error of a step.
SettleAndContinue(r) ==
    /\ status' = [status EXCEPT ![pos] = IF r = "nil" THEN "completed" ELSE "failed"]
    /\ pos' = pos + 1
    /\ result' = "nil"
    /\ pc' = "scan"

\* The deferred status of handleStep, and what the loops do with the error.
Settle(r) ==
    /\ status' = [status EXCEPT ![pos] =
                    IF r = "nil" THEN "completed"
                    ELSE IF r \in {"skipStep", "breakStages"} THEN "skipped" ELSE "failed"]
    /\ pos' = IF r \in {"nil", "skipStep"} THEN pos + 1 ELSE pos
    /\ result' = IF r \in {"nil", "skipStep", "breakStages", "exit"} THEN "nil" ELSE r
    /\ pc' = IF r \in {"nil", "skipStep"} THEN "scan" ELSE IF r = "exit" THEN "return" ELSE "end"

\* AfterAllStepsFn writes the snapshot while the step still has the status
\* "processing"; its error takes the place of the step's own.
AfterStep ==
    /\ pc = "post"
    /\ \/ /\ snapshot' = [status |-> status, state |-> state]
          /\ Settle(result)
          /\ UNCHANGED faults
       \/ /\ SaveFails
          /\ Settle("error")
    /\ UNCHANGED <<state, stage, skipError, job>>

\* The end of execute: SetCompleted, and AfterFn, whose error is only logged.
EndExecute ==
    /\ pc = "end" \/ (pc = "scan" /\ pos = StepCount + 1)
    /\ state' = [state EXCEPT !.IsCompleted = @ \/ result = "nil"]
    /\ pc' = IF result = "nil" THEN "return" ELSE "failure"
    /\ UNCHANGED status
    /\ SaveSnapshot \/ SaveFails
    /\ UNCHANGED <<pos, stage, result, skipError, job>>

\* OnFailureFn of the FSMs: nothing, ...
IgnoreFailure ==
    /\ pc = "failure"
    /\ pc' = "return"
    /\ UNCHANGED <<status, state, snapshot, pos, stage, result, skipError, job, faults>>

\* ... or an error before it has written anything, ...
LoseFailure ==
    /\ pc = "failure"
    /\ Fault
    /\ pc' = "return"
    /\ UNCHANGED <<status, state, snapshot, pos, stage, result, skipError, job>>

\* ... or a jump to the step k of a later attempt (Tron's compensation), ...
RedirectFailure(k, custom) ==
    /\ pc = "failure"
    /\ state' = [state EXCEPT !.NextStage = StageOf[k], !.NextStep = k,
                              !.CustomError = @ \/ custom]
    /\ pc' = "return"
    /\ UNCHANGED status
    /\ SaveSnapshot \/ SaveFails
    /\ UNCHANGED <<pos, stage, result, skipError, job>>

\* ... or the end of the transfer: IsFailed, and no retry.
GiveUp ==
    /\ pc = "failure"
    /\ VerdictWrites
    /\ state' = FailedState
    /\ skipError' = TRUE
    /\ pc' = "return"
    /\ UNCHANGED <<status, pos, stage, result, job>>

\* Run returns to River, which completes, snoozes, retries or discards the job.
ReturnToRiver ==
    /\ pc = "return"
    /\ Forget
    /\ job' = IF result = "nil" \/ skipError THEN [job EXCEPT !.status = "completed"]
              ELSE IF result = "snooze"
              THEN [status |-> "available", attempt |-> job.attempt - 1]
              ELSE Retry
    /\ UNCHANGED <<snapshot, faults>>

\* The process dies, or shuts down before the run is over; River rescues the
\* job.  A Work that fails before the run has begun is a crash after
\* Start.  A cancelled context has the same effect: the loops return early and
\* every later write fails with the context's error.
Crash ==
    /\ pc # "idle"
    /\ Fault
    /\ Forget
    /\ job' = Retry
    /\ UNCHANGED snapshot

\* The part of the engine that every FSM shares.
Engine ==
    \/ Start \/ ExitFinished \/ EnterStage \/ SkipStage \/ SkipStep \/ BeginStep
    \/ AfterStep \/ EndExecute \/ ReturnToRiver \/ Crash

Next ==
    \/ Engine
    \/ StepFunc
    \/ StepGivesUp
    \/ IgnoreFailure
    \/ LoseFailure
    \/ \E k \in Steps, custom \in BOOLEAN : RedirectFailure(k, custom)
    \/ GiveUp
    \/ CrashAfterVerdict

Spec == Init /\ [][Next]_wfVars

(***************************************************************************)
(* Properties                                                              *)
(***************************************************************************)

TypeOK ==
    /\ status \in [Steps -> StepStatus]
    /\ state \in WorkflowState
    /\ snapshot \in Snapshot
    /\ pc \in {"idle", "scan", "func", "post", "end", "failure", "return"}
    /\ pos \in 1..(StepCount + 1)
    /\ stage \in Nat
    /\ result \in Results
    /\ skipError \in BOOLEAN
    /\ job \in [status: {"available", "running", "completed", "discarded"}, attempt: Nat]
    /\ faults \in 0..MaxFaults

\* The step function that is about to start in a step of the behaviour.
Starts(i) == pc = "scan" /\ pc' = "func" /\ pos = i

\* A step is executed only when every earlier step of its stage is completed
\* or skipped, whatever jumps, failures and restarts came before: handleStep
\* never leaves an unfinished step of the stage behind.
InOrder ==
    pc \in {"func", "post"} =>
        \A j \in Steps : (j < pos /\ StageOf[j] = StageOf[pos]) => status[j] \in Settled

\* A step whose completion (or skipping) is in the snapshot keeps that status
\* in every later snapshot and is never executed again, in this run or after
\* any number of crashes and retries.
SettledForGood ==
    [][\A i \in Steps : snapshot.status[i] \in Settled =>
            /\ snapshot'.status[i] = snapshot.status[i]
            /\ ~Starts(i)]_wfVars

\* While a jump to a stage is in the snapshot, no step of an earlier stage is
\* executed: the jump survives the crash between asking for it and taking it.
PendingJumpHonoured ==
    [][\A i \in Steps : Starts(i) => StageOf[i] >= snapshot.state.NextStage]_wfVars

\* Once the snapshot says that the workflow is completed or failed, no retry
\* executes a step and no write takes the verdict back.
VerdictIsFinal ==
    [][(snapshot.state.IsCompleted \/ snapshot.state.IsFailed) =>
            /\ \A i \in Steps : ~Starts(i)
            /\ snapshot'.state.IsCompleted \/ snapshot'.state.IsFailed]_wfVars

=============================================================================
