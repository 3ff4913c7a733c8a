------------------------------ MODULE Transfer ------------------------------
(***************************************************************************)
(* The part that the transfer state machines of internal/fsm have in       *)
(* common: the row of the transfer, the webhooks announcing its status,    *)
(* and the two functions that write them, setTransferStatus and            *)
(* sendFailureEvent.  Each FSM package has its own copy of both.           *)
(*                                                                         *)
(* A step function is one action.  A failed write or a crash between two   *)
(* of its writes is an outcome of the action: the writes before stay, and  *)
(* the function returns the error or the run is gone (Workflow!Abort).     *)
(***************************************************************************)
EXTENDS Workflow

VARIABLES
    row,     \* transfers: the columns status and tx_hash
    events   \* webhooks: the statuses announced so far

trVars == <<row, events>>

TransferStatus == {"processing", "in_mempool", "unconfirmed", "completed", "failed"}

\* No code leaves these statuses again on purpose.
FinalStatus == {"completed", "failed"}

\* The transaction of tscanner that inserts the job sets the status too.
InitTransfer ==
    /\ Init
    /\ row = [status |-> "processing", txHash |-> None]
    /\ events = {}

InStep(i) == pc = "func" /\ pos = i

\* A step function ends without touching the snapshot.
Returns(r) == Return(r, state) /\ UNCHANGED <<snapshot, faults>>

\* A step function ends and asks to go on at step k.
ReturnsJump(k) == Return("nil", Jump(state, k)) /\ UNCHANGED <<snapshot, faults>>

\* SetTxHash returns an empty transfer together with its error.  Every later
\* write of the run needs the transfer's ID and fails, those of the hooks and of
\* OnFailureFn included, so the run leaves what a crash would leave.
LostRun == Fault /\ UNCHANGED snapshot /\ Forget /\ job' = Retry

\* Mutant of setTransferStatus: the status is written before the webhook.
setTransferStatusFirst(s, r) ==
    \/ /\ events' = events \cup {s}
       /\ row' = [row EXCEPT !.status = s]
       /\ Returns(r)
    \/ /\ row' \in {row, [row EXCEPT !.status = s]}
       /\ UNCHANGED events
       /\ Abort

\* The webhook is created first, then the status is written; r is what the
\* step function returns when both succeed.
setTransferStatus(s, r) ==
    \/ /\ events' = events \cup {s}
       /\ row' = [row EXCEPT !.status = s]
       /\ Returns(r)
    \/ /\ events' \in {events, events \cup {s}}
       /\ UNCHANGED row
       /\ Abort

\* Mutant of FailureWrites: the snapshot is written last.
FailureWritesSnapshotLast(n) ==
    /\ events' = IF n >= 1 THEN events \cup {"failed"} ELSE events
    /\ row' = IF n >= 2 THEN [row EXCEPT !.status = "failed"] ELSE row
    /\ snapshot' = IF n >= 3 THEN [status |-> status, state |-> FailedState] ELSE snapshot

\* Mutant of FailureWrites: SetStatus is forgotten.
FailureWritesNoStatus(n) ==
    /\ snapshot' = IF n >= 1 THEN [status |-> status, state |-> FailedState] ELSE snapshot
    /\ events' = IF n >= 2 THEN events \cup {"failed"} ELSE events
    /\ UNCHANGED row

\* The first n of the three writes of sendFailureEvent: snapshot, webhook,
\* status.
FailureWrites(n) ==
    /\ snapshot' = IF n >= 1 THEN [status |-> status, state |-> FailedState] ELSE snapshot
    /\ events' = IF n >= 2 THEN events \cup {"failed"} ELSE events
    /\ row' = IF n >= 3 THEN [row EXCEPT !.status = "failed"] ELSE row

\* SetFailed and SetSkipError come before the writes, so Run returns nil even
\* when a write fails.  partial is the set of numbers of writes that may have
\* been done when one fails: {0} when a database transaction holds all three.
sendFailureEvent(partial) ==
    /\ pc = "failure"
    /\ \/ /\ \/ FailureWrites(3) /\ UNCHANGED faults
             \/ Fault /\ \E n \in partial : FailureWrites(n)
          /\ state' = FailedState
          /\ skipError' = TRUE
          /\ pc' = "return"
          /\ UNCHANGED <<status, pos, stage, result, job>>
       \/ /\ Fault
          /\ \E n \in partial : FailureWrites(n)
          /\ Forget
          /\ job' = Retry

\* EventTransferStatusCreateParams reads the transfer first; when that fails
\* the failure is not recorded at all and the job is retried.
failureEventLost == LoseFailure /\ UNCHANGED trVars

TransferTypeOK ==
    /\ TypeOK
    /\ row \in [status: TransferStatus, txHash: Nat]
    /\ events \subseteq TransferStatus

(***************************************************************************)
(* Properties of every transfer                                            *)
(***************************************************************************)

Lifecycle ==
    INSTANCE TransferLifecycle
        WITH status <- row.status, announced <- events, stopped <- snapshot.state.IsFailed

\* Through every retry, crash and re-execution of steps the row, the webhooks
\* and the snapshot keep to the promise of TransferLifecycle: setTransferStatus
\* and sendFailureEvent write in the right order, no status goes back, no
\* verdict is changed or announced together with the other one, and nothing
\* happens to a transfer that is failed.
KeepsLifecycle == Lifecycle!Spec

\* Unless a write fails or the process crashes, a transfer ends completed or
\* failed, or River gives its job up after MaxAttempts errors: nothing waits for
\* ever, in whatever order chain, explorer and retries come.
Concludes == <>(row.status \in FinalStatus \/ job.status = "discarded" \/ faults < MaxFaults)

=============================================================================
