------------------------- MODULE TransferLifecycle --------------------------
(***************************************************************************)
(* What a transfer promises to its client, whichever chain it is for.  The *)
(* status only moves forward; a status is announced by a webhook before it *)
(* can be read from the row; only one of the two final statuses is ever    *)
(* announced; and a transfer whose failure is announced is stopped: no     *)
(* later attempt executes a step of it.                                    *)
(*                                                                         *)
(* TransferUtxo, TransferEvm and TransferTron implement this specification *)
(* through the refinement mapping of module Transfer.                      *)
(***************************************************************************)
EXTENDS Naturals

VARIABLES
    status,     \* transfers.status
    announced,  \* the statuses of the webhooks created so far
    stopped     \* the workflow has the verdict that it failed

vars == <<status, announced, stopped>>

TransferStatus == {"processing", "in_mempool", "unconfirmed", "completed", "failed"}

FinalStatus == {"completed", "failed"}

\* How far a transfer with status s has come.
Rank(s) ==
    IF s = "processing" THEN 0 ELSE IF s = "in_mempool" THEN 1
    ELSE IF s = "unconfirmed" THEN 2 ELSE 3

\* tscanner has inserted the job and has set the status.
Init ==
    /\ status = "processing"
    /\ announced = {}
    /\ stopped = FALSE

\* A status is announced, again perhaps; the row may follow at once, later or,
\* after a crash, never.
Progress(s) ==
    /\ ~stopped
    /\ Rank(s) >= Rank(status)
    /\ announced' = announced \cup {s}
    /\ status' \in {status, s}
    /\ UNCHANGED stopped

\* The transfer is stopped, the failure is announced, and the row is written,
\* in this order; a fault cuts the rest off.
Fail ==
    /\ status \notin FinalStatus
    /\ "completed" \notin announced
    /\ stopped' = TRUE
    /\ \/ UNCHANGED <<announced, status>>
       \/ announced' = announced \cup {"failed"} /\ status' \in {status, "failed"}

Next ==
    \/ \E s \in TransferStatus \ {"failed"} : Progress(s)
    \/ Fail

Spec == Init /\ [][Next]_vars

(***************************************************************************)
(* What follows from it for the client                                     *)
(***************************************************************************)

TypeOK ==
    /\ status \in TransferStatus
    /\ announced \subseteq TransferStatus
    /\ stopped \in BOOLEAN

\* A status in the row was announced before; a failed one belongs to a stopped
\* transfer; and the client never gets both verdicts.
Honest ==
    /\ status \in announced \cup {"processing"}
    /\ "failed" \in announced => stopped
    /\ ~(FinalStatus \subseteq announced)

\* A completed or failed transfer stays so, and no status comes back.
Forward == [][Rank(status') >= Rank(status) /\ (status \in FinalStatus => status' = status)]_vars

=============================================================================
