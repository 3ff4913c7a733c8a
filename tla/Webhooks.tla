------------------------------ MODULE Webhooks ------------------------------
(***************************************************************************)
(* The webhooks of internal/services/webhooks: the table that the other    *)
(* parts fill, the sender that polls it and posts to the clients, and the  *)
(* cleanup job.                                                            *)
(*                                                                         *)
(* A webhook is a payload for a client: the table has one row for it, and  *)
(* creating it once more resets the row.  Of the times in a row only what  *)
(* GetUnsent asks is kept: whether the first day of the webhook was over   *)
(* when it was tried last (updated_at - created_at), and whether the hour  *)
(* or the day until the next try is over.  What the clients answer is      *)
(* external.                                                               *)
(***************************************************************************)
EXTENDS Naturals, FiniteSets

CONSTANTS
    Hook,             \* the webhooks, those of one request numbered as they are created
    Request,          \* the request id of the transfer whose status a webhook is
                      \* about; None for all other kinds
    None,
    Quantity,         \* config Webhooks.Sender.Quantity
    ChunkSize,        \* 100 in the code
    RemoveAfterSent,  \* config Webhooks.RemoveAfterSent
    Healthy,          \* webhooks of clients that answer; the others may refuse for ever
    MaxCreates,       \* bound: number of creations
    MaxFaults         \* bound: restarts and failed writes of the sender

ASSUME WebhooksAssumption ==
    /\ Hook \subseteq Nat
    /\ Request \in [Hook -> Nat \cup {None}]
    /\ Quantity \in Nat \ {0} /\ ChunkSize \in Nat \ {0}
    /\ RemoveAfterSent \in BOOLEAN
    /\ Healthy \subseteq Hook
    /\ MaxCreates \in Nat /\ MaxFaults \in Nat

VARIABLES
    rows,             \* table webhooks; seq is the order of created_at
    creates,          \* creations so far
    sending,          \* webhookInUse
    todo,             \* the webhooks read by the pass, in groups not yet begun
    rest,             \* those of the current group after the current chunk
    chunk,            \* those of the current chunk not yet posted
    answered,         \* posted, not yet recorded, and whether the answer was 202
    made,             \* history: webhooks ever created
    accepted,         \* history: webhooks that were answered with 202
    faults

tableVars == <<rows, creates, made>>
passVars == <<sending, todo, rest, chunk, answered>>
vars == <<tableVars, passVars, accepted, faults>>

\* retry says when the webhook is due: at the next poll, after a time that has
\* not passed yet, or after one that has passed.
Row == [status: {"none", "new", "sent"}, seq: Nat, firstDay: BOOLEAN,
        retry: {"poll", "wait", "over"}]

Absent == [status |-> "none", seq |-> 0, firstDay |-> TRUE, retry |-> "poll"]

\* updated_at = now()
Touched(r) == [r EXCEPT !.retry = IF r.firstDay THEN "poll" ELSE "wait"]

Init ==
    /\ rows = [w \in Hook |-> Absent]
    /\ creates = 0
    /\ sending = FALSE
    /\ todo = {} /\ rest = {} /\ chunk = {} /\ answered = {}
    /\ made = {}
    /\ accepted = {}
    /\ faults = MaxFaults

(***************************************************************************)
(* The table                                                               *)
(***************************************************************************)

\* BatchCreate: a new row, or the old one with its old created_at.
Create(w) ==
    /\ creates < MaxCreates
    /\ \A v \in Hook : (v < w /\ Request[v] = Request[w]) => v \in made
    /\ creates' = creates + 1
    /\ rows' = [rows EXCEPT ![w] =
                 IF @.status = "none"
                 THEN [Absent EXCEPT !.status = "new", !.seq = creates']
                 ELSE [Touched(@) EXCEPT !.status = "new"]]
    /\ made' = made \cup {w}
    /\ UNCHANGED <<passVars, accepted, faults>>

\* The first day of a webhook ends.
DayEnds(w) ==
    /\ rows[w].status # "none" /\ rows[w].firstDay
    /\ rows' = [rows EXCEPT ![w].firstDay = FALSE]
    /\ UNCHANGED <<creates, made, passVars, accepted, faults>>

\* The time until the next try ends.  Only Poll asks for it, so it ends between
\* passes.
WaitEnds(w) ==
    /\ rows[w].retry = "wait" /\ ~sending
    /\ rows' = [rows EXCEPT ![w].retry = "over"]
    /\ UNCHANGED <<creates, made, passVars, accepted, faults>>

Delete(old) ==
    /\ rows' = [w \in Hook |-> IF w \in old THEN Absent ELSE rows[w]]
    /\ UNCHANGED <<creates, made, passVars, accepted, faults>>

\* Mutant of Cleanup: the status is not looked at.
CleanupAll ==
    \E old \in SUBSET {w \in Hook : rows[w].status # "none"} : old # {} /\ Delete(old)

\* WebhookCleanupWorker: the sent webhooks older than the configured age are
\* deleted.
Cleanup ==
    \E old \in SUBSET {w \in Hook : rows[w].status = "sent"} : old # {} /\ Delete(old)

\* Mutant of Due: a webhook is due as long as it is new.
DueAlways(w) == rows[w].status = "new"

\* The conditions of GetUnsent: a webhook is due at every poll until it has been
\* tried after its first day, and then once an hour or, after a week, a day.
Due(w) == rows[w].status = "new" /\ rows[w].retry # "wait"

\* The first n webhooks of S in the order of created_at.
Earliest(S, n) ==
    {w \in S : Cardinality({v \in S : rows[v].seq < rows[w].seq}) < n}

GetUnsent == Earliest({w \in Hook : Due(w)}, Quantity)

(***************************************************************************)
(* The sender                                                              *)
(***************************************************************************)

\* processWebhooks: a tick while a pass is under way does nothing, and neither
\* does one that reads nothing or fails to read.
Poll ==
    /\ ~sending
    /\ GetUnsent # {}
    /\ sending' = TRUE
    /\ todo' = GetUnsent
    /\ UNCHANGED <<tableVars, rest, chunk, answered, accepted, faults>>

\* Mutant of TakeChunk: the current group is read from the batch again.
TakeChunkAgain ==
    /\ sending
    /\ chunk = {} /\ answered = {}
    /\ \E w \in todo :
        LET group == {v \in todo : Request[v] = Request[w]} IN
        /\ todo' = todo \ Earliest(group, 1)
        /\ chunk' = Earliest(group, ChunkSize)
        /\ rest' = {}
    /\ UNCHANGED <<tableVars, sending, answered, accepted, faults>>

\* The loops of processAllUnsentWebhooks: the next chunk of the group, whether
\* the last one failed or not, or the first one of another group in the order
\* of a Go map.  The groups are those of the request id, across clients.
TakeChunk ==
    /\ sending
    /\ chunk = {} /\ answered = {}
    /\ \/ /\ rest # {}
          /\ chunk' = Earliest(rest, ChunkSize)
          /\ rest' = rest \ chunk'
          /\ UNCHANGED todo
       \/ /\ rest = {}
          /\ \E w \in todo :
                LET group == {v \in todo : Request[v] = Request[w]} IN
                /\ todo' = todo \ group
                /\ chunk' = Earliest(group, ChunkSize)
                /\ rest' = group \ chunk'
    /\ UNCHANGED <<tableVars, sending, answered, accepted, faults>>

\* Statuses of a transfer are sent one by one, all others in parallel.
Serial(w) == Request[w] # None

\* doRequest: the client answers 202 or not.  A client whose answer is another
\* one, or comes too late, may have got the webhook all the same.
Post(w, ok) ==
    /\ w \in chunk
    /\ Serial(w) => answered = {} /\ w \in Earliest(chunk, 1)
    /\ chunk' = chunk \ {w}
    /\ answered' = answered \cup {<<w, ok>>}
    /\ accepted' = IF ok THEN accepted \cup {w} ELSE accepted
    /\ UNCHANGED <<tableVars, sending, todo, rest, faults>>

\* IncrementAttempt, SetSentAtNow or DeleteByID.
Recorded(w, ok) ==
    IF ~ok THEN Touched(rows[w])
    ELSE IF RemoveAfterSent THEN Absent
    ELSE [rows[w] EXCEPT !.status = "sent", !.retry = "poll"]

Write(w, ok, written) ==
    \/ written /\ rows' = [rows EXCEPT ![w] = Recorded(w, ok)] /\ UNCHANGED faults
    \/ ~written /\ faults > 0 /\ faults' = faults - 1 /\ UNCHANGED rows

\* Mutant of Record: a chunk goes on after an error.
RecordAndGoOn(w, ok, written) ==
    /\ <<w, ok>> \in answered
    /\ answered' = answered \ {<<w, ok>>}
    /\ Write(w, ok, written)
    /\ UNCHANGED <<creates, made, sending, todo, rest, chunk, accepted>>

\* The answer is written to the row, which may fail.  An error of either kind
\* ends a chunk of statuses.
Record(w, ok, written) ==
    /\ <<w, ok>> \in answered
    /\ answered' = answered \ {<<w, ok>>}
    /\ Write(w, ok, written)
    /\ chunk' = IF Serial(w) /\ ~(ok /\ written) THEN {} ELSE chunk
    /\ UNCHANGED <<creates, made, sending, todo, rest, accepted>>

Finish ==
    /\ sending
    /\ todo = {} /\ rest = {} /\ chunk = {} /\ answered = {}
    /\ sending' = FALSE
    /\ UNCHANGED <<tableVars, todo, rest, chunk, answered, accepted, faults>>

\* The process is restarted in the middle of a pass.
Restart ==
    /\ sending /\ faults > 0
    /\ faults' = faults - 1
    /\ sending' = FALSE
    /\ todo' = {} /\ rest' = {} /\ chunk' = {} /\ answered' = {}
    /\ UNCHANGED <<tableVars, accepted>>

Next ==
    \/ \E w \in Hook : Create(w) \/ DayEnds(w) \/ WaitEnds(w)
    \/ Cleanup
    \/ Poll \/ TakeChunk \/ Finish
    \/ \E w \in Hook, ok \in BOOLEAN : Post(w, ok)
    \/ \E w \in Hook, ok, written \in BOOLEAN : Record(w, ok, written)
    \/ Restart

Spec == Init /\ [][Next]_vars

\* What the sender does by itself; a write that fails is a fault.
Sender ==
    \/ Poll \/ TakeChunk \/ Finish
    \/ \E w \in Hook, ok \in BOOLEAN : Post(w, ok) \/ Record(w, ok, TRUE)

\* The sender polls for ever, days and hours end, and a client in Healthy that
\* is asked again and again answers at last.  A pass and the two seconds
\* between polls are shorter than the hour that a webhook waits, so that of the
\* polls that could read a webhook some do.
Fairness ==
    /\ WF_vars(Sender)
    /\ WF_vars(\E w \in Hook : DayEnds(w))
    /\ \A w \in Healthy : /\ SF_vars(WaitEnds(w))
                          /\ SF_vars(Poll /\ w \in GetUnsent)
                          /\ SF_vars(Post(w, TRUE))

FairSpec == Spec /\ Fairness

(***************************************************************************)
(* Properties                                                              *)
(***************************************************************************)

TypeOK ==
    /\ rows \in [Hook -> Row]
    /\ creates \in Nat /\ faults \in Nat
    /\ {sending} \subseteq BOOLEAN
    /\ {todo, rest, chunk, made, accepted} \subseteq SUBSET Hook
    /\ answered \subseteq Hook \X BOOLEAN

\* A webhook that was created waits to be sent until its client accepts it:
\* no answer, failed write, restart, re-creation or cleanup loses it.
NothingIsLost == \A w \in made : w \in accepted \/ rows[w].status = "new"

\* The sender posts w in this step.
Posts(w) == \E ok \in BOOLEAN : <<w, ok>> \in answered' \ answered

\* Statuses of the request of w that were created before it and that are not
\* accepted.
Overtaken(w) ==
    {v \in Hook : /\ Serial(v) /\ Request[v] = Request[w]
                  /\ rows[v].status = "new" /\ rows[v].seq < rows[w].seq
                  /\ v \notin accepted}

\* The statuses of a request that has no more of them than a chunk holds reach
\* the client in the order in which they were created, whatever fails between
\* read, post and record, unless the earlier one has been refused for a day.
StatusesInOrder ==
    [][\A w \in Hook :
            (Posts(w) /\ Cardinality({v \in made : Request[v] = Request[w]}) =< ChunkSize)
            => \A v \in Overtaken(w) : rows[v].retry # "poll"]_vars

\* What the row says is sent is not posted again until it is created again.
SentIsNotRepeated == [][\A w \in Hook : Posts(w) => rows[w].status = "new"]_vars

\* A client that answers gets its webhooks, none stays new for ever: the growing
\* intervals between retries keep those of a dead client from filling every poll.
HealthyIsServed == \A w \in Healthy : []<>(rows[w].status # "new")

=============================================================================
