---------------------------- MODULE ChainEvents ----------------------------
(***************************************************************************)
(* What the client is told of a transaction that concerns its wallets.     *)
(* Three parts of the process work on it: the state machine of a transfer  *)
(* submits system transactions and records them in a database transaction  *)
(* that is committed afterwards; the block scanner stores the webhooks and *)
(* the jobs of a block; and the job of an event (taskmanager) tells of its *)
(* completion when the transaction has enough confirmations.               *)
(*                                                                         *)
(* Which blocks the scanner reads is the subject of BlockScanner: here a   *)
(* transaction is fetched and stored once for every block it is mined in.  *)
(* A transaction has one event.  River and the chain are external.         *)
(***************************************************************************)
EXTENDS WalletSDK, Integers, FiniteSets

CONSTANTS
    Tx,                \* transactions
    Blockchain,        \* the chain of each
    System,            \* those that a transfer sends for its own needs
    Event,             \* their events
    WalletType,        \* the addresses of the wallets, and their types
    MinConfirmations,  \* constants.GetMinConfirmations
    Modulus,           \* stands for 2^64
    MaxAttempts,       \* River: attempts of a job
    MaxSent,           \* bound: transactions that are sent
    MaxReorgs,         \* bound: reorganisations
    MaxFailures        \* bound: failed calls and crashes

ASSUME ChainEventsAssumption ==
    /\ System \subseteq Tx /\ Blockchain \in [Tx -> AllBlockchains]
    /\ MinConfirmations \in Nat \ {0} /\ Modulus \in Nat /\ MinConfirmations + 1 < Modulus \div 2
    /\ MaxAttempts \in Nat \ {0} /\ MaxSent \in Nat /\ MaxReorgs \in Nat /\ MaxFailures \in Nat

VARIABLES
    conf,       \* confirmations of a transaction; 0 in the mempool, -1 when it is unknown
    record,     \* the row of a system transaction in transfer_transactions
    scan,       \* whether the block with the transaction is stored
    active,     \* fetchBlockData: the wallets that were activated then
    activated,  \* the activated wallets
    hooks,      \* the webhooks created so far
    jobs,       \* the jobs of kind waiting_confirmations
    told,       \* history: how often the job told of a completion
    early,      \* history: transactions whose block was stored before the record
    reorgs,
    failures

chainVars == <<conf, reorgs>>
scanVars == <<scan, active, activated>>
eventVars == <<chainVars, record, scanVars, hooks, jobs, told, early, failures>>

(***************************************************************************)
(* Which events concern a wallet                                           *)
(***************************************************************************)

\* The forms of an address: Bitcoin Cash has two.
Forms(b, a) ==
    IF b = "bitcoincash" THEN {[a EXCEPT !.form = f] : f \in {"cashaddr", "legacy"}} ELSE {a}

checksForEvent(t) ==
    {[kind |-> "transfer", address |-> a] : a \in Forms(Blockchain[t], Event[t].from)}
    \cup {[kind |-> "deposit", address |-> a] : a \in Forms(Blockchain[t], Event[t].to)}

\* Only successful transfers count, and those of nothing only when the sender made
\* the transaction.
Relevant(t) ==
    /\ Event[t].type = "transfer" /\ Event[t].success
    /\ Event[t].zero => Event[t].initiator = Event[t].from

\* The sides of the event that are wallets.
whParams(t) ==
    IF Relevant(t) THEN {c \in checksForEvent(t) : c.address \in DOMAIN WalletType} ELSE {}

\* The arguments of a job, which River compares to tell jobs apart.
Args ==
    UNION {{[tx |-> t, kind |-> c.kind, address |-> c.address, system |-> f] :
              c \in whParams(t), f \in BOOLEAN} : t \in Tx}

NoJob == [state |-> "none", attempts |-> 0]
NewJob == [state |-> "scheduled", attempts |-> 0]

InitEvents ==
    /\ conf = [t \in Tx |-> -1]
    /\ record = [t \in Tx |-> "none"]
    /\ scan = [t \in Tx |-> "no"]
    /\ active = [t \in Tx |-> {}]
    /\ activated = {}
    /\ hooks = {}
    /\ jobs = [a \in Args |-> NoJob]
    /\ told = [a \in Args |-> 0]
    /\ early = {}
    /\ reorgs = 0
    /\ failures = MaxFailures

Fault == failures > 0 /\ failures' = failures - 1

(***************************************************************************)
(* The chain and the transfers                                             *)
(***************************************************************************)

\* The node gets the transaction.  The row of a system transaction is inserted
\* before, in a database transaction that is still open.
SendTransaction(t) ==
    /\ record[t] = "none"
    /\ Cardinality({u \in Tx : record[u] # "none"}) < MaxSent
    /\ record' = [record EXCEPT ![t] = IF t \in System THEN "open" ELSE "foreign"]
    /\ conf' = [conf EXCEPT ![t] = 0]
    /\ UNCHANGED <<reorgs, scanVars, hooks, jobs, told, early, failures>>

\* The database transaction is committed, or lost with the process.
CommitRecord(t) ==
    /\ record[t] = "open"
    /\ \/ record' = [record EXCEPT ![t] = "committed"] /\ UNCHANGED failures
       \/ record' = [record EXCEPT ![t] = "lost"] /\ Fault
    /\ UNCHANGED <<chainVars, scanVars, hooks, jobs, told, early>>

\* Bound: further confirmations do not matter.
Enough == MinConfirmations + 1

\* The chains that are scanned.
Scanned == {Blockchain[t] : t \in Tx}

On(b) == {t \in Tx : Blockchain[t] = b}

\* A block of chain b with the transactions in mined.
NewBlock(b, mined) ==
    /\ \A t \in mined : conf[t] = 0
    /\ conf' = [t \in Tx |-> IF t \in mined \/ (t \in On(b) /\ conf[t] \in 1..(Enough - 1))
                            THEN conf[t] + 1 ELSE conf[t]]
    /\ scan' = [t \in Tx |-> IF t \in mined THEN "no" ELSE scan[t]]
    /\ UNCHANGED <<reorgs, record, active, activated, hooks, jobs, told, early, failures>>

\* The last k blocks of chain b are replaced.  Of the transactions in them some are dropped
\* for good and the others are in the mempool again.
Reorg(b, k) ==
    /\ reorgs < MaxReorgs
    /\ reorgs' = reorgs + 1
    /\ LET replaced == {t \in On(b) : conf[t] \in 1..k} IN
       /\ replaced # {}
       /\ \E dropped \in SUBSET replaced :
            conf' = [t \in Tx |-> IF t \in dropped THEN -1 ELSE IF t \in replaced THEN 0 ELSE conf[t]]
    /\ UNCHANGED <<record, scanVars, hooks, jobs, told, early, failures>>

(***************************************************************************)
(* The scanner                                                             *)
(***************************************************************************)

fetchBlockData(t) ==
    /\ conf[t] >= 1 /\ scan[t] = "no"
    /\ scan' = [scan EXCEPT ![t] = "fetched"]
    /\ active' = [active EXCEPT ![t] = activated]
    /\ UNCHANGED <<chainVars, record, activated, hooks, jobs, told, early, failures>>

IsSystemTransactionsSupported(b) == b \in EVMBlockchains \cup {"tron"}

\* FindSystemTransactions sees what is committed.
IsSystem(t) == IsSystemTransactionsSupported(Blockchain[t]) /\ record[t] = "committed"

IsTrxHotWalletDeposit(t, c) ==
    /\ c.kind = "deposit" /\ WalletType[c.address] = "hot"
    /\ Event[t].asset = "trx"

\* A wallet of Tron that was not activated when the block was fetched.
Activates(t, c) ==
    /\ Blockchain[t] = "tron" /\ c.address \notin active[t]
    /\ IsTrxHotWalletDeposit(t, c)

\* EventTransactionCreateParams: the status of a transaction that failed is failed.
Webhook(a, status) ==
    [tx |-> a.tx, kind |-> a.kind, address |-> a.address, system |-> a.system,
     status |-> IF Event[a.tx].failed THEN "failed" ELSE status]

\* Mutant of InsertJobs: jobs are not unique.
InsertAgain(new) == [a \in Args |-> IF a \in new THEN NewJob ELSE jobs[a]]

\* Jobs are unique by their arguments as long as the old one is not discarded.
InsertJobs(new) ==
    [a \in Args |-> IF a \in new /\ jobs[a].state \in {"none", "discarded"} THEN NewJob ELSE jobs[a]]

\* The block is stored in one database transaction, although it may have been
\* replaced since it was fetched.
commitBlockResult(t) ==
    /\ scan[t] = "fetched"
    /\ scan' = [scan EXCEPT ![t] = "done"]
    /\ LET new == {[tx |-> t, kind |-> c.kind, address |-> c.address, system |-> IsSystem(t)] :
                     c \in whParams(t)}
       IN  /\ hooks' = hooks \cup {Webhook(a, "waiting_confirmations") : a \in new}
           /\ jobs' = InsertJobs(new)
    /\ activated' = activated \cup {c.address : c \in {d \in whParams(t) : Activates(t, d)}}
    /\ early' = IF record[t] = "open" THEN early \cup {t} ELSE early
    /\ UNCHANGED <<chainVars, record, active, told, failures>>

commitFails(t) ==
    /\ scan[t] = "fetched" /\ Fault
    /\ scan' = [scan EXCEPT ![t] = "no"]
    /\ UNCHANGED <<chainVars, record, active, activated, hooks, jobs, told, early>>

(***************************************************************************)
(* The job of an event                                                     *)
(***************************************************************************)

\* Mutant of LeftConfirmations: the difference is left unsigned.
LeftUnsigned(n) == (MinConfirmations - n) % Modulus

\* int64(requiredConfirmations - confirmations) of unsigned numbers.
LeftConfirmations(n) ==
    LET left == (MinConfirmations - n) % Modulus
    IN  IF left >= Modulus \div 2 THEN left - Modulus ELSE left

\* The time to wait is not modelled, only whether there is any.
ConfirmationsTimeout(n) == IF LeftConfirmations(n) > 0 THEN 1 ELSE 0

Validate(a) == Event[a.tx].key

\* The attempt ends with an error.
Fails(a) ==
    jobs' = [jobs EXCEPT ![a].attempts = @ + 1,
                         ![a].state = IF jobs[a].attempts + 1 < MaxAttempts THEN "scheduled" ELSE "discarded"]

\* Mutant of Completes: the flag is not taken from the arguments.
CompletesUnmarked(a) ==
    /\ hooks' = hooks \cup {Webhook([a EXCEPT !.system = FALSE], "completed")}
    /\ told' = [told EXCEPT ![a] = @ + 1]

\* The webhook of the completion.
Completes(a) ==
    /\ hooks' = hooks \cup {Webhook(a, "completed")}
    /\ told' = [told EXCEPT ![a] = @ + 1]

\* An attempt of the job.  It is snoozed, which changes nothing, as long as
\* confirmations are missing.  The process may stop between the creation of the
\* webhook and the end of the job.
Work(a) ==
    /\ jobs[a].state = "scheduled"
    /\ \/ ~Validate(a) /\ Fails(a) /\ UNCHANGED <<hooks, told, failures>>
       \/ /\ Validate(a) /\ Fails(a)
          /\ \/ conf[a.tx] =< 0 /\ UNCHANGED failures
             \/ Fault
          /\ UNCHANGED <<hooks, told>>
       \/ /\ Validate(a) /\ conf[a.tx] >= 0 /\ ConfirmationsTimeout(conf[a.tx]) = 0
          /\ Completes(a)
          /\ \/ jobs' = [jobs EXCEPT ![a].state = "completed"] /\ UNCHANGED failures
             \/ Fails(a) /\ Fault
    /\ UNCHANGED <<chainVars, record, scanVars, early>>

NextEvents ==
    \/ \E t \in Tx : SendTransaction(t) \/ CommitRecord(t)
    \/ \E b \in Scanned : \E mined \in SUBSET On(b) : NewBlock(b, mined)
    \/ \E b \in Scanned, k \in 1..Enough : Reorg(b, k)
    \/ \E t \in Tx : fetchBlockData(t) \/ commitBlockResult(t) \/ commitFails(t)
    \/ \E a \in Args : Work(a)

SpecEvents == InitEvents /\ [][NextEvents]_eventVars

\* Blocks come, the scanner goes on, and River attempts the jobs.
FairnessEvents ==
    /\ WF_eventVars(\E b \in Scanned : \E mined \in SUBSET On(b) : NewBlock(b, mined))
    /\ WF_eventVars(\E t \in Tx : fetchBlockData(t) \/ commitBlockResult(t))
    /\ WF_eventVars(\E a \in Args : Work(a))

FairSpecEvents == SpecEvents /\ FairnessEvents

(***************************************************************************)
(* Properties                                                              *)
(***************************************************************************)

EventsTypeOK ==
    /\ conf \in [Tx -> Int]
    /\ record \in [Tx -> {"none", "foreign", "open", "committed", "lost"}]
    /\ scan \in [Tx -> {"no", "fetched", "done"}]
    /\ jobs \in [Args -> [state: {"none", "scheduled", "completed", "discarded"}, attempts: Nat]]
    /\ told \in [Args -> Nat]
    /\ failures \in Nat
    /\ early \subseteq Tx

\* A payment that a transfer makes for its own needs is announced to the client as
\* such, when it is mined and when it is completed and however often it is mined
\* again, unless its block was stored while the row of the payment was not
\* committed yet, or the row was lost after the node had got the payment.
SystemIsMarked ==
    \A h \in hooks :
        (IsSystemTransactionsSupported(Blockchain[h.tx]) /\ h.tx \in System /\ ~h.system)
        => h.tx \in early \/ record[h.tx] = "lost"

\* The completion of an event is told once, although its block may be stored again
\* after a reorganisation, unless a crash or an error makes the job repeat it.  The
\* completions of a transaction carry the same flag, unless its block was stored
\* again and the row was committed between.
CompletedOnce ==
    /\ \A a \in Args : told[a] =< 1 + (MaxFailures - failures)
    /\ \A a, b \in Args :
            a.tx = b.tx /\ a.system # b.system /\ told[a] > 0 /\ told[b] > 0 => reorgs > 0

\* Announced, and neither has the client been told of the completion nor has the
\* job run out of attempts.
Waits(a) ==
    /\ Webhook(a, "waiting_confirmations") \in hooks
    /\ Webhook(a, "completed") \notin hooks /\ jobs[a].state # "discarded"

\* Every event that was announced is concluded: the client is told of the
\* completion, or the job has run out of attempts because the transaction was in
\* no block or the event has no key.
EventCompletes == (\E a \in Args : Waits(a)) ~> ~(\E a \in Args : Waits(a))

=============================================================================
