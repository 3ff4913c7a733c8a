-------------------------- MODULE TransferRequests --------------------------
(***************************************************************************)
(* How a transfer comes to life: concurrent calls of Create of             *)
(* internal/services/transfers, which check a request against the          *)
(* transfers that are active and insert a row with status "new", and the   *)
(* passes of the scanner internal/tscanner, which give new transfers their *)
(* River job.  The job itself (modules TransferUtxo, TransferEvm and       *)
(* TransferTron) is reduced to the statuses it writes and the energy it    *)
(* takes from the processing wallet.                                       *)
(*                                                                         *)
(* A caller calls Create once, so it also names the transfer its call      *)
(* inserts; a client that repeats a request is another caller with the     *)
(* same request id.  All requests are of one owner.  Bandwidth and TRX are *)
(* left out: their checks can only refuse a request.  What the processing  *)
(* wallet can delegate and what it can use itself is one number, energy.   *)
(***************************************************************************)
EXTENDS Integers, FiniteSetsExt

CONSTANTS
    Callers,      \* calls of Create
    Request,      \* Request[c]: what caller c asks for
    Passes,       \* goroutines that the scanner's ticker may have started
    TotalEnergy,  \* what the processing wallet can delegate
    MaxCrashes    \* bound: restarts of the process

Kinds == {"utxo", "evm", "burntrx", "resources", "cloud_delegate"}

\* own: the sender is the processing wallet itself.  Of the energy that Create
\* estimates, estimate is for the transfer, need the part of it that is to be
\* delegated, and activation for the contract that activates the sender, 0 when
\* the sender is activated or is activated for TRX.  Only a request of kind "utxo"
\* names more than one address.
ASSUME RequestsAssumption ==
    /\ IsFiniteSet(Callers)
    /\ Request \in [Callers -> [id: Nat, kind: Kinds, own: BOOLEAN, from: SUBSET Nat,
                                need: Nat, estimate: Nat, activation: Nat]]
    /\ TotalEnergy \in Nat
    /\ MaxCrashes \in Nat

VARIABLES
    call,       \* where the call of each caller is
    isLocked,   \* Service.isLocked
    seen,       \* what the call has read of the processing wallet's energy, 0 when
                \* it does not look at it any more
    transfer,   \* transfers: the status, "none" while there is no row
    orders,     \* callers for which orders were placed at the resource manager
    jobs,       \* River jobs inserted for each transfer
    inUse,      \* TScanner.inUse
    pass,       \* the passes of the scanner, with the rows they have read
    energy,     \* what the processing wallet can delegate now
    delegated,  \* transfers that are active and have their energy delegated
    amount,     \* energy that is delegated for each transfer, also after its end
    used,       \* energy that was used and has not recovered yet
    crashes     \* restarts that may still happen

callVars == <<call, isLocked, seen>>
scanVars == <<inUse, pass>>
energyVars == <<energy, delegated, amount, used>>
vars == <<callVars, transfer, orders, jobs, scanVars, energyVars, crashes>>

Final == {"completed", "failed"}

ChainOf(c) == IF Request[c].kind \in {"utxo", "evm"} THEN Request[c].kind ELSE "tron"

Rows == {t \in Callers : transfer[t] # "none"}

Active == {t \in Rows : transfer[t] \notin Final}

Shares(c, t) == ChainOf(c) = ChainOf(t) /\ Request[c].from \cap Request[t].from # {}

\* The energy that is to be delegated for the transfers of S, and the energy that
\* activations take.  The rows of the processing wallet have no such estimates.
ofKind(S, kind) == {t \in S : Request[t].kind = kind /\ ~Request[t].own}

Energy(S) == MapThenSumSet(LAMBDA t : Request[t].need, ofKind(S, "resources"))

ActivationEnergy(S, kind) == MapThenSumSet(LAMBDA t : Request[t].activation, ofKind(S, kind))

Init ==
    /\ call = [c \in Callers |-> "idle"]
    /\ isLocked = FALSE
    /\ seen = [c \in Callers |-> 0]
    /\ transfer = [c \in Callers |-> "none"]
    /\ orders = {}
    /\ jobs = [c \in Callers |-> 0]
    /\ inUse = FALSE
    /\ pass = [p \in Passes |-> [at |-> "idle", rows |-> {}]]
    /\ energy = TotalEnergy
    /\ delegated = {}
    /\ amount = [c \in Callers |-> 0]
    /\ used = 0
    /\ crashes = MaxCrashes

(***************************************************************************)
(* Create                                                                  *)
(***************************************************************************)

\* The request is validated before the lock is taken.
Call(c) ==
    /\ call[c] = "idle"
    /\ call' = [call EXCEPT ![c] = "wants"]
    /\ UNCHANGED <<isLocked, seen, transfer, orders, jobs, scanVars, energyVars, crashes>>

Refused(c) ==
    /\ call[c] = "idle"
    /\ call' = [call EXCEPT ![c] = "done"]
    /\ UNCHANGED <<isLocked, seen, transfer, orders, jobs, scanVars, energyVars, crashes>>

\* The loop around locker.Wait: take the lock or sleep until a Signal.
Lock(c) ==
    /\ call[c] = "wants"
    /\ IF isLocked THEN call' = [call EXCEPT ![c] = "asleep"] /\ UNCHANGED isLocked
       ELSE call' = [call EXCEPT ![c] = "locked"] /\ isLocked' = TRUE
    /\ UNCHANGED <<seen, transfer, orders, jobs, scanVars, energyVars, crashes>>

\* Mutant of Unlock: nobody is woken up.
UnlockSilently(c) == isLocked' = FALSE /\ call' = [call EXCEPT ![c] = "done"]

\* The deferred function: unlock, Signal, and Create returns.
Unlock(c) ==
    LET asleep == {d \in Callers : call[d] = "asleep"} IN
    /\ isLocked' = FALSE
    /\ IF asleep = {} THEN call' = [call EXCEPT ![c] = "done"]
       ELSE \E d \in asleep : call' = [call EXCEPT ![c] = "done", ![d] = "wants"]

Holds(c) == call[c] \in {"locked", "read", "checked"}

\* Any query, wallet, balance or fee check fails.
CreateFails(c) ==
    /\ Holds(c)
    /\ Unlock(c)
    /\ seen' = [seen EXCEPT ![c] = 0]
    /\ UNCHANGED <<transfer, orders, jobs, scanVars, energyVars, crashes>>

\* The transfers that occupy an address of the request.
Occupying(c) == {t \in Active : Shares(c, t)}

\* processBTCLike: for every address, a query that looks at one arbitrary
\* transfer in "processing" (the limit is applied before the address is compared).
Processing(c) == {t \in Rows : transfer[t] = "processing" /\ ChainOf(t) = ChainOf(c)}

UtxoFree(c) ==
    \A a \in Request[c].from :
        Processing(c) # {} => \E t \in Processing(c) : a \notin Request[t].from

\* Mutant of AddressIsFree: only transfers in "processing" count.
AddressIsFreeOfProcessing(c) ==
    IF Request[c].kind = "utxo" THEN UtxoFree(c)
    ELSE \A t \in Processing(c) : ~Shares(c, t)

\* processEVM and processTron: no transfer that is not final has the address.
AddressIsFree(c) == IF Request[c].kind = "utxo" THEN UtxoFree(c) ELSE Occupying(c) = {}

\* The checks up to the one of the address, and the energy of the processing
\* wallet (own, when it is the sender).
CheckAddress(c) ==
    /\ call[c] = "locked"
    /\ AddressIsFree(c)
    /\ call' = [call EXCEPT ![c] = "read"]
    /\ seen' = [seen EXCEPT ![c] = energy]
    /\ UNCHANGED <<isLocked, transfer, orders, jobs, scanVars, energyVars, crashes>>

\* Mutant of EnergySuffices: the active transfers are not subtracted.
EnergySufficesAlone(c) == seen[c] >= Request[c].need

\* processResources subtracts what is to be delegated for the active transfers.
\* An activation is checked against the energy of the wallet, read once more, less
\* that and the activations of active transfers, which the first check leaves alone.
ResourcesSuffice(c) ==
    /\ seen[c] - Energy(Active) >= Request[c].need
    /\ Request[c].activation > 0 =>
            energy - (Energy(Active) + ActivationEnergy(Active, "resources"))
                >= Request[c].estimate + Request[c].activation

\* processBurnTRX, which pays the transfer with TRX but not the activation.
BurnSuffices(c) ==
    Request[c].activation > 0 =>
        seen[c] - (Energy(Active) + ActivationEnergy(Active, "resources") + ActivationEnergy(Active, "burntrx"))
            >= Request[c].activation

\* The check for a processing wallet subtracts nothing.
EnergySuffices(c) ==
    CASE Request[c].kind = "resources" /\ Request[c].own -> seen[c] >= Request[c].estimate
      [] Request[c].kind = "resources" /\ ~Request[c].own -> ResourcesSuffice(c)
      [] Request[c].kind = "burntrx" /\ ~Request[c].own -> BurnSuffices(c)
      [] OTHER -> TRUE

\* The rest of the checks; processCloudDelegate ends with the orders.
CheckResources(c) ==
    /\ call[c] = "read"
    /\ EnergySuffices(c)
    /\ call' = [call EXCEPT ![c] = "checked"]
    /\ seen' = [seen EXCEPT ![c] = 0]
    /\ orders' = IF Request[c].kind = "cloud_delegate" THEN orders \cup {c} ELSE orders
    /\ UNCHANGED <<isLocked, transfer, jobs, scanVars, energyVars, crashes>>

\* The row is inserted, unless the owner has one with this request id.
Insert(c) ==
    /\ call[c] = "checked"
    /\ transfer' = IF \E t \in Rows : Request[t].id = Request[c].id THEN transfer
                   ELSE [transfer EXCEPT ![c] = "new"]
    /\ Unlock(c)
    /\ UNCHANGED <<seen, orders, jobs, scanVars, energyVars, crashes>>

(***************************************************************************)
(* TScanner                                                                *)
(***************************************************************************)

\* Mutant of ScanBegin: a pass starts whether or not another one is running.
ScanBeginAlways(p) ==
    /\ pass[p].at = "idle"
    /\ inUse' = TRUE
    /\ pass' = [pass EXCEPT ![p].at = "begun"]
    /\ UNCHANGED <<callVars, transfer, orders, jobs, energyVars, crashes>>

\* CompareAndSwap; a pass that finds the scanner in use ends at once.
ScanBegin(p) ==
    /\ pass[p].at = "idle"
    /\ ~inUse
    /\ inUse' = TRUE
    /\ pass' = [pass EXCEPT ![p].at = "begun"]
    /\ UNCHANGED <<callVars, transfer, orders, jobs, energyVars, crashes>>

\* FindAllNewTransfers, outside of the transaction that follows.
ScanLoad(p) ==
    /\ pass[p].at = "begun"
    /\ pass' = [pass EXCEPT ![p] = [at |-> "loaded", rows |-> {t \in Rows : transfer[t] = "new"}]]
    /\ UNCHANGED <<callVars, transfer, orders, jobs, inUse, energyVars, crashes>>

\* Mutant of ScanEnd: inUse is not reset.
ScanEndInUse(p) == pass' = [pass EXCEPT ![p] = [at |-> "idle", rows |-> {}]] /\ UNCHANGED inUse

\* The deferred end of a pass.
ScanEnd(p) == inUse' = FALSE /\ pass' = [pass EXCEPT ![p] = [at |-> "idle", rows |-> {}]]

\* One transaction inserts the jobs and sets the statuses.
ScanCommit(p) ==
    /\ pass[p].at = "loaded"
    /\ jobs' = [t \in Callers |-> IF t \in pass[p].rows THEN jobs[t] + 1 ELSE jobs[t]]
    /\ transfer' = [t \in Callers |-> IF t \in pass[p].rows THEN "processing" ELSE transfer[t]]
    /\ ScanEnd(p)
    /\ UNCHANGED <<callVars, orders, energyVars, crashes>>

\* A query or the transaction fails.
ScanFails(p) ==
    /\ pass[p].at # "idle"
    /\ ScanEnd(p)
    /\ UNCHANGED <<callVars, transfer, orders, jobs, energyVars, crashes>>

(***************************************************************************)
(* The job of transfer t, and the chain                                    *)
(***************************************************************************)

\* activate_wallet_resources: the processing wallet calls the contract, with as much
\* energy as it takes by now; when the step is executed again, it calls it again.
JobActivates(t) ==
    /\ jobs[t] > 0 /\ transfer[t] = "processing" /\ t \notin delegated
    /\ Request[t].kind \in {"resources", "burntrx"} /\ ~Request[t].own /\ Request[t].activation > 0
    /\ \E e \in 1..energy : energy' = energy - e /\ used' = used + e
    /\ UNCHANGED <<callVars, transfer, orders, jobs, scanVars, delegated, amount, crashes>>

\* delegate_resources: the need is estimated anew, so it may be less than Create
\* promised, or more; when the step is executed again, it delegates again.
JobDelegates(t) ==
    /\ jobs[t] > 0 /\ transfer[t] = "processing"
    /\ Request[t].kind = "resources" /\ ~Request[t].own
    /\ delegated' = delegated \cup {t}
    /\ \E need \in 0..energy :
            energy' = energy - need /\ amount' = [amount EXCEPT ![t] = @ + need]
    /\ UNCHANGED <<callVars, transfer, orders, jobs, scanVars, used, crashes>>

\* The payment is sent and found; a processing wallet uses its own energy for
\* it, and burns TRX for what is missing.
JobSends(t) ==
    /\ jobs[t] > 0 /\ transfer[t] = "processing"
    /\ (Request[t].kind = "resources" /\ ~Request[t].own) => t \in delegated
    /\ transfer' = [transfer EXCEPT ![t] = "unconfirmed"]
    /\ \E e \in IF Request[t].own /\ ChainOf(t) = "tron" THEN 0..energy ELSE {0} :
            energy' = energy - e /\ used' = used + e
    /\ UNCHANGED <<callVars, orders, jobs, scanVars, delegated, amount, crashes>>

\* Delegated energy is reclaimed, and what the sender has used of it is still to
\* recover; or it stays delegated.
Reclaim(t) ==
    \/ /\ amount' = [amount EXCEPT ![t] = 0]
       /\ \E e \in 0..amount[t] : energy' = energy + (amount[t] - e) /\ used' = used + e
    \/ UNCHANGED <<energy, amount, used>>

\* The transfer ends, after what it reclaims.
JobEnds(t, status) ==
    /\ jobs[t] > 0 /\ transfer[t] \in {"processing", "unconfirmed"}
    /\ status = "completed" => transfer[t] = "unconfirmed"
    /\ transfer' = [transfer EXCEPT ![t] = status]
    /\ delegated' = delegated \ {t}
    /\ Reclaim(t)
    /\ UNCHANGED <<callVars, orders, jobs, scanVars, crashes>>

\* Energy that was used comes back with time.
EnergyRecovers ==
    /\ used > 0
    /\ used' = used - 1
    /\ energy' = energy + 1
    /\ UNCHANGED <<callVars, transfer, orders, jobs, scanVars, delegated, amount, crashes>>

\* The process restarts: calls and passes are gone.
Restart ==
    /\ crashes > 0
    /\ crashes' = crashes - 1
    /\ call' = [c \in Callers |-> IF call[c] = "idle" THEN "idle" ELSE "done"]
    /\ isLocked' = FALSE
    /\ seen' = [c \in Callers |-> 0]
    /\ inUse' = FALSE
    /\ pass' = [p \in Passes |-> [at |-> "idle", rows |-> {}]]
    /\ UNCHANGED <<transfer, orders, jobs, energyVars>>

Create(c) == Lock(c) \/ CreateFails(c) \/ CheckAddress(c) \/ CheckResources(c) \/ Insert(c)

Scan(p) == ScanBegin(p) \/ ScanLoad(p) \/ ScanCommit(p) \/ ScanFails(p)

Next ==
    \/ \E c \in Callers : Call(c) \/ Refused(c) \/ Create(c)
    \/ \E p \in Passes : Scan(p)
    \/ \E t \in Callers : JobActivates(t) \/ JobDelegates(t) \/ JobSends(t)
    \/ \E t \in Callers, status \in Final : JobEnds(t, status)
    \/ EnergyRecovers
    \/ Restart

Spec == Init /\ [][Next]_vars

\* While a call is under way that is not asleep, some call goes on; the ticker
\* keeps starting passes, and a database that is asked again and again answers
\* at last.  Nothing is assumed of which caller, or which pass, is scheduled.
Fairness ==
    /\ WF_vars(\E c \in Callers : Create(c))
    /\ WF_vars(\E p \in Passes : Scan(p))
    /\ SF_vars(\E p \in Passes : ScanLoad(p))
    /\ SF_vars(\E p \in Passes : ScanCommit(p))

FairSpec == Spec /\ Fairness

(***************************************************************************)
(* Properties                                                              *)
(***************************************************************************)

TypeOK ==
    /\ call \in [Callers -> {"idle", "wants", "asleep", "locked", "read", "checked", "done"}]
    /\ {isLocked, inUse} \subseteq BOOLEAN
    /\ seen \in [Callers -> Nat]
    /\ transfer \in [Callers -> {"none", "new", "processing", "unconfirmed"} \cup Final]
    /\ orders \subseteq Callers
    /\ jobs \in [Callers -> Nat]
    /\ pass \in [Passes -> [at: {"idle", "begun", "loaded"}, rows: SUBSET Callers]]
    /\ {energy, used, crashes} \subseteq Nat
    /\ delegated \subseteq Callers
    /\ amount \in [Callers -> Nat]

\* Two transfers that spend from one account are never active together: the
\* lock keeps the check of the address and the insert of the row together, for
\* every interleaving of calls, passes and jobs and through restarts.
AccountExclusive ==
    \A t, u \in Active : (t # u /\ Shares(t, u)) => ChainOf(t) = "utxo"

\* Every transfer has at most one job, though the rows are read outside of the
\* transaction and no unique job is asked of River.
OneJobPerTransfer == \A t \in Callers : jobs[t] =< 1

\* What is delegated beyond the promises of the transfers it is delegated for: by an
\* estimate that has grown, by a step that was executed again, or since it was not
\* reclaimed.  Less than promised counts against it.
Outstanding == MapThenSumSet(LAMBDA t : amount[t], Callers)

Excess == Outstanding - Energy(delegated)

\* The energy promised to accepted transfers is there when they delegate it, but for
\* what nothing reserves: energy used by the processing wallet for its own transfers and
\* for activations and not recovered yet, and energy delegated beyond the promises.
\* Nothing else takes it, though Create reads the wallet before it sums up the
\* promises, and jobs delegate, activate and reclaim in between.
EnergyNotOvercommitted == energy + used + Excess >= Energy(Active \ delegated)

\* Every Create that was called returns: no lost Signal leaves a caller asleep
\* (a caller calls once, so from some point on no call is under way).
CreateReturns == <>[](\A c \in Callers : call[c] \in {"idle", "done"})

\* Every transfer that was inserted is taken up by the scanner.
NewGetsJob == <>[](\A t \in Rows : jobs[t] > 0)

\* "The address is occupied by another transaction" is the answer while a
\* transfer that spends from the address is in process.
OccupiedIsRefused ==
    [][\A c \in Callers : (call[c] = "locked" /\ call'[c] = "read") =>
            ~ \E t \in Processing(c) : Shares(c, t)]_vars

=============================================================================
