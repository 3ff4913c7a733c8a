----------------------- MODULE TransferRequestsProofs -----------------------
(***************************************************************************)
(* Proofs about TransferRequests, for every set of callers and of passes   *)
(* and for all requests.                                                   *)
(***************************************************************************)
EXTENDS TransferRequests, FiniteSetTheorems, WellFoundedInduction, TLAPS

(***************************************************************************)
(* Types                                                                   *)
(***************************************************************************)

\* The fields of a request have their types.
LEMMA RequestType ==
    ASSUME NEW c \in Callers
    PROVE  /\ Request[c].id \in Nat
           /\ Request[c].kind \in Kinds
           /\ Request[c].need \in Nat
BY RequestsAssumption

\* A pass that has read nothing has its type.
LEMMA NoRows ==
    [at |-> "idle", rows |-> {}] \in [at: {"idle", "begun", "loaded"}, rows: SUBSET Callers]
OBVIOUS

\* A call that ends leaves the calls and the lock in their types.
LEMMA UnlockType ==
    ASSUME TypeOK, NEW c \in Callers, Unlock(c)
    PROVE  /\ call' \in [Callers -> {"idle", "wants", "asleep", "locked", "read", "checked", "done"}]
           /\ isLocked' \in BOOLEAN
BY DEF TypeOK, Unlock

\* Energy that is used is taken from what there is.
LEMMA EnergyMoves ==
    ASSUME TypeOK, NEW E \in SUBSET (0..energy), \E e \in E : energy' = energy - e /\ used' = used + e
    PROVE  energy' \in Nat /\ used' \in Nat /\ energy' + used' = energy + used
BY DEF TypeOK

\* Every variable keeps its type; the energy counters never become negative.
THEOREM TypeCorrect == Spec => []TypeOK
<1>1. Init => TypeOK
  <2> SUFFICES ASSUME Init PROVE TypeOK
    OBVIOUS
  <2>1. pass \in [Passes -> [at: {"idle", "begun", "loaded"}, rows: SUBSET Callers]]
    BY NoRows DEF Init
  <2>2. energy \in Nat /\ used \in Nat /\ crashes \in Nat
    BY RequestsAssumption, SMT DEF Init
  <2>3. isLocked \in BOOLEAN /\ inUse \in BOOLEAN
    BY Zenon DEF Init
  <2>4. seen \in [Callers -> Nat] /\ jobs \in [Callers -> Nat] /\ amount \in [Callers -> Nat]
    BY DEF Init
  <2>5. /\ call \in [Callers -> {"idle", "wants", "asleep", "locked", "read", "checked", "done"}]
        /\ transfer \in [Callers -> {"none", "new", "processing", "unconfirmed"} \cup Final]
    BY DEF Init
  <2> QED
    BY <2>1, <2>2, <2>3, <2>4, <2>5 DEF Init, TypeOK
<1>2. TypeOK /\ [Next]_vars => TypeOK'
  <2> SUFFICES ASSUME TypeOK, [Next]_vars PROVE TypeOK'
    OBVIOUS
  <2>1. CASE UNCHANGED vars
    BY <2>1 DEF vars, callVars, scanVars, energyVars, TypeOK
  <2>2. ASSUME NEW c \in Callers, Call(c) \/ Refused(c) \/ Lock(c) PROVE TypeOK'
    BY <2>2 DEF Call, Refused, Lock, scanVars, energyVars, TypeOK
  <2>3. ASSUME NEW c \in Callers, CreateFails(c) PROVE TypeOK'
    BY <2>3, UnlockType DEF CreateFails, scanVars, energyVars, TypeOK
  <2>4. ASSUME NEW c \in Callers, CheckAddress(c) \/ CheckResources(c) PROVE TypeOK'
    BY <2>4 DEF CheckAddress, CheckResources, scanVars, energyVars, TypeOK
  <2>5. ASSUME NEW c \in Callers, Insert(c) PROVE TypeOK'
    <3>1. transfer' \in [Callers -> {"none", "new", "processing", "unconfirmed"} \cup Final]
      BY <2>5 DEF Insert, TypeOK
    <3> QED
      BY <2>5, <3>1, UnlockType DEF Insert, scanVars, energyVars, TypeOK
  <2>6. ASSUME NEW p \in Passes, ScanBegin(p) \/ ScanLoad(p) PROVE TypeOK'
    <3>1. pass' \in [Passes -> [at: {"idle", "begun", "loaded"}, rows: SUBSET Callers]]
      <4>1. CASE ScanBegin(p)
        BY <4>1 DEF ScanBegin, TypeOK
      <4>2. CASE ScanLoad(p)
        <5>1. {t \in Rows : transfer[t] = "new"} \in SUBSET Callers
          BY DEF Rows
        <5> QED
          BY <4>2, <5>1 DEF ScanLoad, TypeOK
      <4> QED
        BY <2>6, <4>1, <4>2
    <3> QED
      BY <2>6, <3>1 DEF ScanBegin, ScanLoad, callVars, energyVars, TypeOK
  <2>7. ASSUME NEW p \in Passes, ScanCommit(p) \/ ScanFails(p) PROVE TypeOK'
    <3>1. pass' \in [Passes -> [at: {"idle", "begun", "loaded"}, rows: SUBSET Callers]]
      BY <2>7, NoRows DEF ScanCommit, ScanFails, ScanEnd, TypeOK
    <3>2. jobs' \in [Callers -> Nat]
      BY <2>7 DEF ScanCommit, ScanFails, TypeOK
    <3>3. transfer' \in [Callers -> {"none", "new", "processing", "unconfirmed"} \cup Final]
      BY <2>7 DEF ScanCommit, ScanFails, TypeOK
    <3> QED
      BY <2>7, <3>1, <3>2, <3>3 DEF ScanCommit, ScanFails, ScanEnd, callVars, energyVars, TypeOK
  <2>8. ASSUME NEW t \in Callers, JobActivates(t) PROVE TypeOK'
    <3>1. energy' \in Nat /\ used' \in Nat
      BY <2>8, EnergyMoves DEF JobActivates, TypeOK
    <3> QED
      BY <2>8, <3>1 DEF JobActivates, callVars, scanVars, TypeOK
  <2>9. ASSUME NEW t \in Callers, JobDelegates(t) PROVE TypeOK'
    <3>1. PICK need \in 0..energy : energy' = energy - need /\ amount' = [amount EXCEPT ![t] = @ + need]
      BY <2>9 DEF JobDelegates
    <3>2. energy' \in Nat /\ amount' \in [Callers -> Nat]
      BY <3>1 DEF TypeOK
    <3> QED
      BY <2>9, <3>2 DEF JobDelegates, callVars, scanVars, TypeOK
  <2>10. ASSUME NEW t \in Callers, JobSends(t) PROVE TypeOK'
    <3>1. energy' \in Nat /\ used' \in Nat
      BY <2>10, EnergyMoves DEF JobSends, TypeOK
    <3> QED
      BY <2>10, <3>1 DEF JobSends, callVars, scanVars, TypeOK
  <2>13. ASSUME NEW t \in Callers, NEW status \in Final, JobEnds(t, status) PROVE TypeOK'
    <3>1. energy' \in Nat /\ used' \in Nat /\ amount' \in [Callers -> Nat]
      BY <2>13 DEF JobEnds, Reclaim, TypeOK
    <3> QED
      BY <2>13, <3>1 DEF JobEnds, callVars, scanVars, TypeOK
  <2>11. CASE EnergyRecovers
    BY <2>11 DEF EnergyRecovers, callVars, scanVars, TypeOK
  <2>12. CASE Restart
    <3>1. pass' \in [Passes -> [at: {"idle", "begun", "loaded"}, rows: SUBSET Callers]]
      BY <2>12, NoRows DEF Restart
    <3>2. call' \in [Callers -> {"idle", "wants", "asleep", "locked", "read", "checked", "done"}]
      BY <2>12 DEF Restart
    <3>3. crashes' \in Nat
      BY <2>12 DEF Restart, TypeOK
    <3>4. seen' \in [Callers -> Nat]
      BY <2>12 DEF Restart
    <3> QED
      BY <2>12, <3>1, <3>2, <3>3, <3>4 DEF Restart, energyVars, TypeOK
  <2> QED
    BY <2>1, <2>2, <2>3, <2>4, <2>5, <2>6, <2>7, <2>8, <2>9, <2>10, <2>11, <2>12, <2>13
    DEF Next, Create, Scan
<1> QED
  BY <1>1, <1>2, PTL DEF Spec

(***************************************************************************)
(* Jobs: the in-use flag makes the read of the rows and the transaction    *)
(* that follows it exclusive.                                              *)
(***************************************************************************)

\* A pass that is not idle owns the flag.
InUseOwned ==
    \A p, q \in Passes : pass[p].at # "idle" => inUse /\ (pass[q].at # "idle" => p = q)

\* What a pass has read is still new when it commits.
RowsAreNew == \A p \in Passes : \A t \in pass[p].rows : pass[p].at = "loaded" /\ transfer[t] = "new"

\* A job exists only for a transfer the scanner has taken up.
NewHasNoJob == \A t \in Callers : transfer[t] \in {"none", "new"} => jobs[t] = 0

JobInv == InUseOwned /\ RowsAreNew /\ NewHasNoJob /\ OneJobPerTransfer

\* Only an insert and the scanner touch rows that are absent or new.
LEMMA JobInvInductive == TypeOK /\ JobInv /\ [Next]_vars => JobInv'
<1> SUFFICES ASSUME TypeOK, JobInv, [Next]_vars PROVE JobInv'
  OBVIOUS
<1> USE DEF JobInv, InUseOwned, RowsAreNew, NewHasNoJob, OneJobPerTransfer
<1>1. CASE UNCHANGED <<transfer, jobs, scanVars>>
  BY <1>1 DEF scanVars
<1>2. ASSUME NEW c \in Callers, Insert(c) PROVE JobInv'
  <2>1. CASE transfer' = transfer
    BY <1>2, <2>1 DEF Insert, scanVars
  <2>2. CASE transfer' = [transfer EXCEPT ![c] = "new"] /\ transfer[c] = "none"
    BY <1>2, <2>2 DEF Insert, scanVars, TypeOK
  <2> QED
    BY <1>2, <2>1, <2>2 DEF Insert, Rows
<1>3. ASSUME NEW p \in Passes, ScanBegin(p) PROVE JobInv'
  BY <1>3 DEF ScanBegin, TypeOK
<1>4. ASSUME NEW p \in Passes, ScanLoad(p) PROVE JobInv'
  <2>1. InUseOwned'
    BY <1>4 DEF ScanLoad, TypeOK
  <2>2. RowsAreNew'
    BY <1>4 DEF ScanLoad, TypeOK, Rows
  <2> QED
    BY <1>4, <2>1, <2>2 DEF ScanLoad
<1>5. ASSUME NEW p \in Passes, ScanCommit(p) PROVE JobInv'
  <2>1. \A q \in Passes : pass'[q].at = "idle" /\ pass'[q].rows = {}
    BY <1>5 DEF ScanCommit, ScanEnd, TypeOK
  <2>2. \A t \in pass[p].rows : t \in Callers /\ jobs[t] = 0
    BY <1>5 DEF ScanCommit, TypeOK
  <2>3. NewHasNoJob' /\ OneJobPerTransfer'
    BY <1>5, <2>2 DEF ScanCommit, TypeOK
  <2> QED
    BY <2>1, <2>3
<1>6. ASSUME NEW p \in Passes, ScanFails(p) PROVE JobInv'
  BY <1>6 DEF ScanFails, ScanEnd, TypeOK
<1>7. ASSUME NEW t \in Callers, NEW status \in {"unconfirmed"} \cup Final,
             jobs[t] > 0, transfer' = [transfer EXCEPT ![t] = status],
             UNCHANGED <<jobs, scanVars>>
      PROVE  JobInv'
  <2>1. transfer[t] # "new"
    BY <1>7
  <2>2. \A u \in Callers : u # t => transfer'[u] = transfer[u]
    BY <1>7 DEF TypeOK
  <2>3. transfer'[t] \notin {"none", "new"}
    BY <1>7 DEF TypeOK, Final
  <2>4. RowsAreNew'
    BY <1>7, <2>1, <2>2 DEF TypeOK, scanVars
  <2>5. NewHasNoJob'
    BY <1>7, <2>2, <2>3 DEF scanVars
  <2> QED
    BY <1>7, <2>4, <2>5 DEF scanVars
<1>8. CASE Restart
  BY <1>8 DEF Restart, TypeOK
<1>9. ASSUME NEW c \in Callers,
             Call(c) \/ Refused(c) \/ Lock(c) \/ CreateFails(c) \/ CheckAddress(c) \/ CheckResources(c)
      PROVE  UNCHANGED <<transfer, jobs, scanVars>>
  BY <1>9 DEF Call, Refused, Lock, CreateFails, CheckAddress, CheckResources
<1>10. ASSUME NEW t \in Callers, JobActivates(t) \/ JobDelegates(t)
       PROVE  UNCHANGED <<transfer, jobs, scanVars>>
  BY <1>10 DEF JobActivates, JobDelegates
<1>11. ASSUME NEW t \in Callers, JobSends(t) PROVE JobInv'
  BY <1>11, <1>7 DEF JobSends
<1>12. ASSUME NEW t \in Callers, NEW status \in Final, JobEnds(t, status) PROVE JobInv'
  BY <1>12, <1>7 DEF JobEnds
<1> QED
  BY <1>1, <1>2, <1>3, <1>4, <1>5, <1>6, <1>8, <1>9, <1>10, <1>11, <1>12
  DEF Next, Create, Scan, vars, EnergyRecovers

\* Every transfer gets at most one River job, whatever the passes of the
\* scanner, the calls and the restarts interleave.
THEOREM JobsAreUnique == Spec => []OneJobPerTransfer
<1>1. Init => JobInv
  BY DEF Init, JobInv, InUseOwned, RowsAreNew, NewHasNoJob, OneJobPerTransfer
<1>2. JobInv => OneJobPerTransfer
  BY DEF JobInv
<1> QED
  BY <1>1, <1>2, TypeCorrect, JobInvInductive, PTL DEF Spec

(***************************************************************************)
(* Addresses: the lock makes the check and the insert exclusive.           *)
(***************************************************************************)

\* At most one call is between the lock and its release.
LockOwned ==
    \A c, d \in Callers : Holds(c) => isLocked /\ (Holds(d) => c = d)

\* What the check of the address found is still so when the row is inserted.
CheckStays ==
    \A c \in Callers : (call[c] \in {"read", "checked"} /\ Request[c].kind # "utxo") => Occupying(c) = {}

AddressInv == LockOwned /\ CheckStays /\ AccountExclusive

\* The call that ends is the owner of the lock, and whoever it wakes does not
\* hold the lock yet.
LEMMA UnlockKeepsLock ==
    ASSUME TypeOK, LockOwned, NEW c \in Callers, Holds(c), Unlock(c)
    PROVE  /\ LockOwned'
           /\ \A d \in Callers : ~Holds(d)'
<1>1. \A d \in Callers : d # c => ~Holds(d)
  BY DEF LockOwned
<1>2. \A d \in Callers : call'[d] \in {call[d], "done", "wants"} /\ call'[c] = "done"
  BY DEF Unlock, TypeOK, Holds
<1>3. \A d \in Callers : ~Holds(d)'
  BY <1>1, <1>2 DEF Holds
<1> QED
  BY <1>3 DEF LockOwned

\* Sharing an address does not depend on the state and is symmetric.
LEMMA SharesSymmetric ==
    \A t, u \in Callers : Shares(t, u) => Shares(u, t) /\ ChainOf(t) = ChainOf(u)
BY DEF Shares

\* Transfers that do not share an address now do not share one once the set
\* of active transfers has not grown.
LEMMA FewerActive ==
    ASSUME AddressInv, Active' \subseteq Active, LockOwned',
           \A c \in Callers : call'[c] \in {"read", "checked"} => call[c] \in {"read", "checked"}
    PROVE  AddressInv'
<1>1. \A c \in Callers : Occupying(c)' \subseteq Occupying(c)
  BY DEF Occupying, Shares, ChainOf
<1>2. CheckStays'
  BY <1>1 DEF AddressInv, CheckStays
<1>3. AccountExclusive'
  BY DEF AddressInv, AccountExclusive, Shares, ChainOf
<1> QED
  BY <1>2, <1>3 DEF AddressInv

\* One step keeps the lock exclusive, the checks valid and the accounts apart.
LEMMA AddressInvInductive == TypeOK /\ JobInv /\ AddressInv /\ [Next]_vars => AddressInv'
<1> SUFFICES ASSUME TypeOK, JobInv, AddressInv, [Next]_vars PROVE AddressInv'
  OBVIOUS
<1>0. LockOwned
  BY DEF AddressInv
<1>1. CASE UNCHANGED <<callVars, transfer>>
  <2>1. Active' = Active /\ LockOwned'
    BY <1>0, <1>1 DEF Active, Rows, LockOwned, Holds, callVars
  <2> QED
    BY <1>1, <2>1, FewerActive DEF callVars
<1>2. ASSUME NEW c \in Callers, Call(c) \/ Refused(c) \/ Lock(c) PROVE AddressInv'
  <2>1. Active' = Active
    BY <1>2 DEF Call, Refused, Lock, Active, Rows
  <2>2. LockOwned'
    BY <1>0, <1>2 DEF Call, Refused, Lock, LockOwned, Holds, TypeOK
  <2>3. \A d \in Callers : call'[d] \in {"read", "checked"} => call[d] \in {"read", "checked"}
    BY <1>2 DEF Call, Refused, Lock, TypeOK
  <2> QED
    BY <2>1, <2>2, <2>3, FewerActive
<1>3. ASSUME NEW c \in Callers, CreateFails(c) PROVE AddressInv'
  <2>1. Active' = Active
    BY <1>3 DEF CreateFails, Active, Rows
  <2>2. LockOwned' /\ \A d \in Callers : ~Holds(d)'
    BY <1>0, <1>3, UnlockKeepsLock DEF CreateFails
  <2> QED
    BY <2>1, <2>2, FewerActive DEF Holds
<1>4. ASSUME NEW c \in Callers, CheckAddress(c) PROVE AddressInv'
  <2>1. Active' = Active /\ \A d \in Callers : Occupying(d)' = Occupying(d)
    BY <1>4 DEF CheckAddress, Active, Rows, Occupying, Shares, ChainOf
  <2>2. LockOwned'
    BY <1>0, <1>4 DEF CheckAddress, LockOwned, Holds, TypeOK
  <2>3. CheckStays'
    BY <1>4, <2>1 DEF CheckAddress, AddressIsFree, AddressInv, CheckStays, TypeOK
  <2>4. AccountExclusive'
    BY <2>1 DEF AddressInv, AccountExclusive, Shares, ChainOf
  <2> QED
    BY <2>2, <2>3, <2>4 DEF AddressInv
<1>5. ASSUME NEW c \in Callers, CheckResources(c) PROVE AddressInv'
  <2>1. Active' = Active
    BY <1>5 DEF CheckResources, Active, Rows
  <2>2. LockOwned'
    BY <1>0, <1>5 DEF CheckResources, LockOwned, Holds, TypeOK
  <2>3. \A d \in Callers : call'[d] \in {"read", "checked"} => call[d] \in {"read", "checked"}
    BY <1>5 DEF CheckResources, TypeOK
  <2> QED
    BY <2>1, <2>2, <2>3, FewerActive
<1>6. ASSUME NEW c \in Callers, Insert(c) PROVE AddressInv'
  <2>1. Active' \subseteq Active \cup {c}
    BY <1>6 DEF Insert, Active, Rows, TypeOK
  <2>2. LockOwned' /\ \A d \in Callers : ~Holds(d)'
    BY <1>0, <1>6, UnlockKeepsLock DEF Insert, Holds
  <2>3. CheckStays'
    BY <2>2 DEF CheckStays, Holds
  <2>4. Request[c].kind # "utxo" => \A t \in Active : ~Shares(c, t)
    BY <1>6 DEF Insert, AddressInv, CheckStays, Occupying
  <2>5. ASSUME NEW t \in Active', NEW u \in Active', t # u, Shares(t, u)
        PROVE  ChainOf(t) = "utxo"
    <3>1. t \in Callers /\ u \in Callers
      BY DEF Active, Rows
    <3>2. CASE t # c /\ u # c
      BY <2>1, <2>5, <3>2 DEF AddressInv, AccountExclusive
    <3>3. CASE t = c
      <4>1. Request[c].kind = "utxo"
        BY <2>1, <2>4, <2>5, <3>3
      <4> QED
        BY <3>3, <4>1 DEF ChainOf
    <3>4. CASE u = c
      <4>1. Shares(c, t) /\ ChainOf(t) = ChainOf(c)
        BY <2>5, <3>1, <3>4, SharesSymmetric
      <4>2. Request[c].kind = "utxo"
        BY <2>1, <2>4, <2>5, <3>4, <4>1
      <4> QED
        BY <4>1, <4>2 DEF ChainOf
    <3> QED
      BY <3>2, <3>3, <3>4
  <2>6. AccountExclusive'
    BY <2>5 DEF AccountExclusive, Shares, ChainOf
  <2> QED
    BY <2>2, <2>3, <2>6 DEF AddressInv
<1>7. ASSUME UNCHANGED callVars, Active' \subseteq Active PROVE AddressInv'
  BY <1>0, <1>7, FewerActive DEF callVars, LockOwned, Holds
<1>8. ASSUME NEW p \in Passes, ScanCommit(p) PROVE AddressInv'
  <2>1. \A t \in pass[p].rows : transfer[t] = "new"
    BY <1>8 DEF JobInv, RowsAreNew
  <2>2. Active' \subseteq Active
    BY <1>8, <2>1 DEF ScanCommit, Active, Rows, Final
  <2> QED
    BY <1>7, <1>8, <2>2 DEF ScanCommit
<1>9. ASSUME NEW t \in Callers, JobSends(t) \/ \E status \in Final : JobEnds(t, status)
      PROVE  AddressInv'
  <2>1. Active' \subseteq Active
    BY <1>9 DEF JobSends, JobEnds, Active, Rows, Final, TypeOK
  <2> QED
    BY <1>7, <1>9, <2>1 DEF JobSends, JobEnds
<1>10. CASE Restart
  <2>1. Active' = Active
    BY <1>10 DEF Restart, Active, Rows
  <2>2. \A d \in Callers : call'[d] \in {"idle", "done"}
    BY <1>10 DEF Restart
  <2>3. LockOwned'
    BY <2>2 DEF LockOwned, Holds
  <2> QED
    BY <2>1, <2>2, <2>3, FewerActive
<1>11. ASSUME NEW p \in Passes, ScanBegin(p) \/ ScanLoad(p) \/ ScanFails(p)
       PROVE  UNCHANGED <<callVars, transfer>>
  BY <1>11 DEF ScanBegin, ScanLoad, ScanFails
<1>12. ASSUME NEW t \in Callers, JobActivates(t) \/ JobDelegates(t) PROVE UNCHANGED <<callVars, transfer>>
  BY <1>12 DEF JobActivates, JobDelegates
<1> QED
  BY <1>1, <1>2, <1>3, <1>4, <1>5, <1>6, <1>8, <1>9, <1>10, <1>11, <1>12
  DEF Next, Create, Scan, vars, EnergyRecovers

\* Two transfers that spend from one account of an account-based chain are
\* never active together, for any number of concurrent calls of Create.
THEOREM AccountsAreExclusive == Spec => []AccountExclusive
<1>1. Init => JobInv /\ AddressInv
  BY DEF Init, JobInv, InUseOwned, RowsAreNew, NewHasNoJob, OneJobPerTransfer,
         AddressInv, LockOwned, CheckStays, AccountExclusive, Holds, Active, Rows
<1>2. AddressInv => AccountExclusive
  BY DEF AddressInv
<1> QED
  BY <1>1, <1>2, TypeCorrect, JobInvInductive, AddressInvInductive, PTL DEF Spec

(***************************************************************************)
(* Sums: what MapThenSumSet computes, by induction over finite sets.  The  *)
(* induction is over the strict subsets (WFMin), as the provers cannot     *)
(* instantiate the induction theorems of the library.                      *)
(***************************************************************************)

Needs == [t \in Callers |-> Request[t].need]

Resources(S) == ofKind(S, "resources")

\* The element that the fold takes out of a set first.
Picked(s) == CHOOSE x \in s : TRUE

\* f sums v over the sets of D, the way MapThenSumSet does.
SumsOver(f, v, D) == f = [s \in D |-> IF s = {} THEN 0 ELSE v[Picked(s)] + f[s \ {Picked(s)}]]

LEMMA PickedIn == \A s : s # {} => Picked(s) \in s
BY DEF Picked

\* Induction over the subsets of a finite set, in the form the provers can use.
LEMMA SetInduction ==
    ASSUME NEW S, IsFiniteSet(S), NEW Q \in SUBSET (SUBSET S),
           \A T \in SUBSET S : (\A U \in SUBSET T : U # T => U \in Q) => T \in Q
    PROVE  Q = SUBSET S
<1> DEFINE Bad == (SUBSET S) \ Q
<1>1. SUFFICES ASSUME Bad # {} PROVE FALSE
  OBVIOUS
<1>2. IsWellFoundedOn(StrictSubsetOrdering(S), SUBSET S)
  BY FS_StrictSubsetOrderingWellFounded, FS_FiniteSubsetsOfFinite
<1>3. PICK T \in Bad : \A U \in Bad : ~(<<U, T>> \in StrictSubsetOrdering(S))
  <2>1. Bad \subseteq SUBSET S /\ Bad # {}
    BY <1>1
  <2> HIDE DEF Bad
  <2> DEFINE R == StrictSubsetOrdering(S)
             D == SUBSET S
  <2>2. IsWellFoundedOn(R, D) /\ Bad \subseteq D
    BY <1>2, <2>1
  <2> HIDE DEF R, D
  <2>3. \E T \in Bad : \A U \in Bad : ~(<<U, T>> \in R)
    BY <2>1, <2>2, WFMin
  <2> QED
    BY <2>3 DEF R
<1>4. \A U \in SUBSET T : U # T => U \in Q
  BY <1>3 DEF StrictSubsetOrdering
<1> QED
  BY <1>3, <1>4

LEMMA Subsets ==
    ASSUME NEW s \in SUBSET Callers
    PROVE  /\ IsFiniteSet(s) /\ Cardinality(s) \in Nat /\ (Cardinality(s) = 0 <=> s = {})
           /\ Cardinality(s) =< Cardinality(Callers)
           /\ \A x \in s : Cardinality(s \ {x}) = Cardinality(s) - 1
           /\ Cardinality(Callers) \in Nat
BY RequestsAssumption, FS_Subset, FS_CardinalityType, FS_EmptySet, FS_RemoveElement

LEMMA SumExists == ASSUME NEW v \in [Callers -> Nat] PROVE \E f : SumsOver(f, v, SUBSET Callers)
<1> DEFINE K(n) == {s \in SUBSET Callers : Cardinality(s) =< n}
           Q == {T \in SUBSET Callers : \E f : SumsOver(f, v, K(Cardinality(T)))}
<1>1. {} \in Q
  <2>1. Cardinality({}) = 0
    BY FS_EmptySet
  <2>2. \A s \in K(0) : s = {}
    BY Subsets
  <2>3. SumsOver([s \in K(0) |-> 0], v, K(0))
    BY <2>2 DEF SumsOver
  <2> QED
    BY <2>1, <2>3
<1>2. ASSUME NEW T \in SUBSET Callers, NEW x \in T, T \ {x} \in Q PROVE T \in Q
  <2> DEFINE n == Cardinality(T \ {x})
  <2>1. n \in Nat /\ Cardinality(T) = n + 1
    BY Subsets
  <2>2. PICK f : SumsOver(f, v, K(n))
    BY <1>2
  <2> DEFINE g == [s \in K(n + 1) |-> IF s = {} THEN 0 ELSE v[Picked(s)] + f[s \ {Picked(s)}]]
  <2> HIDE DEF n
  <2>3. \A u \in K(n) : u \in K(n + 1) /\ g[u] = f[u]
    <3>1. \A u \in K(n) : u \in K(n + 1)
      BY <2>1, Subsets
    <3>2. \A u \in K(n) : f[u] = IF u = {} THEN 0 ELSE v[Picked(u)] + f[u \ {Picked(u)}]
      BY <2>2 DEF SumsOver
    <3> QED
      BY <3>1, <3>2
  <2>4. \A s \in K(n + 1) : s # {} => s \ {Picked(s)} \in K(n)
    BY <2>1, Subsets, PickedIn
  <2>5. SumsOver(g, v, K(n + 1))
    BY <2>3, <2>4 DEF SumsOver
  <2> QED
    BY <2>1, <2>5
<1>3. Q = SUBSET Callers
  <2> HIDE DEF Q
  <2>1. ASSUME NEW T \in SUBSET Callers, \A U \in SUBSET T : U # T => U \in Q PROVE T \in Q
    <3>1. CASE T = {}
      BY <1>1, <3>1
    <3>2. CASE T # {}
      <4>1. PICK x : x \in T
        BY <3>2
      <4>2. T \ {x} \in Q
        BY <2>1, <4>1
      <4> QED
        BY <1>2, <4>1, <4>2
    <3> QED
      BY <3>1, <3>2
  <2>2. Q \in SUBSET (SUBSET Callers)
    BY DEF Q
  <2> QED
    BY <2>1, <2>2, SetInduction, RequestsAssumption
<1>4. K(Cardinality(Callers)) = SUBSET Callers
  BY Subsets
<1> QED
  BY <1>3, <1>4

SumOf(v) == CHOOSE f : SumsOver(f, v, SUBSET Callers)

LEMMA SumOfIs ==
    ASSUME NEW v \in [Callers -> Nat]
    PROVE  /\ SumOf(v)[{}] = 0
           /\ \A s \in SUBSET Callers : s # {} => SumOf(v)[s] = v[Picked(s)] + SumOf(v)[s \ {Picked(s)}]
<1>1. SumsOver(SumOf(v), v, SUBSET Callers)
  BY SumExists DEF SumOf
<1>2. {} \in SUBSET Callers
  OBVIOUS
<1> QED
  BY <1>1, <1>2 DEF SumsOver

\* Functions that sum v over the subsets of R are the same function.
LEMMA SumIsOne ==
    ASSUME NEW v \in [Callers -> Nat], NEW R \in SUBSET Callers, NEW g, SumsOver(g, v, SUBSET R)
    PROVE  g[R] = SumOf(v)[R]
<1> DEFINE Q == {s \in SUBSET R : g[s] = SumOf(v)[s]}
<1>3. ASSUME NEW T \in SUBSET R, \A U \in SUBSET T : U # T => U \in Q PROVE T \in Q
  <2>1. g[T] = IF T = {} THEN 0 ELSE v[Picked(T)] + g[T \ {Picked(T)}]
    BY DEF SumsOver
  <2>2. CASE T = {}
    BY <2>1, <2>2, SumOfIs
  <2>3. CASE T # {}
    <3>1. T \ {Picked(T)} \in Q
      BY <1>3, <2>3, PickedIn
    <3>2. SumOf(v)[T] = v[Picked(T)] + SumOf(v)[T \ {Picked(T)}]
      BY <2>3, SumOfIs
    <3> QED
      BY <2>1, <2>3, <3>1, <3>2
  <2> QED
    BY <2>2, <2>3
<1>4. IsFiniteSet(R) /\ Q \in SUBSET (SUBSET R)
  BY Subsets
<1> HIDE DEF Q
<1>5. Q = SUBSET R
  BY <1>3, <1>4, SetInduction
<1> QED
  BY <1>5 DEF Q

\* The sum over all subsets, seen from the subsets of one of them.
LEMMA SumWithin ==
    ASSUME NEW v \in [Callers -> Nat], NEW R \in SUBSET Callers
    PROVE  SumsOver([s \in SUBSET R |-> SumOf(v)[s]], v, SUBSET R)
<1> DEFINE h == [s \in SUBSET R |-> SumOf(v)[s]]
<1>1. \A s \in SUBSET R : s # {} =>
            s \ {Picked(s)} \in SUBSET R /\ SumOf(v)[s] = v[Picked(s)] + SumOf(v)[s \ {Picked(s)}]
  BY SumOfIs
<1>2. \A s \in SUBSET R : h[s] = IF s = {} THEN 0 ELSE v[Picked(s)] + h[s \ {Picked(s)}]
  BY <1>1, SumOfIs
<1> QED
  BY <1>2 DEF SumsOver

\* The energy of a set is the same sum, as MapThenSumSet unfolds to it ...
LEMMA EnergyIsSum ==
    ASSUME NEW S \in SUBSET Callers PROVE Energy(S) = SumOf(Needs)[Resources(S)]
<1> DEFINE R == Resources(S)
           F(f) == f = [s \in SUBSET R |-> IF s = {} THEN 0 ELSE Request[Picked(s)].need + f[s \ {Picked(s)}]]
           g == CHOOSE f : F(f)
<1>0. R \in SUBSET Callers
  BY DEF Resources, ofKind
<1>1. Energy(S) = g[R]
  BY DEF Energy, MapThenSumSet, MapThenFoldSet, Resources, Picked
<1> HIDE DEF R
<1>2. ASSUME NEW f PROVE F(f) <=> SumsOver(f, Needs, SUBSET R)
  <2>1. ASSUME NEW s \in SUBSET R, s # {} PROVE Request[Picked(s)].need = Needs[Picked(s)]
    BY <1>0, <2>1, PickedIn DEF Needs
  <2>2. [s \in SUBSET R |-> IF s = {} THEN 0 ELSE Request[Picked(s)].need + f[s \ {Picked(s)}]]
        = [s \in SUBSET R |-> IF s = {} THEN 0 ELSE Needs[Picked(s)] + f[s \ {Picked(s)}]]
    BY <2>1
  <2> QED
    BY <2>2 DEF SumsOver
<1>3. Needs \in [Callers -> Nat]
  BY RequestType DEF Needs
<1>4. SumsOver(g, Needs, SUBSET R)
  BY <1>0, <1>2, <1>3, SumWithin
<1> HIDE DEF g
<1> QED
  BY <1>0, <1>1, <1>3, <1>4, SumIsOne DEF R

\* ... and what is delegated is one.
Sum(v) == MapThenSumSet(LAMBDA t : v[t], Callers)

LEMMA SumIsSum == ASSUME NEW v \in [Callers -> Nat] PROVE Sum(v) = SumOf(v)[Callers]
<1> DEFINE g == CHOOSE f : SumsOver(f, v, SUBSET Callers)
<1>1. Sum(v) = g[Callers]
  BY DEF Sum, MapThenSumSet, MapThenFoldSet, Picked, SumsOver
<1> QED
  BY <1>1 DEF SumOf

\* The sum does not depend on the order in which the elements are taken.
LEMMA SumWithout ==
    ASSUME NEW v \in [Callers -> Nat]
    PROVE  \A s \in SUBSET Callers : SumOf(v)[s] \in Nat /\ \A x \in s : SumOf(v)[s] = v[x] + SumOf(v)[s \ {x}]
<1> DEFINE Q == {s \in SUBSET Callers : SumOf(v)[s] \in Nat /\ \A x \in s : SumOf(v)[s] = v[x] + SumOf(v)[s \ {x}]}
<1>0. \A x \in Callers : v[x] \in Nat
  OBVIOUS
<1>1. ASSUME NEW T \in SUBSET Callers, \A U \in SUBSET T : U # T => U \in Q PROVE T \in Q
  <2>1. CASE T = {}
    BY <2>1, SumOfIs
  <2>2. CASE T # {}
    <3> DEFINE y == Picked(T)
    <3>1. y \in T /\ SumOf(v)[T] = v[y] + SumOf(v)[T \ {y}]
      BY <2>2, PickedIn, SumOfIs
    <3> HIDE DEF y
    <3>2. SumOf(v)[T \ {y}] \in Nat
      BY <1>1, <3>1
    <3>3. ASSUME NEW x \in T, x # y PROVE SumOf(v)[T] = v[x] + SumOf(v)[T \ {x}]
      <4>1. x \in T \ {y} /\ y \in T \ {x} /\ (T \ {y}) \ {x} = (T \ {x}) \ {y}
        BY <3>1, <3>3
      <4>2. T \ {y} \in Q /\ T \ {x} \in Q
        BY <1>1, <3>1, <3>3
      <4>3. (T \ {y}) \ {x} \in Q
        BY <1>1, <4>1
      <4>4. /\ SumOf(v)[T \ {y}] = v[x] + SumOf(v)[(T \ {y}) \ {x}]
            /\ SumOf(v)[T \ {x}] = v[y] + SumOf(v)[(T \ {x}) \ {y}]
            /\ SumOf(v)[(T \ {y}) \ {x}] \in Nat
        BY <4>1, <4>2, <4>3
      <4>5. v[x] \in Nat /\ v[y] \in Nat
        BY <1>0, <3>1, <3>3
      <4> QED
        BY <3>1, <4>1, <4>4, <4>5
    <3>4. SumOf(v)[T] \in Nat
      BY <1>0, <3>1, <3>2
    <3>5. \A x \in T : SumOf(v)[T] = v[x] + SumOf(v)[T \ {x}]
      BY <3>1, <3>3
    <3> QED
      BY <3>4, <3>5
  <2> QED
    BY <2>1, <2>2
<1>2. Q \in SUBSET (SUBSET Callers)
  OBVIOUS
<1> HIDE DEF Q
<1>3. Q = SUBSET Callers
  BY <1>1, <1>2, SetInduction, RequestsAssumption
<1> QED
  BY <1>3 DEF Q

\* What a transfer needs is to be delegated for it.
Promised(t) == Request[t].kind = "resources" /\ ~Request[t].own

\* What the proofs below use of the energy.
LEMMA EnergyFacts ==
    ASSUME NEW S \in SUBSET Callers
    PROVE  /\ Energy(S) \in Nat
           /\ \A x \in S : Energy(S) =
                IF Promised(x) THEN Request[x].need + Energy(S \ {x}) ELSE Energy(S \ {x})
<1>0. Needs \in [Callers -> Nat]
  BY RequestType DEF Needs
<1>1. Resources(S) \in SUBSET Callers
  BY DEF Resources, ofKind
<1>2. Energy(S) \in Nat
  BY <1>0, <1>1, EnergyIsSum, SumWithout
<1>3. ASSUME NEW x \in S, Promised(x) PROVE Energy(S) = Request[x].need + Energy(S \ {x})
  <2>1. x \in Resources(S) /\ Resources(S \ {x}) = Resources(S) \ {x}
    BY <1>3 DEF Resources, ofKind, Promised
  <2>2. Needs[x] = Request[x].need
    BY DEF Needs
  <2>3. SumOf(Needs)[Resources(S)] = Needs[x] + SumOf(Needs)[Resources(S) \ {x}]
    BY <1>0, <1>1, <2>1, SumWithout
  <2> QED
    BY <2>1, <2>2, <2>3, EnergyIsSum
<1>4. ASSUME NEW x \in S, ~Promised(x) PROVE Energy(S) = Energy(S \ {x})
  <2>1. Resources(S \ {x}) = Resources(S)
    <3>1. \A y : y \in Resources(S \ {x}) <=> y \in Resources(S)
      BY <1>4 DEF Resources, ofKind, Promised
    <3> QED
      BY <3>1
  <2> QED
    BY <2>1, EnergyIsSum
<1> QED
  BY <1>2, <1>3, <1>4

\* One caller's summand changes the sum by as much.
LEMMA SumStep ==
    ASSUME NEW v \in [Callers -> Nat], NEW t \in Callers, NEW n \in Nat
    PROVE  Sum(v) \in Nat /\ v[t] =< Sum(v) /\ Sum([v EXCEPT ![t] = n]) = Sum(v) - v[t] + n
<1> DEFINE w == [v EXCEPT ![t] = n]
           R == Callers \ {t}
           h == [s \in SUBSET R |-> SumOf(w)[s]]
<1>1. w \in [Callers -> Nat] /\ w[t] = n /\ R \in SUBSET Callers /\ \A x \in R : w[x] = v[x]
  OBVIOUS
<1>2. SumsOver(h, v, SUBSET R)
  <2>1. SumsOver(h, w, SUBSET R)
    BY <1>1, SumWithin
  <2>2. \A s \in SUBSET R : s # {} => w[Picked(s)] = v[Picked(s)]
    BY <1>1, PickedIn
  <2> HIDE DEF h, w
  <2>3. [s \in SUBSET R |-> IF s = {} THEN 0 ELSE w[Picked(s)] + h[s \ {Picked(s)}]]
        = [s \in SUBSET R |-> IF s = {} THEN 0 ELSE v[Picked(s)] + h[s \ {Picked(s)}]]
    BY <2>2
  <2> QED
    BY <2>1, <2>3 DEF SumsOver
<1>3. SumOf(w)[R] = SumOf(v)[R]
  <2>1. h[R] = SumOf(v)[R]
    BY <1>1, <1>2, SumIsOne
  <2> QED
    BY <2>1
<1> HIDE DEF w, h, R
<1>4. /\ SumOf(v)[Callers] = v[t] + SumOf(v)[R] /\ SumOf(w)[Callers] = n + SumOf(w)[R]
      /\ SumOf(v)[R] \in Nat /\ v[t] \in Nat
  BY <1>1, SumWithout DEF R
<1>5. Sum(v) = SumOf(v)[Callers] /\ Sum(w) = SumOf(w)[Callers]
  BY <1>1, SumIsSum
<1>6. Sum(v) \in Nat /\ v[t] =< Sum(v) /\ Sum(w) = Sum(v) - v[t] + n
  BY <1>3, <1>4, <1>5
<1> QED
  BY <1>6 DEF w

LEMMA NothingNeedsNothing == Energy({}) = 0
<1>1. {} \in SUBSET Callers /\ Resources({}) = {}
  BY DEF Resources, ofKind
<1>2. Needs \in [Callers -> Nat]
  BY RequestType DEF Needs
<1> QED
  BY <1>1, <1>2, EnergyIsSum, SumOfIs

\* The energy of a set is that of a part and of the rest.
LEMMA EnergyOfParts ==
    ASSUME NEW S \in SUBSET Callers, NEW T \in SUBSET S
    PROVE  Energy(S) = Energy(S \ T) + Energy(T) /\ Energy(T) =< Energy(S)
<1> DEFINE Q == {U \in SUBSET S : Energy(S) = Energy(S \ U) + Energy(U)}
<1>0. \A U \in SUBSET S : U \in SUBSET Callers /\ Energy(U) \in Nat /\ Energy(S \ U) \in Nat
  BY EnergyFacts
<1>1. ASSUME NEW U \in SUBSET S, \A V \in SUBSET U : V # U => V \in Q PROVE U \in Q
  <2>1. CASE U = {}
    <3>1. Energy({}) = 0
      BY NothingNeedsNothing
    <3>2. S \ U = S /\ Energy(S) \in Nat
      BY <2>1, EnergyFacts
    <3> QED
      BY <2>1, <3>1, <3>2
  <2>2. CASE U # {}
    <3>1. PICK x : x \in U
      BY <2>2
    <3>2. Energy(S) = Energy(S \ (U \ {x})) + Energy(U \ {x})
      BY <1>1, <3>1
    <3>3. (S \ (U \ {x})) \ {x} = S \ U /\ x \in S \ (U \ {x}) /\ U \ {x} \in SUBSET S
      BY <3>1
    <3>4. Energy(S \ (U \ {x})) = IF Promised(x) THEN Request[x].need + Energy(S \ U) ELSE Energy(S \ U)
      BY <3>3, EnergyFacts
    <3>5. Energy(U) = IF Promised(x) THEN Request[x].need + Energy(U \ {x}) ELSE Energy(U \ {x})
      BY <1>0, <3>1, EnergyFacts
    <3>6. Request[x].need \in Nat /\ Energy(U \ {x}) \in Nat /\ Energy(S \ U) \in Nat
      BY <1>0, <3>1, <3>3, RequestType
    <3> QED
      BY <3>2, <3>4, <3>5, <3>6
  <2> QED
    BY <2>1, <2>2
<1>2. Q \in SUBSET (SUBSET S) /\ IsFiniteSet(S)
  BY Subsets
<1> HIDE DEF Q
<1>3. T \in Q
  BY <1>1, <1>2, SetInduction
<1> QED
  BY <1>0, <1>3 DEF Q

(***************************************************************************)
(* Energy: what was read under the lock is enough when the row is inserted *)
(***************************************************************************)

\* Nothing of the wallet's energy disappears, so what Create has read bounds what
\* the active transfers need, those that have delegated already included.  The lock
\* keeps the bound of a request that passed the check until its row is inserted.
EnergyInv ==
    /\ delegated \subseteq Active
    /\ energy + used + Outstanding = TotalEnergy
    /\ \A c \in Callers : seen[c] =< TotalEnergy
    /\ Energy(Active) =< TotalEnergy
    /\ \A c \in Callers :
            (call[c] = "checked" /\ Promised(c)) => Energy(Active) + Request[c].need =< TotalEnergy

\* What is delegated is a sum over the callers.
LEMMA OutstandingIs ==
    ASSUME TypeOK
    PROVE  Outstanding \in Nat /\ Outstanding = Sum(amount) /\ Outstanding' = Sum(amount')
<1>1. Outstanding = Sum(amount) /\ Outstanding' = Sum(amount')
  BY DEF Outstanding, Sum, MapThenSumSet, MapThenFoldSet
<1>2. SumOf(amount)[Callers] \in Nat
  BY SumWithout DEF TypeOK
<1> QED
  BY <1>1, <1>2, SumIsSum DEF TypeOK

\* At first nothing is delegated.
LEMMA NothingIsOutstanding == ASSUME amount = [c \in Callers |-> 0] PROVE Outstanding = 0
<1> DEFINE v == [c \in Callers |-> 0]
           h == [s \in SUBSET Callers |-> 0]
<1>1. v \in [Callers -> Nat] /\ Callers \in SUBSET Callers
  OBVIOUS
<1>2. \A s \in SUBSET Callers : s # {} => v[Picked(s)] = 0 /\ s \ {Picked(s)} \in SUBSET Callers
  BY PickedIn
<1>3. SumsOver(h, v, SUBSET Callers)
  BY <1>2 DEF SumsOver
<1>4. h[Callers] = SumOf(v)[Callers]
  BY <1>1, <1>3, SumIsOne
<1>5. Outstanding = Sum(v)
  BY DEF Outstanding, Sum, MapThenSumSet, MapThenFoldSet
<1> QED
  BY <1>1, <1>4, <1>5, SumIsSum

\* The energy of one transfer that is delegated, or not any more.
LEMMA OutstandingStep ==
    ASSUME TypeOK, NEW t \in Callers, NEW n \in Nat, amount' = [amount EXCEPT ![t] = n]
    PROVE  Outstanding' = Outstanding - amount[t] + n
<1>1. amount \in [Callers -> Nat]
  BY DEF TypeOK
<1>2. Sum([amount EXCEPT ![t] = n]) = Sum(amount) - amount[t] + n
  BY <1>1, SumStep
<1> QED
  BY <1>2, OutstandingIs

\* The transfers that are active may become fewer without hurting the bounds.
LEMMA FewerNeedLess ==
    ASSUME EnergyInv, TypeOK, Active' \subseteq Active,
           \A c \in Callers : call'[c] = "checked" => call[c] = "checked",
           delegated' \subseteq Active', \A c \in Callers : seen'[c] =< TotalEnergy,
           energy' + used' + Outstanding' = TotalEnergy
    PROVE  EnergyInv'
<1>0. Active \in SUBSET Callers /\ Active' \in SUBSET Active
  BY DEF Active, Rows
<1>1. Energy(Active') =< Energy(Active) /\ Energy(Active') \in Nat /\ Energy(Active) \in Nat
  BY <1>0, EnergyOfParts, EnergyFacts
<1>2. Energy(Active') =< TotalEnergy
  BY <1>1, RequestsAssumption DEF EnergyInv
<1>3. \A c \in Callers : (call'[c] = "checked" /\ Promised(c)) =>
            Energy(Active') + Request[c].need =< TotalEnergy
  BY <1>1, RequestType, RequestsAssumption DEF EnergyInv
<1>4. (Energy(Active))' = Energy(Active') /\ \A c \in Callers : Promised(c)' = Promised(c)
  BY DEF Promised
<1> QED
  BY <1>2, <1>3, <1>4 DEF EnergyInv

LEMMA EnergyInvInductive ==
    TypeOK /\ JobInv /\ AddressInv /\ EnergyInv /\ [Next]_vars => EnergyInv'
<1> SUFFICES ASSUME TypeOK, JobInv, AddressInv, EnergyInv, [Next]_vars PROVE EnergyInv'
  OBVIOUS
<1> DEFINE Same == UNCHANGED energyVars
           SeenStays == \A d \in Callers : seen'[d] \in {0, seen[d]}
<1>0. /\ Active \in SUBSET Callers /\ delegated \in SUBSET Active
      /\ Energy(Active) \in Nat /\ Outstanding \in Nat /\ TotalEnergy \in Nat
      /\ energy \in Nat /\ used \in Nat /\ amount \in [Callers -> Nat]
      /\ energy + used + Outstanding = TotalEnergy /\ energy =< TotalEnergy
      /\ \A c \in Callers : seen[c] =< TotalEnergy
      /\ \A c \in Callers : Promised(c)' = Promised(c)
  <2>1. Active \in SUBSET Callers /\ delegated \in SUBSET Active
    BY DEF Active, Rows, EnergyInv
  <2>2. Outstanding \in Nat /\ energy \in Nat /\ used \in Nat
    BY OutstandingIs DEF TypeOK
  <2>3. energy =< TotalEnergy
    BY <2>2 DEF EnergyInv
  <2>4. \A c \in Callers : Promised(c)' = Promised(c)
    BY DEF Promised
  <2> QED
    BY <2>1, <2>2, <2>3, <2>4, EnergyFacts, RequestsAssumption DEF TypeOK, EnergyInv
<1>00. ASSUME UNCHANGED amount PROVE Outstanding' = Outstanding
  BY <1>00, OutstandingIs
<1>1. ASSUME Same, SeenStays, Active' = Active,
             \A c \in Callers : call'[c] = "checked" => call[c] = "checked"
      PROVE  EnergyInv'
  <2>1. \A d \in Callers : seen'[d] =< TotalEnergy
    BY <1>0, <1>1
  <2>2. energy' + used' + Outstanding' = TotalEnergy
    BY <1>0, <1>00, <1>1 DEF energyVars
  <2> QED
    BY <1>0, <1>1, <2>1, <2>2, FewerNeedLess DEF energyVars
<1>2. ASSUME NEW c \in Callers, Call(c) \/ Refused(c) \/ Lock(c) PROVE EnergyInv'
  <2>1. Same /\ SeenStays /\ Active' = Active /\ \A d \in Callers : call'[d] = "checked" => call[d] = "checked"
    BY <1>2 DEF Call, Refused, Lock, Active, Rows, TypeOK
  <2> QED
    BY <1>1, <2>1
<1>3. ASSUME NEW c \in Callers, CreateFails(c) PROVE EnergyInv'
  <2>1. Same /\ Active' = Active /\ \A d \in Callers : call'[d] = "checked" => call[d] = "checked"
    BY <1>3, UnlockKeepsLock DEF CreateFails, Active, Rows, AddressInv, Holds
  <2>2. SeenStays
    BY <1>3 DEF CreateFails, TypeOK
  <2> QED
    BY <1>1, <2>1, <2>2
<1>4. ASSUME NEW c \in Callers, CheckAddress(c) PROVE EnergyInv'
  <2>1. Active' = Active /\ UNCHANGED <<delegated, energy, used, amount>>
    BY <1>4 DEF CheckAddress, Active, Rows, energyVars
  <2>2. \A d \in Callers : seen'[d] =< TotalEnergy
    BY <1>0, <1>4 DEF CheckAddress, TypeOK
  <2>3. \A d \in Callers : call'[d] = "checked" => call[d] = "checked"
    BY <1>4 DEF CheckAddress, TypeOK
  <2>4. energy' + used' + Outstanding' = TotalEnergy
    BY <1>0, <1>00, <2>1
  <2> QED
    BY <1>0, <2>1, <2>2, <2>3, <2>4, FewerNeedLess
<1>5. ASSUME NEW c \in Callers, CheckResources(c) PROVE EnergyInv'
  <2>1. Active' = Active /\ UNCHANGED <<delegated, energy, used, amount>>
    BY <1>5 DEF CheckResources, Active, Rows, energyVars
  <2>2. (Energy(Active))' = Energy(Active) /\ Outstanding' = Outstanding
    BY <1>00, <2>1
  <2>3. ASSUME Promised(c) PROVE Energy(Active) + Request[c].need =< TotalEnergy
    <3>1. seen[c] - Energy(Active) >= Request[c].need
      BY <1>5, <2>3 DEF CheckResources, EnergySuffices, ResourcesSuffice, Promised
    <3>2. seen[c] \in Nat /\ Request[c].need \in Nat
      BY RequestType DEF TypeOK
    <3> QED
      BY <1>0, <3>1, <3>2
  <2>4. \A d \in Callers : call'[d] = "checked" => call[d] = "checked" \/ d = c
    BY <1>5 DEF CheckResources, TypeOK
  <2>5. \A d \in Callers : seen'[d] =< TotalEnergy
    BY <1>0, <1>5 DEF CheckResources, TypeOK
  <2> QED
    BY <1>0, <2>1, <2>2, <2>3, <2>4, <2>5 DEF EnergyInv
<1>6. ASSUME NEW c \in Callers, Insert(c) PROVE EnergyInv'
  <2>1. Same /\ SeenStays /\ \A d \in Callers : call'[d] # "checked"
    BY <1>6, UnlockKeepsLock DEF Insert, AddressInv, Holds
  <2>2. CASE transfer' = transfer
    <3>1. Active' = Active
      BY <2>2 DEF Active, Rows
    <3> QED
      BY <1>1, <2>1, <3>1
  <2>3. CASE transfer' # transfer
    <3>1. c \notin Active /\ Active' = Active \cup {c}
      BY <1>6, <2>3 DEF Insert, Active, Rows, TypeOK, Final
    <3>2. Active \cup {c} \in SUBSET Callers /\ (Active \cup {c}) \ {c} = Active
      BY <1>0, <3>1
    <3>3. Energy(Active \cup {c}) = IF Promised(c) THEN Request[c].need + Energy(Active) ELSE Energy(Active)
      BY <3>2, EnergyFacts
    <3>4. Energy(Active') =< TotalEnergy
      <4>1. call[c] = "checked" /\ Request[c].need \in Nat
        BY <1>6, RequestType DEF Insert
      <4> QED
        BY <1>0, <3>1, <3>3, <4>1 DEF EnergyInv
    <3>5. (Energy(Active))' = Energy(Active') /\ Outstanding' = Outstanding
      BY <1>00, <2>1 DEF energyVars
    <3>6. \A d \in Callers : seen'[d] =< TotalEnergy
      BY <1>0, <2>1
    <3> QED
      BY <1>0, <2>1, <3>1, <3>4, <3>5, <3>6 DEF EnergyInv, energyVars
  <2> QED
    BY <2>2, <2>3
<1>7. ASSUME NEW p \in Passes, ScanBegin(p) \/ ScanLoad(p) \/ ScanFails(p) PROVE EnergyInv'
  <2>1. Same /\ SeenStays /\ Active' = Active /\ UNCHANGED call
    BY <1>7 DEF ScanBegin, ScanLoad, ScanFails, Active, Rows, callVars
  <2> QED
    BY <1>1, <2>1
<1>8. ASSUME NEW p \in Passes, ScanCommit(p) PROVE EnergyInv'
  <2>1. \A t \in pass[p].rows : transfer[t] = "new"
    BY <1>8 DEF JobInv, RowsAreNew
  <2>2. Active' = Active
    BY <1>8, <2>1 DEF ScanCommit, Active, Rows, Final, TypeOK
  <2> QED
    BY <1>1, <1>8, <2>2 DEF ScanCommit, callVars
<1>9. ASSUME NEW t \in Callers, JobActivates(t) PROVE EnergyInv'
  <2>1. UNCHANGED <<call, seen, delegated, amount>> /\ Active' = Active
    BY <1>9 DEF JobActivates, Active, Rows, callVars
  <2>2. energy' + used' = energy + used
    BY <1>9, EnergyMoves DEF JobActivates, TypeOK
  <2>3. energy' + used' + Outstanding' = TotalEnergy
    BY <1>0, <1>00, <2>1, <2>2
  <2> QED
    BY <1>0, <2>1, <2>3, FewerNeedLess
<1>10. ASSUME NEW t \in Callers, JobDelegates(t) PROVE EnergyInv'
  <2>1. /\ Active' = Active /\ UNCHANGED <<call, seen, used>> /\ t \in Active
        /\ delegated' = delegated \cup {t}
    BY <1>10 DEF JobDelegates, Active, Rows, callVars, Final
  <2>2. PICK need \in 0..energy : energy' = energy - need /\ amount' = [amount EXCEPT ![t] = @ + need]
    BY <1>10 DEF JobDelegates
  <2>3. /\ amount[t] \in Nat /\ need \in Nat /\ amount[t] + need \in Nat
        /\ amount' = [amount EXCEPT ![t] = amount[t] + need]
    BY <1>0, <2>2
  <2>4. Outstanding' = Outstanding - amount[t] + (amount[t] + need)
    BY <2>3, OutstandingStep
  <2>5. energy' + used' + Outstanding' = TotalEnergy
    BY <1>0, <2>1, <2>2, <2>3, <2>4
  <2> QED
    BY <1>0, <2>1, <2>5, FewerNeedLess
<1>11. ASSUME NEW t \in Callers, JobSends(t) PROVE EnergyInv'
  <2>1. Active' = Active
    BY <1>11 DEF JobSends, Active, Rows, Final, TypeOK
  <2>2. UNCHANGED <<call, seen, delegated, amount>>
    BY <1>11 DEF JobSends, callVars
  <2>3. energy' + used' = energy + used
    BY <1>11, EnergyMoves DEF JobSends, TypeOK
  <2>4. energy' + used' + Outstanding' = TotalEnergy
    BY <1>0, <1>00, <2>2, <2>3
  <2> QED
    BY <1>0, <2>1, <2>2, <2>4, FewerNeedLess
<1>12. ASSUME NEW t \in Callers, NEW status \in Final, JobEnds(t, status) PROVE EnergyInv'
  <2>1. Active' = Active \ {t} /\ delegated' = delegated \ {t} /\ UNCHANGED <<call, seen>>
    BY <1>12 DEF JobEnds, Active, Rows, Final, TypeOK, callVars
  <2>2. energy' + used' + Outstanding' = TotalEnergy
    <3>1. CASE UNCHANGED <<energy, amount, used>>
      BY <1>0, <1>00, <3>1
    <3>2. CASE /\ amount' = [amount EXCEPT ![t] = 0]
               /\ \E e \in 0..amount[t] : energy' = energy + (amount[t] - e) /\ used' = used + e
      <4>1. Outstanding' = Outstanding - amount[t] + 0
        BY <3>2, OutstandingStep
      <4> QED
        BY <1>0, <3>2, <4>1
    <3> QED
      BY <1>12, <3>1, <3>2 DEF JobEnds, Reclaim
  <2> QED
    BY <1>0, <2>1, <2>2, FewerNeedLess
<1>15. CASE EnergyRecovers
  <2>1. Active' = Active /\ UNCHANGED <<call, seen, delegated, amount>> /\ used' = used - 1 /\ energy' = energy + 1
    BY <1>15 DEF EnergyRecovers, Active, Rows, callVars
  <2>2. energy' + used' + Outstanding' = TotalEnergy
    BY <1>0, <1>00, <2>1
  <2> QED
    BY <1>0, <2>1, <2>2, FewerNeedLess
<1>13. CASE Restart
  <2>1. Same /\ Active' = Active /\ \A d \in Callers : call'[d] = "checked" => call[d] = "checked"
    BY <1>13 DEF Restart, Active, Rows
  <2>2. SeenStays
    BY <1>13 DEF Restart
  <2> QED
    BY <1>1, <2>1, <2>2
<1>14. CASE UNCHANGED vars
  <2>1. Same /\ SeenStays /\ Active' = Active /\ UNCHANGED call
    BY <1>14 DEF vars, callVars, Active, Rows
  <2> QED
    BY <1>1, <2>1
<1> QED
  BY <1>2, <1>3, <1>4, <1>5, <1>6, <1>7, <1>8, <1>9, <1>10, <1>11, <1>12, <1>13, <1>14, <1>15 DEF Next, Create, Scan

\* The energy promised to accepted transfers is there when they delegate it, whatever
\* is delegated, activated, reclaimed or recovered between processResources and the
\* insert of the row, but for what was used or is delegated beyond the promises.
THEOREM EnergyIsThere == Spec => []EnergyNotOvercommitted
<1>1. Init => JobInv /\ AddressInv
  BY DEF Init, JobInv, InUseOwned, RowsAreNew, NewHasNoJob, OneJobPerTransfer,
         AddressInv, LockOwned, CheckStays, AccountExclusive, Holds, Active, Rows
<1>2. Init => EnergyInv
  <2> SUFFICES ASSUME Init PROVE EnergyInv
    OBVIOUS
  <2>1. Active = {} /\ delegated = {}
    BY DEF Init, Active, Rows
  <2>2. Energy({}) = 0
    BY NothingNeedsNothing
  <2>3. Outstanding = 0
    BY NothingIsOutstanding DEF Init
  <2>4. energy = TotalEnergy /\ used = 0 /\ \A c \in Callers : seen[c] = 0 /\ call[c] # "checked"
    BY DEF Init
  <2> QED
    BY <2>1, <2>2, <2>3, <2>4, RequestsAssumption DEF EnergyInv
<1>3. TypeOK /\ EnergyInv => EnergyNotOvercommitted
  <2> SUFFICES ASSUME TypeOK, EnergyInv PROVE EnergyNotOvercommitted
    OBVIOUS
  <2>1. Active \in SUBSET Callers /\ delegated \in SUBSET Active
    BY DEF Active, Rows, EnergyInv
  <2>2. Energy(Active) = Energy(Active \ delegated) + Energy(delegated)
    BY <2>1, EnergyOfParts
  <2>3. Energy(Active \ delegated) \in Nat /\ Energy(delegated) \in Nat /\ Outstanding \in Nat
    BY <2>1, EnergyFacts, OutstandingIs
  <2> QED
    BY <2>2, <2>3, RequestsAssumption DEF EnergyInv, EnergyNotOvercommitted, Excess, TypeOK
<1> QED
  BY <1>1, <1>2, <1>3, TypeCorrect, JobInvInductive, AddressInvInductive, EnergyInvInductive, PTL DEF Spec

=============================================================================
