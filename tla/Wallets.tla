------------------------------ MODULE Wallets ------------------------------
(***************************************************************************)
(* The wallets of internal/services/wallets: the tables of hot, processing *)
(* and cold wallets, the calls that fill them, and the cache that answers  *)
(* CheckWallet for the block scanner and the watcher.                      *)
(*                                                                         *)
(* A call runs as a sequence of database statements between which other    *)
(* calls run.  What is written outside a transaction is visible at once;   *)
(* what is written inside one waits in rows and gone of its call until the *)
(* transaction commits.  The cache is not part of any transaction.         *)
(***************************************************************************)
EXTENDS Integers, FiniteSets, FiniteSetsExt, UtxoTx

CONSTANTS
    Owner,            \* ids of owners
    Seed,             \* the mnemonic and passphrase of an owner; two may share one
    Blockchain,       \* the enabled chains
    Existing,         \* owners that exist when the service starts
    Upgraded,         \* chains for which existing owners have no processing wallet yet
    External,         \* external wallet ids
    WalletType,       \* address types that callers ask for, on Bitcoin and Litecoin
    ColdAddress,      \* addresses that owners attach as cold wallets
    Request,          \* calls in flight, each used once
    Pass,             \* goroutines of the ticker that may be inside cacherHandler
    MaxFaults         \* bound: statements and transactions that fail

ASSUME WalletsAssumption ==
    /\ Blockchain \subseteq AllBlockchains /\ Upgraded \subseteq Blockchain
    /\ Existing \subseteq Owner
    /\ WalletType \subseteq {"UNSPECIFIED", "P2SH", "P2PKH", "SEGWIT", "P2TR"}
    /\ MaxFaults \in Nat

\* What an earlier run has left.  Every owner has the wallets of the chains that
\* were enabled then, one of which still is; and no two have one seed, for the
\* calls that made them are not part of the model, and only two of them that ran
\* at the same time can let one seed in twice.
ASSUME ExistingAssumption ==
    /\ Existing # {} => Upgraded # Blockchain
    /\ \A o, q \in Existing : Seed[o] = Seed[q] => o = q

VARIABLES
    owners,           \* table owners: ids
    hot,              \* table hot_wallets; is_active is always true
    processing,       \* table processing_wallets
    cold,             \* table cold_wallets
    cache,            \* the three caches, each a function from keys to wallets
    ready,            \* cacheReady is closed
    call,             \* the state of each call
    checked,          \* checkNotCreatedWallets has begun, which Start calls once
    part,             \* the passes of the cacher
    overlap,          \* history: pairs of calls that ran at the same time
    loaded,           \* history: keys that a pass has stored
    still,            \* history: nothing but the cacher has written since its last Find
    faults

tables == <<owners, hot, processing, cold>>
cacher == <<part, ready, loaded>>
begun == <<overlap, checked>>
vars == <<tables, cache, call, cacher, still, begun, faults>>

Kind == {"hot", "processing", "cold"}

\* is_dirty and is_activated are columns of hot wallets only.  by is history:
\* the call that made the row.
HotRow(o, b, a, n, e, r) ==
    [owner |-> o, chain |-> b, address |-> a, seq |-> n, ext |-> e,
     dirty |-> FALSE, activated |-> FALSE, by |-> r]

ProcessingRow(o, b, a, n, r) ==
    [owner |-> o, chain |-> b, address |-> a, seq |-> n, by |-> r]

ColdRow(o, b, a, r) == [owner |-> o, chain |-> b, address |-> a, by |-> r]

cacherKey(b, a) == <<b, a>>

KeyOf(w) == cacherKey(w.chain, w.address)

Table(k) ==
    CASE k = "hot" -> hot [] k = "processing" -> processing [] k = "cold" -> cold

Idle == [kind |-> "none", pc |-> "idle"]

Done == [kind |-> "none", pc |-> "done"]

Running(r) == call[r].pc \notin {"idle", "done"}

Quiet == [pc |-> "idle"]

\* AddressTypeByBlockchain: the type of processing addresses.
AddressTypeByBlockchain(b) == IF b \in Typed THEN "P2WPKH" ELSE ""

\* The start of the service after an upgrade that added the chains Upgraded.
Init ==
    /\ owners = Existing
    /\ hot = {} /\ cold = {}
    /\ processing =
         {ProcessingRow(o, b, AddressWallet(b, AddressTypeByBlockchain(b), Seed[o], 0), 0, "init") :
            o \in Existing, b \in Blockchain \ Upgraded}
    /\ cache = [k \in Kind |-> <<>>]
    /\ ready = FALSE
    /\ call = [r \in Request |-> Idle]
    /\ part = [p \in Pass |-> Quiet]
    /\ overlap = {} /\ checked = FALSE
    /\ loaded = {} /\ still = FALSE
    /\ faults = MaxFaults

(***************************************************************************)
(* Queries                                                                 *)
(***************************************************************************)

\* Find of the three repositories.
FindHot(o, b) == {w \in hot : w.owner = o /\ w.chain = b}

FindProcessing(o, b) == {w \in processing : w.owner = o /\ w.chain = b}

FindCold(o, b) == {w \in cold : w.owner = o /\ w.chain = b}

\* What CreateOwnerHotWallet finds and may return: a wallet that is not dirty.
FindExisting(o, b, e) == {w \in FindHot(o, b) : w.ext = e /\ ~w.dirty}

\* Mutant of MaxSequence: hot wallets count for themselves.
MaxHotSequence(o, b) == Max({-1} \cup {w.seq : w \in FindHot(o, b)})

\* MaxSequence of the hot and the processing wallets, -1 when there is none.
MaxSequence(o, b) == Max({-1} \cup {w.seq : w \in FindHot(o, b) \cup FindProcessing(o, b)})

\* FindEVMByExternalID: the wallets with the highest sequence, one of which
\* comes first.
FindEVMByExternalID(o, e) ==
    LET S == {w \in hot : w.owner = o /\ w.ext = e /\ w.chain \in EVMBlockchains}
    IN  {w \in S : \A v \in S : v.seq <= w.seq}

IsTakenByAnotherOwner(o, a) == \E w \in processing : w.owner # o /\ w.address = a

\* The unique indexes on owner, address and chain.
Taken(table, w) ==
    \E v \in table : v.owner = w.owner /\ v.address = w.address /\ v.chain = w.chain

\* GetAllNotCreatedWallets
GetAllNotCreatedWallets == {x \in owners \X Blockchain : FindProcessing(x[1], x[2]) = {}}

\* GetByBlockchainAndAddress of the three repositories: any of several rows.
HotByAddress(b, a) == {w \in hot : w.chain = b /\ w.address = a}

ProcessingByAddress(b, a) == {w \in processing : w.chain = b /\ w.address = a}

ColdByAddress(b, a) == {w \in cold : w.chain = b /\ w.address = a}

\* GetSequenceByWalletType: the sequence with which the transfers derive the key
\* of an address again.
GetSequenceByWalletType(k, o, b, a) ==
    LET w == CHOOSE v \in Table(k) : v.owner = o /\ v.chain = b /\ v.address = a
    IN  w.seq

(***************************************************************************)
(* Keys: the wallets of an owner, with the keys derived from their rows.   *)
(***************************************************************************)

PrivateKeysItem(w) ==
    [address |-> w.address,
     public  |-> AddressPublic(w.chain, w.address, Seed[w.owner], w.seq),
     private |-> AddressSecret(w.chain, w.address, Seed[w.owner], w.seq)]

\* HotWallets.GetAllPrivateKeys
HotPrivateKeys(o) == {PrivateKeysItem(w) : w \in {v \in hot : v.owner = o}}

\* HotWallets.GetPrivateKeysByIDs, by address on whichever chain.
HotPrivateKeysByIDs(o, A) ==
    {PrivateKeysItem(w) : w \in {v \in hot : v.owner = o /\ v.address \in A}}

\* ProcessingWallets.GetAllPrivateKeys
ProcessingPrivateKeys(o) == {PrivateKeysItem(w) : w \in {v \in processing : v.owner = o}}

(***************************************************************************)
(* The cache                                                               *)
(***************************************************************************)

Put(c, key, w) == [x \in DOMAIN c \cup {key} |-> IF x = key THEN w ELSE c[x]]

\* Every row of R under its key.  Of two rows with one key, those of two owners,
\* either comes last.
PutAll(c, R) ==
    LET keys == {KeyOf(w) : w \in R}
        last == {S \in SUBSET R : \A x \in keys : Cardinality({w \in S : KeyOf(w) = x}) = 1}
    IN  {[x \in DOMAIN c \cup keys |->
            IF x \in keys THEN CHOOSE w \in S : KeyOf(w) = x ELSE c[x]] : S \in last}

Only(c, K) == [x \in DOMAIN c \cap K |-> c[x]]

\* checkWalletInCache: hot, then processing, then cold wallets.
checkWalletInCache(b, a) ==
    LET x == cacherKey(b, a) IN
    IF x \in DOMAIN cache["hot"] THEN {cache["hot"][x]}
    ELSE IF x \in DOMAIN cache["processing"] THEN {cache["processing"][x]}
    ELSE IF x \in DOMAIN cache["cold"] THEN {cache["cold"][x]}
    ELSE {}

checkWalletInDatabase(b, a) ==
    IF HotByAddress(b, a) # {} THEN HotByAddress(b, a)
    ELSE IF ProcessingByAddress(b, a) # {} THEN ProcessingByAddress(b, a)
    ELSE ColdByAddress(b, a)

\* CheckWallet waits until the cache has been loaded once.
CheckWallet(b, a) == IF ready THEN checkWalletInCache(b, a) ELSE {}

(***************************************************************************)
(* Calls                                                                   *)
(***************************************************************************)

Begin(r, c) ==
    /\ call[r] = Idle
    /\ call' = [call EXCEPT ![r] = c]
    /\ overlap' = overlap \cup {{r, q} : q \in {x \in Request : Running(x)}}

\* The address types by the names of the interface.
convertBitcoinWalletType(wt) ==
    CASE wt = "P2SH" -> "P2SH" [] wt = "P2PKH" -> "P2PKH" [] wt = "SEGWIT" -> "P2WPKH"
      [] OTHER -> "P2TR"

convertLitecoinWalletType(wt) ==
    CASE wt = "P2SH" -> "P2SH" [] wt = "P2PKH" -> "P2PKH" [] wt = "SEGWIT" -> "P2WPKH"
      [] OTHER -> "P2TR"

addressType(b, wt) ==
    CASE b = "bitcoin"  -> convertBitcoinWalletType(wt)
      [] b = "litecoin" -> convertLitecoinWalletType(wt)
      [] OTHER          -> ""

\* CreateOwnerHotWallet, up to the search for a wallet that can be returned.
\* The call ends there when it finds one.
BeginHot(r, o, b, wt, e) ==
    /\ o \in owners
    /\ FindExisting(o, b, e) = {}
    /\ Begin(r, [kind |-> "hot", pc |-> "sequence", owner |-> o, chain |-> b,
                 type |-> addressType(b, wt), ext |-> e])
    /\ UNCHANGED <<tables, cache, cacher, checked, faults, still>>

\* HotWallets.Create: the next sequence, read outside any transaction, and the
\* address derived from it.
ReadSequence(r) ==
    LET c == call[r]
        n == MaxSequence(c.owner, c.chain) + 1
        a == AddressWallet(c.chain, c.type, Seed[c.owner], n)
    IN  /\ c.kind = "hot" /\ c.pc = "sequence"
        /\ call' = [call EXCEPT ![r] =
                     [kind |-> "hot", derived |-> a,
                      pc |-> IF c.chain \in EVMBlockchains THEN "evm" ELSE "insert",
                      row |-> HotRow(c.owner, c.chain, a, n, c.ext, r)]]
        /\ UNCHANGED <<tables, cache, cacher, begun, faults, still>>

\* Mutant of ReuseAddress: the address is taken over without its sequence.
ReuseAddressOnly(r) ==
    LET c == call[r]
        found == FindEVMByExternalID(c.row.owner, c.row.ext)
    IN  /\ c.kind = "hot" /\ c.pc = "evm"
        /\ \/ found = {} /\ call' = [call EXCEPT ![r].pc = "insert"]
           \/ \E w \in found :
                call' = [call EXCEPT ![r].pc = "insert", ![r].row.address = w.address]
        /\ UNCHANGED <<tables, cache, cacher, begun, faults, still>>

\* The address and the sequence of the EVM wallet that the external id has
\* already, on whichever chain.
ReuseAddress(r) ==
    LET c == call[r]
        found == FindEVMByExternalID(c.row.owner, c.row.ext)
    IN  /\ c.kind = "hot" /\ c.pc = "evm"
        /\ \/ found = {} /\ call' = [call EXCEPT ![r].pc = "insert"]
           \/ \E w \in found :
                LET row == [c.row EXCEPT !.address = w.address, !.seq = w.seq]
                IN  call' = [call EXCEPT ![r] = [@ EXCEPT !.pc = "insert", !.row = row]]
        /\ UNCHANGED <<tables, cache, cacher, begun, faults, still>>

\* The row is written unless the unique index refuses it.
InsertHot(r) ==
    LET c == call[r] IN
    /\ c.kind = "hot" /\ c.pc = "insert"
    /\ IF Taken(hot, c.row)
       THEN hot' = hot /\ call' = [call EXCEPT ![r] = Done]
       ELSE hot' = hot \cup {c.row} /\ call' = [call EXCEPT ![r].pc = "store"]
    /\ UNCHANGED <<owners, processing, cold, cache, cacher, begun, faults>>
    /\ still' = FALSE

\* The new wallet is cached under the address that was derived, which is not its
\* own when an address was taken over.  The caller gets its answer.
StoreHot(r) ==
    LET c == call[r] IN
    /\ c.kind = "hot" /\ c.pc = "store"
    /\ cache' = [cache EXCEPT !["hot"] = Put(@, cacherKey(c.row.chain, c.derived), c.row)]
    /\ call' = [call EXCEPT ![r] = Done]
    /\ UNCHANGED <<tables, cacher, begun, faults>>
    /\ still' = FALSE

\* HotWallets.MarkDirty
MarkDirty(w) ==
    /\ ~w.dirty
    /\ hot' = (hot \ {w}) \cup {[w EXCEPT !.dirty = TRUE]}
    /\ UNCHANGED <<owners, processing, cold, cache, call, cacher, begun, faults>>
    /\ still' = FALSE

\* beforeCreateWhHandler: a deposit to a Tron wallet that the cache does not
\* know as activated.
ActivateWallet(b, a) ==
    /\ ready /\ b = "tron"
    /\ cacherKey(b, a) \in DOMAIN cache["hot"]
    /\ \E x \in CheckWallet(b, a) :
         LET mine == {w \in HotByAddress(b, a) : w.owner = x.owner} IN
         /\ ~x.activated
         /\ mine # {}
         /\ hot' = (hot \ mine) \cup {[w EXCEPT !.activated = TRUE] : w \in mine}
    /\ UNCHANGED <<owners, processing, cold, cache, call, cacher, begun, faults>>
    /\ still' = FALSE

\* checkNotCreatedWallets: the processing wallets that are missing, read once, in a
\* goroutine of Start.
BeginMissing(r) ==
    /\ ~checked /\ checked' = TRUE
    /\ Begin(r, [kind |-> "missing", pc |-> "sequence", todo |-> GetAllNotCreatedWallets])
    /\ UNCHANGED <<tables, cache, cacher, faults, still>>

ProcessingWallet(o, b, r) ==
    LET n == MaxSequence(o, b) + 1
    IN  ProcessingRow(o, b, AddressWallet(b, AddressTypeByBlockchain(b), Seed[o], n), n, r)

\* ProcessingWallets.Create up to the insertion: a sequence and an address that
\* no other owner has.  The first error ends the loop.
ReadMissing(r) ==
    LET c == call[r] IN
    /\ c.kind = "missing" /\ c.pc = "sequence"
    /\ IF c.todo = {} THEN call' = [call EXCEPT ![r] = Done]
       ELSE \E x \in c.todo :
              LET w == ProcessingWallet(x[1], x[2], r) IN
              call' = [call EXCEPT ![r] =
                        IF IsTakenByAnotherOwner(w.owner, w.address) THEN Done
                        ELSE [kind |-> "missing", pc |-> "insert", todo |-> c.todo \ {x}, row |-> w]]
    /\ UNCHANGED <<tables, cache, cacher, begun, faults, still>>

InsertMissing(r) ==
    LET c == call[r] IN
    /\ c.kind = "missing" /\ c.pc = "insert"
    /\ IF Taken(processing, c.row)
       THEN processing' = processing /\ call' = [call EXCEPT ![r] = Done]
       ELSE /\ processing' = processing \cup {c.row}
            /\ call' = [call EXCEPT ![r].pc = "store"]
    /\ UNCHANGED <<owners, hot, cold, cache, cacher, begun, faults>>
    /\ still' = FALSE

StoreMissing(r) ==
    LET c == call[r] IN
    /\ c.kind = "missing" /\ c.pc = "store"
    /\ cache' = [cache EXCEPT !["processing"] = Put(@, KeyOf(c.row), c.row)]
    /\ call' = [call EXCEPT ![r] = [kind |-> "missing", pc |-> "sequence", todo |-> c.todo]]
    /\ UNCHANGED <<tables, cacher, begun, faults>>
    /\ still' = FALSE

\* owners.Create: one transaction for the owner and its processing wallets.
BeginOwner(r, o) ==
    /\ o \notin owners
    /\ \A q \in Request : call[q].kind = "owner" => call[q].owner # o
    /\ Begin(r, [kind |-> "owner", pc |-> "create", owner |-> o, todo |-> Blockchain, rows |-> {}])
    /\ UNCHANGED <<tables, cache, cacher, checked, faults, still>>

\* The processing wallet of the next chain.  Sequence and owners are looked up
\* outside the transaction; the wallet is in the cache before the commit.
CreateProcessing(r) ==
    LET c == call[r]
        b == CHOOSE x \in c.todo : TRUE
        w == ProcessingWallet(c.owner, b, r)
    IN  /\ c.kind = "owner" /\ c.pc = "create" /\ c.todo # {}
        /\ IF IsTakenByAnotherOwner(c.owner, w.address)
           THEN cache' = cache /\ call' = [call EXCEPT ![r] = Done]
           ELSE /\ cache' = [cache EXCEPT !["processing"] = Put(@, KeyOf(w), w)]
                /\ call' = [call EXCEPT ![r].todo = @ \ {b}, ![r].rows = @ \cup {w}]
        /\ UNCHANGED <<tables, cacher, begun, faults>>
        /\ still' = FALSE

CommitOwner(r) ==
    LET c == call[r] IN
    /\ c.kind = "owner" /\ c.pc = "create" /\ c.todo = {}
    /\ owners' = owners \cup {c.owner}
    /\ processing' = processing \cup c.rows
    /\ call' = [call EXCEPT ![r] = Done]
    /\ UNCHANGED <<hot, cold, cache, cacher, begun, faults>>
    /\ still' = FALSE

\* AttachOwnerColdWallets up to BatchAttachColdWallets: the cache of cold wallets
\* is cleared, that of all owners and chains.
BeginCold(r, o, b, A) ==
    /\ o \in owners
    /\ Begin(r, [kind |-> "cold", pc |-> "delete", owner |-> o, chain |-> b,
                 gone |-> {}, rows |-> {ColdRow(o, b, a, r) : a \in A}])
    /\ cache' = [cache EXCEPT !["cold"] = <<>>]
    /\ UNCHANGED <<tables, cacher, checked, faults>>
    /\ still' = FALSE

\* DeleteAllByBlockchainAndOwnerID: the rows that are committed now.
DeleteCold(r) ==
    LET c == call[r] IN
    /\ c.kind = "cold" /\ c.pc = "delete"
    /\ call' = [call EXCEPT ![r].pc = "insert",
                 ![r].gone = FindCold(c.owner, c.chain)]
    /\ UNCHANGED <<tables, cache, cacher, begun, faults, still>>

\* A row that another transaction has deleted or inserted and not committed: the
\* statement waits for its end.
Locked(r, q) ==
    /\ q # r /\ call[q].kind = "cold" /\ call[q].pc = "commit"
    /\ \/ call[q].gone \cap call[r].gone # {}
       \/ \E w \in call[r].rows : Taken(call[q].rows, w)

\* ColdWallets.Create for each address, and the cache.  A row that is already
\* there, and not deleted by this transaction, rolls it back.
InsertCold(r) ==
    LET c == call[r] IN
    /\ c.kind = "cold" /\ c.pc = "insert"
    /\ \A q \in Request : ~Locked(r, q)
    /\ IF \E w \in c.rows : Taken(cold \ c.gone, w)
       THEN cache' = cache /\ call' = [call EXCEPT ![r] = Done]
       ELSE /\ \E d \in PutAll(cache["cold"], c.rows) : cache' = [cache EXCEPT !["cold"] = d]
            /\ call' = [call EXCEPT ![r].pc = "commit"]
    /\ UNCHANGED <<tables, cacher, begun, faults>>
    /\ still' = FALSE

CommitCold(r) ==
    LET c == call[r] IN
    /\ c.kind = "cold" /\ c.pc = "commit"
    /\ cold' = (cold \ c.gone) \cup c.rows
    /\ call' = [call EXCEPT ![r] = Done]
    /\ UNCHANGED <<owners, hot, processing, cache, cacher, begun, faults>>
    /\ still' = FALSE

\* A statement or a commit fails, and with it the call and its transaction.
CallFails(r) ==
    /\ Running(r) /\ call[r].pc # "store"
    /\ faults > 0 /\ faults' = faults - 1
    /\ call' = [call EXCEPT ![r] = Done]
    /\ UNCHANGED <<tables, cache, cacher, begun, still>>

Call(r) ==
    \/ ReadSequence(r) \/ ReuseAddress(r) \/ InsertHot(r) \/ StoreHot(r)
    \/ ReadMissing(r) \/ InsertMissing(r) \/ StoreMissing(r)
    \/ CreateProcessing(r) \/ CommitOwner(r)
    \/ DeleteCold(r) \/ InsertCold(r) \/ CommitCold(r)

(***************************************************************************)
(* The cacher.  The three goroutines of a pass work on a table and a cache *)
(* of their own; they are taken together, step by step.                    *)
(***************************************************************************)

Load(p) ==
    part' = [part EXCEPT ![p] = [pc |-> "find", rows |-> [k \in Kind |-> {}]]]

\* Mutant of BeginPass: nothing keeps two passes apart.
BeginPassAnyway(p) ==
    /\ part[p] = Quiet
    /\ Load(p)
    /\ UNCHANGED <<tables, cache, call, ready, loaded, still, begun, faults>>

\* A tick finds cacherInUse unset.
BeginPass(p) ==
    /\ \A q \in Pass : part[q] = Quiet
    /\ Load(p)
    /\ UNCHANGED <<tables, cache, call, ready, loaded, still, begun, faults>>

\* The pass reads the tables ...
CacheFind(p) ==
    /\ part[p].pc = "find"
    /\ part' = [part EXCEPT ![p] = [pc |-> "store", rows |-> [k \in Kind |-> Table(k)]]]
    /\ still' = TRUE
    /\ UNCHANGED <<tables, cache, call, ready, loaded, begun, faults>>

\* ... or fails to, and is over.  The first pass must not: without it Start ends.
CacheFindFails(p) ==
    /\ ready
    /\ part[p].pc = "find"
    /\ faults > 0 /\ faults' = faults - 1
    /\ part' = [part EXCEPT ![p] = Quiet]
    /\ UNCHANGED <<tables, cache, call, ready, loaded, still, begun>>

\* ... stores what it has read ...
CacheStore(p) ==
    /\ part[p].pc = "store"
    /\ LET new(k) == PutAll(cache[k], part[p].rows[k]) IN
       \E h \in new("hot"), q \in new("processing"), c \in new("cold") :
          cache' = [hot |-> h, processing |-> q, cold |-> c]
    /\ loaded' = loaded \cup UNION {{<<k, KeyOf(w)>> : w \in part[p].rows[k]} : k \in Kind}
    /\ part' = [part EXCEPT ![p].pc = "sweep"]
    /\ UNCHANGED <<tables, call, ready, still, begun, faults>>

\* Mutant of CacheSweep: what is no longer in the table stays.
CacheKeep(p) ==
    /\ part[p].pc = "sweep"
    /\ part' = [part EXCEPT ![p] = Quiet]
    /\ ready' = TRUE
    /\ UNCHANGED <<tables, cache, call, loaded, still, begun, faults>>

\* ... and deletes all other keys, those stored since then included.  After the
\* first pass the cache is ready.
CacheSweep(p) ==
    /\ part[p].pc = "sweep"
    /\ cache' = [k \in Kind |-> Only(cache[k], {KeyOf(w) : w \in part[p].rows[k]})]
    /\ part' = [part EXCEPT ![p] = Quiet]
    /\ ready' = TRUE
    /\ UNCHANGED <<tables, call, loaded, still, begun, faults>>

Cacher(p) == BeginPass(p) \/ CacheFind(p) \/ CacheStore(p) \/ CacheSweep(p)

(***************************************************************************)
(* The specification                                                       *)
(***************************************************************************)

Next ==
    \/ \E r \in Request :
         \/ \E o \in Owner, b \in Blockchain, e \in External :
              \E wt \in IF b \in Typed THEN WalletType ELSE {"UNSPECIFIED"} : BeginHot(r, o, b, wt, e)
         \/ \E o \in Owner : BeginOwner(r, o)
         \/ BeginMissing(r)
         \/ \E o \in Owner, b \in Blockchain, A \in SUBSET ColdAddress :
              BeginCold(r, o, b, A)
         \/ Call(r)
         \/ CallFails(r)
    \/ \E w \in hot : MarkDirty(w)
    \/ \E x \in DOMAIN cache["hot"] : ActivateWallet(x[1], x[2])
    \/ \E p \in Pass :
         \/ Cacher(p)
         \/ CacheFindFails(p)

Spec == Init /\ [][Next]_vars

(***************************************************************************)
(* Properties                                                              *)
(***************************************************************************)

Overlapped(v, w) == {v.by, w.by} \in overlap

\* The transfers sign for a hot or a processing wallet with the key they derive
\* from the sequence they look up: it is the key that controls the address, also
\* when HotWallets.Create has taken the address of another chain.  The builders of
\* transactions accept it for all types of addresses but nested SegWit, whose
\* outputs they cannot sign for.  The keys that an owner is given are right too,
\* and they are all there.
KeyControlsAddress ==
    /\ \A k \in {"hot", "processing"} : \A w \in Table(k) :
          LET key == AddressSecret(w.chain, w.address, Seed[w.owner],
                                   GetSequenceByWalletType(k, w.owner, w.chain, w.address))
          IN  /\ key = w.address.key
              /\ w.chain \in UtxoChains =>
                   (SignTxIn(w.chain, TxInput(1, key, Script(w.address), 1)) <=> w.address.type # "P2SH")
    /\ \A o \in owners :
          LET items == HotPrivateKeys(o) \cup ProcessingPrivateKeys(o) IN
          /\ \A w \in hot \cup processing : w.owner = o => \E i \in items : i.address = w.address
          /\ \A i \in items : i.private = i.address.key /\ i.public = PublicKey(i.private)
          /\ HotPrivateKeysByIDs(o, {w.address : w \in hot}) = HotPrivateKeys(o)

\* Owner o has a hot wallet on an EVM chain that was made before, or while, its
\* processing wallet of that chain was.
HotFirst(o) ==
    \E w \in hot :
       /\ w.owner = o /\ w.chain \in EVMBlockchains
       /\ \A p \in FindProcessing(o, w.chain) : w.seq < p.seq \/ Overlapped(w, p)

\* On one chain an address belongs to one wallet.  Only calls that ran at the
\* same time can break this, because the sequence and the owners are looked up
\* before the insertion and each unique index guards one owner in one table: a
\* hot and a processing wallet made at the same time, and owners with one seed
\* that were made at the same time.  An EVM chain where a hot wallet came before
\* the processing wallet shifts its sequences, and then an address taken over
\* from one EVM chain can be the processing address of the other.
AddressesNotShared ==
    \A v, w \in hot \cup processing :
       v # w /\ v.chain = w.chain /\ v.address = w.address =>
          \/ Overlapped(v, w)
          \/ \E p, q \in processing :
               p.owner = v.owner /\ q.owner = w.owner /\ v.owner # w.owner /\ Overlapped(p, q)
          \/ v.chain \in EVMBlockchains /\ HotFirst(v.owner)

\* A hot or processing wallet that a pass of the cacher has stored is found by
\* CheckWallet from then on: a deposit to it is not passed over by the scanner.
LoadedStaysVisible ==
    \A x \in loaded : x[1] # "cold" => x[2] \in DOMAIN cache[x[1]]

\* A pass that nothing disturbed leaves the cache with the answers of the
\* database, whatever was cached too early, under another address, or swept away
\* by a pass that had read its table before.
QuietPassAgrees ==
    still /\ ready /\ (\A p \in Pass : part[p] = Quiet) =>
       \A x \in (UNION {DOMAIN cache[k] : k \in Kind}) \cup {KeyOf(w) : w \in hot \cup processing \cup cold} :
          /\ CheckWallet(x[1], x[2]) # {}
          /\ CheckWallet(x[1], x[2]) \subseteq checkWalletInDatabase(x[1], x[2])

=============================================================================
