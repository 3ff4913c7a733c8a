---------------------------- MODULE BlockScanner ----------------------------
(***************************************************************************)
(* The scanner of one block chain (internal/escanner): it follows the      *)
(* chain that the explorer proxy shows in batches of blocks, announces the *)
(* transactions of its wallets by webhooks, and goes back when the chain   *)
(* was reorganised.                                                        *)
(*                                                                         *)
(* A block is its height and the branch it was mined on, and stands for    *)
(* its hash and for the transactions in it.  Events, wallets and payloads  *)
(* are left out: a block is announced when its webhooks and jobs are       *)
(* written, which commitBlockResult does in one database transaction.      *)
(***************************************************************************)
EXTENDS Integers, Sequences

CONSTANTS
    BlocksInChunk,  \* config EScanner.BlocksInChunk
    StartHeight,    \* height of the chain at first
    MaxHeight,      \* bound: height of the chain
    MaxReorgs,      \* bound: reorganisations
    MaxFaults       \* bound: failed calls and restarts

ASSUME BlockScannerAssumption ==
    /\ BlocksInChunk \in Nat \ {0}
    /\ StartHeight \in Nat \ {0} /\ MaxHeight \in Nat /\ StartHeight =< MaxHeight
    /\ MaxReorgs \in Nat /\ MaxFaults \in Nat

VARIABLES
    chain,      \* explorer: the branch of the block at each height
    reorgs,     \* explorer: reorganisations so far
    incident,   \* explorer: RevertToBlockHeight of the last incident, 0 for none
    node,       \* lastNodeBlockHeight
    parsed,     \* lastParsedBlockHeight
    db,         \* the row of processed_blocks
    announced,  \* blocks whose webhooks and jobs are written
    pass,       \* the local variables of handleBlocks
    txs,        \* loadBlocks: the block that FindTransactions answered for, by height
    heads,      \* loadBlocks: the answers of the block client, by height
    origin,     \* history: height of the first block that was stored
    disturbed,  \* history: a reorganisation that may concern the scanner is not handled
    causes,     \* history: what may make the scanner miss a block
    faults

chainVars == <<chain, reorgs, incident>>
passVars == <<pass, txs, heads>>
history == <<origin, disturbed, causes>>
vars == <<chainVars, node, parsed, db, announced, passVars, history, faults>>

\* An empty hash.
Unknown == <<>>

Nothing == [h \in {} |-> Unknown]

\* The answers in f and the one for the block at height h.
With(f, h, answer) == [x \in DOMAIN f \cup {h} |-> IF x = h THEN answer ELSE f[x]]

NoRow == [number |-> -1, hash |-> Unknown]

NoPass == [pc |-> "idle", exists |-> FALSE, known |-> Unknown, from |-> 0, to |-> 0, upto |-> 0]

Block(h) == IF h \in DOMAIN chain THEN <<h, chain[h]>> ELSE Unknown

Init ==
    /\ chain = [h \in 1..StartHeight |-> 0]
    /\ reorgs = 0 /\ incident = 0
    /\ node = 0 /\ parsed = -1 /\ db = NoRow
    /\ announced = {}
    /\ pass = NoPass /\ txs = Nothing /\ heads = Nothing
    /\ origin = 0 /\ disturbed = FALSE /\ causes = {}
    /\ faults = MaxFaults

Fault == faults > 0 /\ faults' = faults - 1

(***************************************************************************)
(* The chain as the explorer shows it                                      *)
(***************************************************************************)

NewBlock ==
    /\ Len(chain) < MaxHeight
    /\ chain' = Append(chain, reorgs)
    /\ UNCHANGED <<reorgs, incident, node, parsed, db, announced, passVars, history, faults>>

\* The scanner has stored the block at height k or may be reading it.
Concerned(k) == k =< db.number \/ pass.pc # "idle"

\* The blocks from height k on are replaced, by one block at first, and the
\* incident is recorded.
Reorg(k) ==
    /\ reorgs < MaxReorgs
    /\ k > 1 /\ k =< Len(chain)
    /\ reorgs' = reorgs + 1
    /\ chain' = Append(SubSeq(chain, 1, k - 1), reorgs')
    /\ incident' = k
    /\ disturbed' = (disturbed \/ Concerned(k))
    /\ causes' = IF disturbed \/ pass.pc = "revert"
                 THEN causes \cup {"overlap"} ELSE causes
    /\ UNCHANGED <<node, parsed, db, announced, passVars, origin, faults>>

(***************************************************************************)
(* The scanner                                                             *)
(***************************************************************************)

\* The loop that asks for the last block.
readTip ==
    /\ node # Len(chain)
    /\ node' = Len(chain)
    /\ UNCHANGED <<chainVars, parsed, db, announced, passVars, history, faults>>

BatchEnd(from, upto) ==
    IF from + BlocksInChunk - 1 =< upto THEN from + BlocksInChunk - 1 ELSE upto

\* handleBlocks up to its loop.  An error of LastBlock leaves the hash empty.
handleBlocks ==
    /\ pass.pc = "idle"
    /\ parsed < node /\ node # 0
    /\ LET from == IF parsed = -1 THEN node ELSE parsed + 1 IN
       \E known \in {db.hash, Unknown} :
        /\ IF known = db.hash THEN UNCHANGED faults ELSE Fault
        /\ pass' = [pc |-> "load", exists |-> parsed # -1,
                    known |-> IF parsed # -1 THEN known ELSE Unknown,
                    from |-> from, to |-> BatchEnd(from, node), upto |-> node]
    /\ txs' = Nothing /\ heads' = Nothing
    /\ UNCHANGED <<chainVars, node, parsed, db, announced, history>>

\* handleBlocks returns.
Ends == pass' = NoPass /\ txs' = Nothing /\ heads' = Nothing

Batch == pass.from..pass.to

\* fetchBlockData, FindTransactions: no transactions when there is no block.
FindTransactions(h) ==
    /\ pass.pc = "load" /\ h \in Batch \ DOMAIN txs
    /\ txs' = With(txs, h, Block(h))
    /\ UNCHANGED <<chainVars, node, parsed, db, announced, pass, heads, history, faults>>

\* fetchBlockData, BlocksClient().Get: both hashes are read afterwards.
GetBlock(h) ==
    /\ pass.pc = "load" /\ h \in DOMAIN txs \ DOMAIN heads
    /\ h \in DOMAIN chain
    /\ heads' = With(heads, h, [hash |-> Block(h), prev |-> Block(h - 1)])
    /\ UNCHANGED <<chainVars, node, parsed, db, announced, pass, txs, history, faults>>

\* loadBlocks returns an error: a block does not exist any more, or a call failed.
LoadFails ==
    /\ pass.pc = "load"
    /\ \/ (\E h \in DOMAIN txs \ DOMAIN heads : h \notin DOMAIN chain) /\ UNCHANGED faults
       \/ Fault
    /\ Ends
    /\ UNCHANGED <<chainVars, node, parsed, db, announced, history>>

\* The hash that the block at height h should have as its predecessor.
Expected(h) == IF h = pass.from THEN pass.known ELSE heads[h - 1].hash

\* Mutant of validateChain: only the first block of the batch is compared.
validateFirst ==
    \A h \in {pass.from} :
        \/ heads[h].prev = Unknown \/ Expected(h) = Unknown
        \/ heads[h].prev = Expected(h)

validateChain ==
    \A h \in Batch :
        \/ heads[h].prev = Unknown \/ Expected(h) = Unknown
        \/ heads[h].prev = Expected(h)

\* The batch is loaded, and the chain has changed since the last one or while it
\* was loaded.
ValidationFails ==
    /\ pass.pc = "load" /\ DOMAIN heads = Batch
    /\ pass.exists /\ ~validateChain
    /\ pass' = [pass EXCEPT !.pc = "rollback"]
    /\ UNCHANGED <<chainVars, node, parsed, db, announced, txs, heads, history, faults>>

\* The batch is loaded and will be committed, although the transactions of a
\* block may be those of another one, and the empty hash may hide a change.
Validated ==
    /\ pass.pc = "load" /\ DOMAIN heads = Batch
    /\ pass.exists => validateChain
    /\ pass' = [pass EXCEPT !.pc = "commit"]
    /\ causes' = causes
         \cup (IF \E h \in Batch : txs[h] # heads[h].hash THEN {"torn"} ELSE {})
         \cup (IF pass.exists /\ pass.known = Unknown /\ heads[pass.from].prev # db.hash
               THEN {"blind"} ELSE {})
    /\ UNCHANGED <<chainVars, node, parsed, db, announced, txs, heads, origin, disturbed, faults>>

\* The loops of handleBlocks after the commit of a block.
GoOn ==
    \/ /\ pass.from < pass.to
       /\ pass' = [pass EXCEPT !.from = @ + 1, !.exists = TRUE]
       /\ UNCHANGED <<txs, heads>>
    \/ /\ pass.from = pass.to /\ pass.to < pass.upto
       /\ pass' = [pass EXCEPT !.pc = "load", !.exists = TRUE, !.known = heads[pass.to].hash,
                               !.from = pass.to + 1, !.to = BatchEnd(pass.to + 1, pass.upto)]
       /\ txs' = Nothing /\ heads' = Nothing
    \/ pass.from = pass.to /\ pass.to = pass.upto /\ Ends

\* The row, the webhooks and the jobs of the block at height pass.from.
Store ==
    /\ db' = [number |-> pass.from, hash |-> heads[pass.from].hash]
    /\ announced' = announced \cup ({txs[pass.from]} \ {Unknown})
    /\ origin' = IF pass.exists THEN origin ELSE pass.from

\* The first block is inserted, which fails when there is a row; later ones
\* update the row.
Storable == pass.exists \/ db = NoRow

\* The database transaction of commitBlockResult is done.
commitBlockResult ==
    /\ pass.pc = "commit" /\ Storable
    /\ Store
    /\ parsed' = pass.from
    /\ GoOn
    /\ UNCHANGED <<chainVars, node, disturbed, causes, faults>>

\* It fails, or it is done but its answer is lost; either ends handleBlocks.
commitFails ==
    /\ pass.pc = "commit"
    /\ Ends
    /\ \/ /\ Storable /\ Fault /\ UNCHANGED <<db, announced, history>>
       \/ /\ ~Storable /\ UNCHANGED <<db, announced, history, faults>>
       \/ /\ Storable /\ Fault /\ Store
          /\ causes' = causes \cup {"answer"}
          /\ UNCHANGED disturbed
    /\ UNCHANGED <<chainVars, node, parsed>>

\* The last block before those that were replaced.
RollbackTarget == incident - 1

\* handleRollback, the last incident: there must be one.
GetRollbackStartingBlock ==
    /\ pass.pc = "rollback"
    /\ \/ /\ incident # 0
          /\ pass' = [NoPass EXCEPT !.pc = "revert", !.to = RollbackTarget]
          /\ txs' = Nothing /\ heads' = Nothing
          /\ UNCHANGED faults
       \/ incident = 0 /\ Ends /\ UNCHANGED faults
       \/ Fault /\ Ends
    /\ UNCHANGED <<chainVars, node, parsed, db, announced, history>>

\* Mutant of handleRollback: the position in memory is left.
rollbackRowOnly ==
    /\ pass.pc = "revert" /\ pass.to \in DOMAIN chain
    /\ db' = [number |-> pass.to, hash |-> Block(pass.to)]
    /\ causes' = IF pass.to > db.number THEN causes \cup {"forward"} ELSE causes
    /\ disturbed' = FALSE
    /\ Ends
    /\ UNCHANGED <<chainVars, node, parsed, announced, origin, faults>>

\* handleRollback, the rest: the position in memory changes even when the write
\* of the row fails.
handleRollback ==
    /\ pass.pc = "revert" /\ pass.to \in DOMAIN chain
    /\ parsed' = pass.to
    /\ causes' = IF pass.to > db.number THEN causes \cup {"forward"} ELSE causes
    /\ \/ /\ db' = [number |-> pass.to, hash |-> Block(pass.to)]
          /\ disturbed' = FALSE
          /\ UNCHANGED faults
       \/ Fault /\ UNCHANGED <<db, disturbed>>
    /\ Ends
    /\ UNCHANGED <<chainVars, node, announced, origin>>

revertFails ==
    /\ pass.pc = "revert"
    /\ \/ pass.to \notin DOMAIN chain /\ UNCHANGED faults
       \/ Fault
    /\ Ends
    /\ UNCHANGED <<chainVars, node, parsed, db, announced, history>>

\* start after the process was restarted.
Restart ==
    /\ Fault
    /\ parsed' = db.number
    /\ node' = 0
    /\ Ends
    /\ UNCHANGED <<chainVars, db, announced, history>>

Scan ==
    \/ handleBlocks
    \/ \E h \in Batch : FindTransactions(h) \/ GetBlock(h)
    \/ LoadFails
    \/ ValidationFails \/ Validated
    \/ commitBlockResult \/ commitFails
    \/ GetRollbackStartingBlock \/ handleRollback \/ revertFails

Next ==
    \/ NewBlock \/ \E k \in DOMAIN chain : Reorg(k)
    \/ readTip
    \/ Scan
    \/ Restart

Spec == Init /\ [][Next]_vars

\* The chain grows, and both loops of start go on.
Fairness ==
    /\ WF_vars(NewBlock)
    /\ WF_vars(readTip)
    /\ WF_vars(Scan)

FairSpec == Spec /\ Fairness

(***************************************************************************)
(* Properties                                                              *)
(***************************************************************************)

Branch == 0..MaxReorgs
Hash == ((1..MaxHeight) \X Branch) \cup {Unknown}

TypeOK ==
    /\ chain \in Seq(Branch) /\ Len(chain) \in 1..MaxHeight
    /\ reorgs \in Branch /\ incident \in 0..MaxHeight
    /\ node \in 0..MaxHeight /\ parsed \in -1..MaxHeight
    /\ db \in [number: -1..MaxHeight, hash: Hash] /\ db.hash # Unknown => db.hash[1] = db.number
    /\ announced \subseteq Hash
    /\ pass.pc \in {"idle", "load", "commit", "rollback", "revert"}
    /\ DOMAIN heads \subseteq DOMAIN txs /\ DOMAIN txs \subseteq 1..MaxHeight
    /\ origin \in 0..MaxHeight
    /\ causes \subseteq {"torn", "blind", "overlap", "forward", "answer"}
    /\ faults \in 0..MaxFaults

\* The stored block is on the chain.
OnChain == db # NoRow /\ Block(db.number) = db.hash

\* Through failed calls, lost answers, restarts and reorganisations, every block
\* of the chain from the first stored one to the last one is announced, unless
\*   torn     a block was replaced between the two calls that fetch it;
\*   blind    LastBlock failed when the stored block had been replaced;
\*   overlap  the chain was reorganised again before the scanner had gone back;
\*   forward  the incident was about blocks the scanner had not reached.
NoGap ==
    (OnChain /\ causes \subseteq {"answer"})
    => \A h \in origin..db.number : Block(h) \in announced

\* The scanner reaches the end of the chain whatever fails meanwhile, unless the
\* answer of a commit is lost: then memory and row differ, and the check of the
\* next batch fails until the process is restarted.
CatchesUp == <>[](db.number >= Len(chain)) \/ <>("answer" \in causes)

=============================================================================
