# Verification of dv-processing

dv-processing keeps the keys of merchants' wallets, watches block chains for
payments to them and sends transfers from them. This project models the parts
where money can be lost, paid twice or overlooked: how a transfer is accepted, how
it is executed step by step by a retried job, what its row, its webhooks and the
chain say of each other after crashes, failed writes and late answers, how webhooks
reach the clients, how the scanner follows a chain that is reorganised and what it
announces, how wallets get their addresses and keys, how an owner authenticates,
and how new wallets get on the list of the watcher.

## The system

| part | state it keeps | operations | interacts with |
|---|---|---|---|
| `internal/services/transfers` | table `transfers`, an in-process lock | `Create` (validate, lock, check, insert), setters of single columns | wallets, explorer proxy, resource manager, block chain nodes |
| `internal/tscanner` | an in-use flag | a pass every second: read new transfers, insert their jobs and set them `processing` | table `transfers`, River |
| `internal/taskmanager` | River's job table | `TransferWorkflowWorker.Work`; waiting for the confirmations of events; webhook cleanup | the FSMs, webhooks |
| `internal/workflow` | statuses of steps, pending jump, flags; a snapshot in `transfers.workflow_snapshot` | `Run`: stages, steps, hooks, retry policies | the FSMs as its step functions |
| `internal/fsm/fsm{btc,ltc,bch,doge}` | tx hash, state data | six steps: build and submit one transaction, wait for mempool and confirmations | node, explorer |
| `internal/fsm/fsmevm` | `transfer_transactions`, tx hash | seven steps: base asset for gas, payment, confirmations | node, explorer |
| `internal/fsm/fsmtron` | `transfer_transactions`, state data, arguments of steps | 25 steps: activation, burning or delegation, payment, reclaim, compensation | node, explorer, resource manager |
| `internal/services/webhooks` | table `webhooks` | create with upsert; the sender polls, groups by request and posts; cleanup | clients' URLs |
| `internal/escanner` | `processed_blocks`, incidents | fetch blocks in batches, validate the chain, create webhooks, roll back | explorer proxy, webhooks, River |
| `internal/services/wallets` | tables of hot, processing and cold wallets; three caches | create with the next sequence, mark dirty, activate, replace cold wallets, derive keys; the cacher's pass | scanner and watcher (`CheckWallet`), FSMs, event broker |
| `internal/services/owners` | table `owners` with mnemonic and two-factor data in two formats; a cache of owners | create, set up, confirm, disable and validate the second factor, give keys and seeds; commands that encrypt or decrypt all rows | wallets, handlers |
| `internal/services/clients` | table `clients` | create, change URLs and keys | interceptors |
| `internal/handler`, `interceptors` | none | RPC in front of the services | all services |
| `internal/watcher`, `dispatcher`, `pkg/event_broker` | subscriptions, the external list of addresses, a stream | load the list, append new wallets, announce what is in the mempool | wallets, webhooks, external watcher |
| `pkg/walletsdk` | none | addresses and keys, builders of transactions, estimation | FSMs, wallets |
| `internal/eproxy`, `rmanager`, `blockchains`, `madmin`, `updater` | none | remote calls | external services |

What is hard here: a payment and the record of it cannot be one atomic step; the
engine replays a workflow from a snapshot written by hooks, so every step can be
executed again after a crash; statuses, webhooks and snapshots are separate
writes; errors of explorers and nodes do not say whether a payment happened;
requests are checked against rows that scanner and jobs change meanwhile;
sequences, caches and lists of addresses are read in one step and used in a later
one. What makes each part correct:

* engine: settled steps are not executed again, jumps are taken exactly once and
  a verdict is final;
* transfer FSMs: no payment without a trace, no second payment without a fault,
  a completed transfer is a confirmed payment, a failed one can no longer pay,
  every status is announced, resources come back, every transfer ends;
* requests: one active transfer per account, energy is promised to one transfer, one job
  per transfer, calls return;
* webhooks: nothing is lost, and the statuses of one transfer arrive in order;
* block scanner: every block of the chain is processed, also through rollbacks;
  payments of the service itself are announced as such, and a completion once;
* wallets: the key derived for a wallet controls its address, addresses are not
  shared, and the cache does not hide a wallet from the scanner;
* owners: an owner can always authenticate, and a revoked secret opens nothing;
* watcher: every wallet gets on the list, and the stream is always opened again.

`PROJECT.json` lists under `hazards` the places in the code where this can go wrong.

## Modules

```
Workflow                                     TransferRequests ── TransferRequestsProofs
   │                                         BlockScanner ── BlockScannerProofs
Transfer ── TransferProofs                   Webhooks ────┬── NotificationsProofs
   │  └┄ implements ┄ TransferLifecycle      ChainEvents ─┘
   ├── TransferUtxo ── TransferUtxoProofs    Wallets ─┬── AccountsProofs
   ├── TransferEvm ── TransferEvmProofs      Owners ──┘
   └── TransferTron ── TransferTronProofs    Watcher

TransferUtxo ─┐
Wallets ──────┴── UtxoTx ── WalletSDK        ChainEvents ── WalletSDK
```

An `MC` module beside each of them holds the values of its constants.

**Workflow** is the engine as the FSMs use it, run by one River job. `status`,
`state`, `pos` and `stage` are the memory of a run, `snapshot` is what the hooks
have written and `job` is the job's row. `Start` is `Work` with `init` and
`SetSnapshot`; `EnterStage`/`SkipStage` and `ConsumeNextStep`/`SkipStep`/
`BeginStep` are the loops of `handleStage` and `handleStep`; `Settle` is the
deferred function that turns the result of the step function into a status and
`AfterStep` the hook after it; `EndExecute`, the three failure handlers and
`ReturnToRiver` are the ends of `execute` and `Run`. `Crash` and `SaveFails` are
the faults. In the engine's own specification a step function is an arbitrary outcome,
a jump or the end of the transfer (`StepGivesUp`); the modules of the FSMs replace it by
their functions and compose the rest unchanged (`Engine`), so that each FSM implements
the engine (`UtxoRunsOnEngine`, `EvmRunsOnEngine`, `TronRunsOnEngine`). Left out because no caller uses them: suspended statuses,
`FinishWorkflow`, `MaxRetries` other than 1, hooks of single stages. An error that
the linear retry policy repeats within a step is one error here: the step
functions are not interleaved with anything else in memory, and their effects on
node and database are choices already.

**Transfer** adds what all FSMs share: the row (status and tx hash), the set of
announced statuses, `setTransferStatus` and `sendFailureEvent` with their single
writes, and the properties of every transfer.

**TransferLifecycle** is the abstract transfer, what a client may rely on: statuses
move forward, a status is announced before the row has it, at most one verdict is
announced, and a transfer that failed is stopped. Its two actions are a status and
a failure, each of which a fault may cut off. `Transfer` maps row, webhooks and
snapshot to it. `KeepsLifecycle` says that every behaviour of an FSM is one of the
abstract transfer; for EVM there is one exception, which `LifecycleUnlessLate` names.

**TransferUtxo** models the four UTXO packages, which are copies of one another
(the map spreads its definitions over the four so that each is compared
somewhere). A coin is an output, named by transaction and index; `built` holds the
transactions that were made, each with the coins it spends; `inflight` holds
submissions whose answer `sendTransfer` no longer waits for. The choice of outputs
(`processAddressesUTXOs`), the fee and its limit are those of the code, and the
transaction comes from `UtxoTx`.

**WalletSDK** and **UtxoTx** are the pure part of `pkg/walletsdk`. In `WalletSDK` a
key is the path that derives it from a seed and an address is the network that
reads it, its type and its key; so the derivation of addresses, and deriving the
key of an address again, keep what decides whether the two fit, and leave out hashes
and encodings. `UtxoTx` is the builder of UTXO transactions: inputs and outputs
with their errors, sizes in bytes for every kind of script, the weight, the fee of the
transaction for given lengths of its signatures, and which inputs `signTxIn` can sign. An
ECDSA signature is as long as chance will have it (9 to 72 bytes), so that each input has
one length in the emulated transaction and another in the final one.

**TransferEvm** has the recorded transactions, the chain, the age of the transfer
(the five-minute and one-hour rules) and the FSM's stale copy of the row.
`SubmitFails`/`SubmitRecorded` are the database transaction around the
submission. As in the code, the furthest step of the workflow gives the record its type
(`TxType`), and not the step that submits; if it gives none, nothing is submitted. Amounts and gas prices are the outcomes of the checks on them.

**TransferTron** has all 25 steps, in the four stages, for every kind, asset,
wallet type and way of activation. What the reclaim depends on is explicit: the
state data in the row, the copy the run has loaded, and the argument
`delegate_from_address` in memory and in the snapshot. Amounts are abstracted to
the set of resources that are delegated.

**TransferRequests** models concurrent calls of `Create` with the lock (flag and
condition variable), the checks of address and energy, the insert with the unique
request id, the scanner's passes with the in-use flag, and running jobs reduced to
what they do to the row and to the energy of the processing wallet: `JobActivates` spends it on the
contract that activates a sender, `JobDelegates` delegates an amount that is estimated
anew, `JobSends` spends it on a transfer of the processing wallet itself, and `Reclaim` gets
back what was not used, or nothing. The checks of `Create` subtract what the code
subtracts for the other transfers (`ResourcesSuffice`, `BurnSuffices`). A restart
drops calls and passes. Bandwidth and TRX budgets are left out (their checks can only
refuse; see `CreateFails`).

**Webhooks** is the table `webhooks`, the sender and the cleanup. A webhook is a
payload for a client; `Create` is the insert or the upsert that resets the row.
`Poll` is `GetUnsent` with its limit, order and retry intervals under the in-use
flag; `TakeChunk` the loops over groups and chunks; `Post` and `Record` are
`doRequest` and the write of its result, one after the other for the statuses of a
transfer and in parallel for everything else. Of the times in a row only what the
query asks is kept: whether the webhook was in its first day at the last try, and
whether the hour or day until the next one is over.

**BlockScanner** is the scanner of one chain. A block is its height and its branch
and stands for its hash and its transactions. `FindTransactions` and `GetBlock` are
the two calls that fetch a block, for all heights of the batch in any order, and
the chain may change between any two of them; `Validated`/`ValidationFails`,
`commitBlockResult` and `handleRollback` follow the code, with commits that fail or
whose answer is lost. A reorganisation and the incident that reports it are one
step of the explorer. Which transactions of a block are announced is in `ChainEvents`.

**ChainEvents** composes the three parts that tell the client of a transaction: the
transfer that submits a payment and commits its row afterwards, the scanner that
stores webhooks and jobs of a block, and `EventWaitingConfirmationsWorker`. `conf`
is what the explorer says of a transaction, `record` the row in
`transfer_transactions`, `jobs` the unique jobs of River by their arguments.
`whParams`, `IsSystem`, `Activates` and `commitBlockResult` follow `escanner`; `Work`
is an attempt of the job, with unsigned confirmations of a small width.

**Wallets** has the three tables, the calls `CreateOwnerHotWallet`,
`AttachOwnerColdWallets`, `owners.Create` and `checkNotCreatedWallets` as sequences
of statements between which others run, and the cache that answers `CheckWallet`. What
a transaction has written is kept with its call until it commits, and row locks are
those of PostgreSQL; the cache is written at once. A pass of the cacher reads, stores
and sweeps. `checkNotCreatedWallets` runs once, from `Start` (`checked`). What an earlier
run has left is `ExistingAssumption`: every owner has the wallets of a chain that is still
enabled, and no two have one seed. `by`, `overlap`, `loaded` and `still` are history.

**Owners** is one owner: the row with its two formats of the second factor, the
cached copy, concurrent calls (`Caller`, with the state `caller`), and the commands that
work beside the server. A TOTP secret is a number and a token is the secret it was made with. `excuses` is history:
the faults and races that the properties exempt by name.

**Watcher** has the goroutines of `internal/watcher` and of the event broker with its
channels: a `Publish` for each new wallet, the loop of the broker, `initWalletsList`
with its retries, `processNewHotWallets`, and the handler of the mempool stream. An
error of one goroutine cancels the other, and both begin again. `missed` is history:
wallets whose announcement came too early, failed, or was overwritten by the list.

Nodes, explorers, the resource manager, River's retries and the wall clock are
modelled from the way the code uses them and are marked external in the map.

## Runs

All passing runs disable the deadlock check because the system may stop: a
transfer ends, a job is discarded, all calls have returned.

| run | what it shows |
|---|---|
| `engine` | with any step function: order within a stage, settled steps stay settled, pending jumps and verdicts survive crashes |
| `utxo`, `evm`, `tron` | the FSM keeps to `TransferLifecycle` (EVM: unless a step that was passed over fails late); completed transfers are confirmed; a second payment needs a crash or a failed write; the fee of a UTXO transaction pays for its size but for the bytes by which its signatures became longer after the emulation; only after three faults can an EVM base asset pass for the payment; delegated resources come back (Tron); and, under fairness and as long as no fault happens, every transfer ends completed or failed, or its job is discarded |
| `requests` | one active transfer per account, one job per transfer, the energy promised to active transfers is there, but for what nothing reserves (activations, transfers of the processing wallet, delegations above the promise or not reclaimed); every call returns, every new transfer gets its job |
| `webhooks` | no webhook is lost, statuses of a transfer arrive in order in their first day, what is recorded as sent is not posted again; a client that answers gets its webhooks although those of a dead client come first and fill the limit |
| `scanner` | every block is announced except for four named causes; the scanner reaches the end of the chain unless the answer of a commit is lost |
| `events` | a payment of the service is announced as such unless its block was stored before its row was committed or the row was lost; a completion is told once but for a fault; an announced event is concluded |
| `wallets` | keys control their addresses; an address is shared only by calls that overlapped or through EVM chains whose numbers are shifted; what the cacher has loaded stays visible; a pass that nothing disturbed makes cache and database agree |
| `owners` | the owner can authenticate, and a revoked secret is refused, except after the races and faults that are named |
| `watcher` | every wallet gets on the list, or was missed in one of the named ways, or the broker is stuck; the stream is opened again and again |

The run `requests_occupied` is expected to be violated: a request for an address in
process is accepted, although the comment at `btclike.go:65` and the documentation of
the error say that it is refused. The finding in `PROJECT.json` quotes both.

Type invariants are kept in the modules, where the proofs use some of them; no run
spends a property on them.

The models also have these behaviours, which no run of its own records.

* Transfers. After a crash between an EVM submission and the commit of its record
  the retry submits again (`RepaymentNeedsFault` says that nothing else does). The EVM
  step that jumps to `sending` is settled in memory only; after a crash before `sending`
  begins, the jump in the snapshot passes over it, it stays unsettled, and an attempt after
  the jump was taken executes it again. A record is filed under the furthest step
  (`fsm_helpers.go:514-524`), so while that is `sending`, the step sends the base asset and
  files it as "transfer", and the run fails for want of a base asset to wait for. An attempt
  that gets back to `sending` takes the hash of that record for the payment, and the transfer completes
  with it; this takes three faults and four attempts, more than the run `evm` has, and TLC
  found it with those bounds. Once `sending` is behind, the step ends with "unknown
  transfer step" and submits nothing, and the failure ends a transfer that is completed or
  announced to be (`FailsLate`); that takes three attempts with two faults. An explorer error after one hour fails an EVM payment that was mined. A step's webhook
  may carry an older status than the one announced before it, because the FSM keeps
  the row it has loaded. A UTXO transfer whose submission timed out is failed while its
  transaction is accepted, and no code sets the status `frozen` that
  `constants/transfers.go` describes for this case. Of two outputs of one transaction
  to an address only one is swept, because `getAddressUTXO` collects them by the hash.
  A confirmed Tron payment is compensated and announced as failed when its reclaim
  fails; an ordinary error of an exit step leaves `CustomError` empty, so that the
  compensation skips the reclaim; after a fault a completed Tron transfer may leave
  resources delegated; a zero activation fee (`stage_before.go:293`) sets the next
  step on the step and not on the workflow, which goes on with the following one.
* Requests. Two requests for one UTXO address can be active together, since the check
  looks at transfers in `processing` only and limits the query to one row before it
  compares the address (`UtxoFree`). Orders at the resource manager are placed before
  the row is inserted, and stay when the request id is taken (`tron.go:563`).
  An accepted activation reserves nothing from a later `processResources`, whose first check
  subtracts only what is to be delegated for the active transfers (`tron.go:365`), nor is a
  delegation bound to what `Create` has estimated (`stage_before.go:472-526`): the energy
  promised to another transfer may be gone when its job comes to delegate it.
  `processBurnTRX` records its share of the TRX budget only for wallets that are not
  activated (`tron.go:240`). A job that is discarded leaves its row in an active status,
  so that its account stays occupied (`transfer_workflow.go:50`). `handleLtcFSM` asks
  whether Bitcoin is enabled (`transfer_workflow.go:94`).
* Webhooks and events. After its first day a status may be overtaken by a later one,
  which is still due at every poll; a webhook that is created again after a day waits
  for an hour or a day. A rollback whose incident is in the middle of a batch moves the
  scanner forward, past blocks it has not announced (one of the causes of `NoGap`). An
  event without key is announced and never completed.
* Wallets and owners. A wallet with a nested SegWit address (P2SH) receives and cannot
  be swept: `signTxIn` signs for another redeem script than `GenerateAddress` hashes
  (`KeyControlsAddress`). A dirty EVM wallet's address is used again for its external id
  on another chain. Two calls that replace the cold wallets of an owner at the same time
  leave the union of their lists. `GetAllPrivateKeys` decrypts a mnemonic that was already
  decrypted and so refuses every caller while seeds are encrypted
  (`owners/privatekeys.go:139`, `wallets/hot.go:159`). The models have seed encryption
  enabled: without it `owners.Create` hands an empty mnemonic to the processing wallets
  (`owners/create.go:97`), and no owner can be created. A call that read an
  owner while the second factor was being changed puts the old one back into the cache,
  where it is accepted for up to an hour.
* Watcher. A wallet that is created between the read of the list and the subscription, or
  appended before the list is replaced, is on no list until the next start; a subscriber
  that leaves while the broker sends to it blocks the broker for good. While the
  stream waits to be opened again, which it does after every transaction, nothing is heard.

**Bounds.** Three attempts (two for Tron) and two faults (one for Tron) are
enough for a crash, the replay and a failure of the replay, and for a step of the EVM
FSM that is passed over, executed behind the payment and fails there (what a third fault
adds is above, *Transfers*, and is within what the theorems cover); one resource for
Tron, since the resources are handled by independent goroutines of one error group
and every combination of outcomes is already a choice for one; three outputs of two
transactions make the choice of outputs bind, two confirmations distinguish none, one
and enough; four callers are two that want energy, the second for a
sender that is not activated either, one that shares an address with the first and a
request id with the other and wants energy for its activation only, and the processing
wallet itself; signatures of two lengths are one that is made longer and one that is
not, and lengths further apart would only scale the difference; two passes and
one restart make passes overlap. Three statuses and a deposit with a limit of three and
chunks of two make both bounds bind, and four creations leave one for a webhook that is
created again when not all of them are. A chain of four blocks with batches of two has
two batches in a pass; two reorganisations overlap or follow each other. Five
transactions are one of each kind the scanner tells apart; one of them is sent in a
behaviour, because nothing joins two of them but the confirmations. Two calls at a time on
two EVM chains, Tron and Bitcoin, with an owner from before the upgrade and two with one
mnemonic, reach every pair of calls that can overlap; a third call only repeats a pair.
Four calls for an owner are two that change, one that reads before and one that acts
after them. The watcher has a wallet on a watched chain and one on another, and two
faults, so that a restart can follow a failed call. A counter of faults bounds
the behaviours, and properties that speak of faults compare with it.

**Fairness.** River keeps rescuing and retrying a job, so the engine and the step
functions are weakly fair; an explorer or provider that is asked again and again
answers at last (strong fairness of a useful answer), and blocks keep coming.
Faults get no fairness and are excluded from the fair actions: with an unbounded
number of crashes nothing could be promised. For requests some caller that is not
asleep goes on (weak fairness of all of them together), the ticker keeps starting
passes, and a database asked again and again answers. `sync.Cond` gives no order: which
sleeper is woken is a choice. The sender is started every two seconds, a client that is
up answers when it is asked again and again, and an hour is longer than a pass and
the time between two polls, so that of the polls that could read a webhook some do.
The loops of the block scanner run for ever and the chain grows. Of events only some
block comes, some transaction is stored, some job is attempted: no event is promised its
turn. In the watcher Go runs every goroutine that can run; transactions, new wallets and
faults come or do not. The runs `engine`, `wallets` and `owners` check no
liveness and assume no fairness.

## Proofs

Everything below is proved for every value of the constants, from the assumptions that
the modules state beside their `CONSTANTS` (stages are numbered in the order of the
steps, bounds are natural numbers, and the like). `ResourcesFinite` of `TransferTron`
is one of them: the resources are a fixed list (`constants.go:70`).

**Engine.** `TransferProofs` begins with the engine. It proves the type invariant and the four properties of the
run `engine` (`StepsInOrder`, `SettledStepsStay`, `JumpsAreHonoured`, `VerdictStays`).
None of these is inductive. `IndInv` adds: the memory of a run never contradicts the
snapshot (`Agree`); the entered stage is not behind the position and everything
before the position in it is settled (`Loops`); a pending jump names a step of
its stage, is never one to the stage that is being executed, and what the
snapshot still remembers of it is either the same or already behind (`Jumps`). Two
further facts serve the FSMs: a run goes on with a finished workflow only after it has given
up (`OutcomeInv`), and the steps that no jump passes over are executed one after the
other (`Walk`).

**Transfers.** `TransferProofs` goes on with what the FSMs share. `ClientIsToldTheTruth` and
`StatusMovesForward` are what the abstract transfer gives its client, from the invariant
that a stopped transfer never announced its completion. The lemmas say how the functions
of an FSM look to the engine (`NextPlain`), that a step that failed for good is not
executed again (`Closed`), and that the two writers of the row, `setTransferStatus` and
`sendFailureEvent`, are the two actions of the lifecycle.

`TransferUtxoProofs` and `TransferEvmProofs` prove for their FSM:

* it implements the engine (`UtxoRunsOnEngine`, `EvmRunsOnEngine`), so that the theorems
  about the engine hold of it;
* `UtxoCompletedIsConfirmed`, `EvmCompletedIsConfirmed`. The invariant is that the step
  `waiting_confirmations`, once done, leaves the payment of the row with its
  confirmations, and that a status is announced or written only after the snapshot
  has the step that sets it (`RowInv`). `Walk` then says that `waiting_confirmations` was
  not passed over;
* `UtxoResendNeedsFault`, `EvmRepaymentNeedsFault`. Every payment but one has cost a
  fault, and that one has left its trace: the completed step, the record, or an error that
  ends the transfer (`Closed`). What makes this inductive is that an error of the
  submission is always final, because the failed step is the furthest one
  (`SendingErrorIsFinal`);
* for EVM both rest on `FaultsNeeded`, which says what each fault can have brought about.
  Before the first no step is passed over and each is done in its order (`Unbroken`). Before
  the second a step that was passed over is not executed again (`SendsOnce`), and no base
  asset is filed as the payment (`Misfiled`). Before the third a base asset that is
  filed as the payment comes with a failure that ends the transfer before any attempt can
  take its hash (`Doomed`). From the third on `CompletedIsConfirmed` no longer asks what the
  transaction pays;
* `UtxoFeeIsPaid` of the UTXO family: what the fee of the emulation lacks for the final size
  is at most the bytes by which signatures became longer, times the price of a byte. Inputs
  may differ in the length of their signature, so sums over a set are compared term by term:
  a sum is the size of a set of blocks (`AddsUp`, `BlocksAddUp`), and sizes of sets are
  compared (`SumsCompare`). That gives the bound for the size (`SizesDiffer`), and the rounding of
  the weight keeps it (`FeesDiffer`). `ScriptsAssumption` and `SignatureAssumption` are what it
  needs of the constants: finitely many outputs, addresses of the four known kinds, and
  signatures of 9 to 72 bytes;
* `UtxoKeepsLifecycle`, `EvmLifecycleUnlessLate`: each step is one of the abstract
  transfer or leaves it unchanged. A progress needs that the row is not further,
  which `RowInv` and `Walk` give; a failure needs that nothing is announced as completed,
  which holds because the success event is the last step and its errors are ignored.

The last point failed for EVM as it had been stated, and TLC confirmed the
counterexample (above, *Transfers*): `LifecycleUnlessLate` names the one step that leaves the
lifecycle.

`TransferTronProofs` proves the same four of Tron, `TronRunsOnEngine`,
`TronCompletedIsConfirmed`, `TronRepaymentNeedsFault` and `TronKeepsLifecycle`, and
`TronNothingLeftDelegated`, that is `ReclaimNeedsNoFault`. The
stage `compensate` and the jumps that 25 steps take in every direction are what makes it
longer than the other two. Nothing orders the steps of Tron as a whole, since `Walk` ends
at the first jump; and an attempt after a crash may execute steps before the payment
again. The invariant `TronInv` therefore consists of

* `TronJumps`, where a jump that is pending can come from and lead to: forward within a
  stage, to `sending`, or to the stage `compensate`, and never past a stage that is being
  executed;
* `TronWay`: `sending` and the three waits behind it are done one after the other,
  unless a jump within the stage `compensate` is repeated after a restart and passes over all
  of them, which settles every step before the compensation;
* `TronSent`: once the payment is reached, the first step before it that is not settled
  is one that asks for the jump to `sending` again (`Passed`). So an attempt that goes
  back to the stage `before_sending` comes to nothing that could be refused there, which is
  what fails for EVM, and `status[sending]` decides whether the payment is made again;
* `TronCompensation` and `TronEnds`: the compensation is entered by a failure only, a
  `FailedTransferError` is remembered by the snapshot, and neither is possible once the
  success event has begun;
* `TronPayment`: a payment has a record only if the snapshot knows that `sending` was begun,
  the row names a payment once `sending` is completed, and after `waiting_confirmations` it
  is the only recorded one and confirmed (the waits expect exactly one record);
* `PaidOnce`: until the compensation begins every payment but one has cost a fault, and if
  none was free, `sending` is settled or has failed for good;
* `RowInv`, as for the other FSMs.

`TronNothingLeftDelegated` is about the transfers without a fault, of which `TronInv` says too
little: it must know what happened to each resource. `ReclaimInv` follows the
resources from the delegation to the reclaim:

* `TronCalm`: without a fault a jump is consumed in the run that asked for it, and what a
  run leaves in the database is what it had in memory;
* `TronPath`: on the straight way (no fault, and the compensation is not begun) no
  step is left behind unsettled, the kind of the transfer chooses the branch, and a
  delegation that has not succeeded is the last step of its run, so that no later attempt
  executes it again;
* `TronArgument`: the address that delegates, which the wait for the delegations needs in
  the attempts that follow, is saved with the snapshot;
* `TronDelegates` and `TronDelegating`: whatever is frozen was delegated by this transfer, for
  a hot wallet only; behind `delegate_resources` every delegation is recorded and known to the
  state data, and behind the wait for them all are confirmed, before anything is sent;
* `TronReclaiming`: from the record of the payment on nothing more gets frozen, the step that
  reclaims records a reclaim for each frozen resource, and the wait for these leaves
  nothing frozen. This part holds in the compensation as well, since a confirmed payment
  can still be compensated.

How a broadcast looks to the chain is stated once for all five purposes (`Sent`, `Grows`), from
the fact that the sequence of the resources that were taken has each of them once.

**Requests.** `TransferRequestsProofs` proves for any number of callers and passes and
for all requests: `TypeCorrect`; `JobsAreUnique`, from `JobInv` (a pass that is not idle
owns the flag, what it has read is still new, a row that is absent or new has no
job); `AccountsAreExclusive`, from `AddressInv` (whoever is between lock and
unlock is alone, and what its check of the address has found still holds), which needs
the first: the scanner's commit does not turn a final transfer into an active one,
because the rows it has read are still new; and `EnergyIsThere`, from `EnergyInv`: energy is
neither made nor destroyed (what the wallet has, what was used and has not recovered, and what
is delegated add up to `TotalEnergy`), what a caller has read is at most that total, and so a
check under the lock bounds what all active transfers need, although the wallet was read
before the sum. Nothing bounds what no check reserves, so the property subtracts it: `used`
has the energy of activations and of transfers of the processing wallet, `Excess` what was
delegated above the promise or stayed delegated. The sum over a finite set is a fold; that it exists, does not depend on
the order and is additive is proved by taking a smallest set for which it is not so
(`SetInduction`, from the well-foundedness of the subset relation on finite sets).

**Webhooks.** `NotificationsProofs` proves, for any webhooks, limits and numbers of faults,
`WebhooksAreKept` (a created webhook is new until it is accepted; inductive with the
fact that an answer 202 still to be written down was one) and `SentOnce`, from
`PassInv`: the groups, the rest of a group, the chunk and the posted webhooks of a
pass do not overlap, and all but the posted ones are new in the table; and
`StatusesKeepTheirOrder`, from `OrderInv`: a status that waits and was never accepted is
read by every poll that reads a later one of its request, comes into the same chunk, and
leaves it before the later one. That needs that a row keeps its place in the order
of creation while it is new, and that an interval, once begun, never turns back into
"at every poll" (`TableInv`, `RowStep`).

**Block scanner.** `BlockScannerProofs` proves `NothingIsMissed`, that is `NoGap`, for
chains and batches of any length and any number of reorganisations and faults. `NoGap`
speaks of states in which the stored block is on the chain; the invariant says what
holds in between. While a reorganisation is not handled (`disturbed`), everything below
the blocks that it replaced is announced as far as the row goes (`RowInv`); a block that was
read is on the chain or was replaced, and if it is there so is the predecessor that was
read with it (`HeadsInv`); the blocks that a pass commits follow the row and each other
(`PassInv`); and the scanner goes back only to a height below which all is announced
(`TargetInv`). Every exception is one of the named causes: without them a block that is
stored on top of the row extends what is announced.

**Events.** `NotificationsProofs` goes on to prove, for any transactions, events, wallets,
reorganisations and faults, `EventTypeCorrect`, `SystemTransactionsAreMarked` and
`CompletionIsToldOnce`. `SystemIsMarked` speaks of the webhooks only; the invariant adds
that a transaction known to the chain has a record in some state, that what excuses an
unmarked announcement stays true, and that the jobs, whose arguments carry the flag into
the later webhook, are marked like the webhooks. For `CompletedOnce` every completion but
the one that ends its job has cost a fault (`ToldByFault`), and as long as no block was
replaced a transaction is stored once, so that its jobs have one flag (`StoredOnce`).

**Wallets.** `AccountsProofs` proves of the wallets `WalletTypeCorrect` and the four
properties of the run `wallets`, for any owners, seeds, chains, external ids, calls and
passes.

* `LoadedWalletsStayVisible`. Passes exclude each other (`Alone`), and nothing deletes a
  hot or processing wallet, so what an earlier pass has stored is among the rows that a
  pass sweeps by (`LoadedInv`).
* `QuietPassLeavesAgreement`. As long as no other write came after the read, what the
  pass has read is still the table, and once it has stored that, the cache has the rows of
  the table under their keys (`AgreeInv`).
* `KeysControlAddresses`. Every row, also one that a call has not committed, carries an
  address derived from the seed of its owner and its own sequence, also when it takes over
  that of a dirty wallet of another EVM chain (`Derived`); a processing wallet has the type
  of its chain besides (`Processed`). Deriving the key again from that sequence then gives
  the key of the address, for each chain (`KeyInv`).
* `AddressesAreNotShared` rests on most of the module. Two rows that have one address have
  one seed and one sequence, as derivation is injective on a chain. A new hot wallet is
  above the processing wallet of its chain or takes over the sequence of another EVM chain
  (`SequenceInv`); for different owners seeds differ or their
  creations ran at the same time (`SeedsApart`, `PendingApart`, `NewOwnerInv`); who made a
  row and with whom it ran is remembered correctly (`ByInv`, `OverlapInv`, `OwnedInv`); and
  the processing wallets that `checkNotCreatedWallets` adds are for owners that have none of
  that chain (`MissingInv`).

**Owners.** It also proves `OwnerTypeCorrect`, `OwnersAuthenticate` and
`RevokedSecretsAreRefused`, for any calls, secrets and faults. A token that a call has is
one the owner was shown (`TokensInv`), so only a known secret is confirmed; without one of
the recorded excuses one change at most is under way, what it has read is still in the row,
and after its second statement both formats say the same again (`ChangeInv`). The cached
owner has the authentication of the row, and an owner that a call has read had it then,
unless one was cached during a change (`CacheInv`).

Three proof attempts that failed were findings about these models. The sequences did not
come out right because `checkNotCreatedWallets` could be called again and again, which the
code does once; the excuse `HotFirst` covered every hot wallet with the sequence of the
processing wallet, whatever the calls did, and asks now that it came first or at the same
time; and `UNION A \ B` is read differently by SANY and tlapm, which is why such sets have
parentheses.

**Only model-checked.** All liveness properties (the prover handles neither fairness nor
`ENABLED`), and with them the watcher, whose properties are liveness. Every other
property of a passing run is stated by a theorem.

## Not modelled

* `erc20.go`, the `*.pb.go` files and the generated repositories: generated code. A query
  is modelled where a component depends on what it selects.
* `walletsdk/tron/resources.go` and the estimation of gas, energy and bandwidth: formulas
  over live chain parameters, whose results the FSMs and `Create` only compare. The
  modules have the outcomes of these comparisons as choices.
* The builders of EVM and Tron transactions: single calls of libraries that sign.
* Clients, `system`, the remaining handlers and the interceptors: one statement on one
  row, or a conversion, without state that lasts between two calls.
* `eproxy`, `rmanager`, `blockchains`, `madmin`, `updater`: wrappers of remote calls.
  What they answer is the environment of the modules and marked external.
* `processedincidents`: nothing else in the code calls it.
* Configuration, metrics, migrations, start-up: no protocol state.

## Plan

1. Done: the modules and runs above, and the proofs above.
2. Done: every invariant and every action property that a run checks is a theorem. Liveness
   is left to TLC.
3. The composition of requests, job and webhooks (the client of an accepted request is
   told its verdict) is left to the chain of `NewGetsJob`, `Concludes` and
   `HealthyIsServed`: as one module it exceeds what TLC can explore.
