------------------------------ MODULE Watcher ------------------------------
(***************************************************************************)
(* internal/watcher: the service that keeps the list of addresses of the   *)
(* external watcher up to date and announces deposits that are still in    *)
(* the mempool, with the broker of pkg/event_broker through which it hears *)
(* of new hot wallets.                                                     *)
(*                                                                         *)
(* Goroutines: one for each Publish, the broker, initWalletsList,          *)
(* processNewHotWallets, and the handler of the stream of a chain.  The    *)
(* channels of the broker hold one element; those of its subscribers hold  *)
(* none, so that a send waits for its receiver.                            *)
(***************************************************************************)
EXTENDS Naturals, Sequences, FiniteSets

CONSTANTS
    Wallet,           \* hot wallets
    BitcoinLike,      \* those on a chain that the external watcher supports
    Tx,               \* transactions that appear in the mempool
    To,               \* To[t]: the addresses that t pays, wallets or others
    MaxAttempts,      \* attempts of retry.New(): 5 in the code
    MaxFaults         \* bound: failed calls, broken streams and restarts

ASSUME WatcherAssumption ==
    /\ BitcoinLike \subseteq Wallet
    /\ MaxAttempts \in Nat \ {0} /\ MaxFaults \in Nat

VARIABLES
    table,            \* table hot_wallets
    list,             \* the list of the external watcher
    publishers,       \* goroutines in Publish, by their wallets
    publishCh, subCh, unsubCh,
    broker,           \* what the broker sends, and to whom it has still to send it
    subs,             \* the subscribers of the broker
    init,             \* initWalletsList
    sub,              \* processNewHotWallets
    stream,           \* the handler of the mempool stream
    webhooks,         \* webhooks in_mempool: pairs of transaction and wallet
    gone,             \* history: transactions that have left the mempool
    missed,           \* history: wallets whose announcement went past the list
    faults

wallets == <<table, publishers, publishCh>>
channels == <<subCh, unsubCh, broker, subs>>
mempool == <<stream, webhooks, gone>>
vars == <<wallets, channels, list, init, sub, mempool, missed, faults>>

Selecting == [msg |-> "none", to |-> {}]

Fault == faults > 0 /\ faults' = faults - 1

InitStart == [pc |-> "read", wallets |-> {}, attempt |-> 0]

SubStart == [pc |-> "subscribe", ch |-> 0, wallet |-> "none"]

Init ==
    /\ table = {} /\ list = {}
    /\ publishers = {} /\ publishCh = <<>>
    /\ subCh = <<>> /\ unsubCh = <<>> /\ broker = Selecting /\ subs = {}
    /\ init = InitStart /\ sub = SubStart
    /\ stream = "connect" /\ webhooks = {} /\ gone = {}
    /\ missed = {}
    /\ faults = MaxFaults

(***************************************************************************)
(* Publishers                                                              *)
(***************************************************************************)

\* HotWallets.Create: the row, and a goroutine that publishes it.
Create(w) ==
    /\ w \notin table
    /\ table' = table \cup {w}
    /\ publishers' = publishers \cup {w}
    /\ UNCHANGED <<publishCh, channels, list, init, sub, mempool, missed, faults>>

Publish(w) ==
    /\ w \in publishers /\ publishCh = <<>>
    /\ publishCh' = <<w>>
    /\ publishers' = publishers \ {w}
    /\ UNCHANGED <<table, channels, list, init, sub, mempool, missed, faults>>

(***************************************************************************)
(* Broker.Start: the cases of its select, and the loop over subscribers.   *)
(***************************************************************************)

BrokerSubscribe ==
    /\ broker = Selecting /\ subCh # <<>>
    /\ subs' = subs \cup {Head(subCh)} /\ subCh' = <<>>
    /\ UNCHANGED <<wallets, unsubCh, broker, list, init, sub, mempool, missed, faults>>

BrokerUnsubscribe ==
    /\ broker = Selecting /\ unsubCh # <<>>
    /\ subs' = subs \ {Head(unsubCh)} /\ unsubCh' = <<>>
    /\ UNCHANGED <<wallets, subCh, broker, list, init, sub, mempool, missed, faults>>

\* A message that nobody has subscribed to is gone.
BrokerTake ==
    /\ broker = Selecting /\ publishCh # <<>>
    /\ publishCh' = <<>>
    /\ broker' = IF subs = {} THEN Selecting ELSE [msg |-> Head(publishCh), to |-> subs]
    /\ missed' = IF subs = {} THEN missed \cup {Head(publishCh)} ELSE missed
    /\ UNCHANGED <<table, publishers, subCh, unsubCh, subs, list, init, sub, mempool, faults>>

Sent(c) == IF broker.to = {c} THEN Selecting ELSE [broker EXCEPT !.to = @ \ {c}]

\* Mutant of BrokerSend: a send that does not wait.
BrokerSendOrDrop(c) ==
    /\ c \in broker.to
    /\ broker' = Sent(c)
    /\ IF sub.pc = "receive" /\ sub.ch = c
       THEN sub' = [sub EXCEPT !.pc = "append", !.wallet = broker.msg]
       ELSE UNCHANGED sub
    /\ UNCHANGED <<wallets, subCh, unsubCh, subs, list, init, mempool, missed, faults>>

\* msgCh <- msg waits for the subscriber.
BrokerSend(c) ==
    /\ c \in broker.to
    /\ sub.pc = "receive" /\ sub.ch = c
    /\ broker' = Sent(c)
    /\ sub' = [sub EXCEPT !.pc = "append", !.wallet = broker.msg]
    /\ UNCHANGED <<wallets, subCh, unsubCh, subs, list, init, mempool, missed, faults>>

Broker == BrokerSubscribe \/ BrokerUnsubscribe \/ BrokerTake \/ \E c \in broker.to : BrokerSend(c)

(***************************************************************************)
(* initWalletsList                                                         *)
(***************************************************************************)

\* convertHotWalletsToPb leaves out wallets on other chains.
convertHotWalletsToPb(W) == W \cap BitcoinLike

GetAll ==
    /\ init.pc = "read"
    /\ init' = [pc |-> "update", wallets |-> table, attempt |-> 0]
    /\ UNCHANGED <<wallets, channels, list, sub, mempool, missed, faults>>

\* An error ends the group: its context is cancelled.
GetAllFails ==
    /\ init.pc = "read" /\ Fault
    /\ init' = [init EXCEPT !.pc = "failed"]
    /\ UNCHANGED <<wallets, channels, list, sub, mempool, missed>>

\* External: UpdateWatchList puts the addresses in the place of the list.
UpdateWatchList ==
    /\ list' = convertHotWalletsToPb(init.wallets)
    /\ missed' = (missed \cup list) \ list'

UpdateAddressesList ==
    /\ init.pc = "update"
    /\ UpdateWatchList
    /\ init' = [InitStart EXCEPT !.pc = "done"]
    /\ UNCHANGED <<wallets, channels, sub, mempool, faults>>

\* A call that failed may have been carried out.  It is tried again, with a
\* delay, until the attempts of backoffRetry are used up.
UpdateFails ==
    /\ init.pc = "update" /\ Fault
    /\ UpdateWatchList \/ UNCHANGED <<list, missed>>
    /\ init' = IF init.attempt + 1 < MaxAttempts THEN [init EXCEPT !.attempt = @ + 1]
               ELSE [InitStart EXCEPT !.pc = "failed"]
    /\ UNCHANGED <<wallets, channels, sub, mempool>>

(***************************************************************************)
(* processNewHotWallets                                                    *)
(***************************************************************************)

Cancelled == init.pc = "failed"

\* Subscribe hands a new channel, named by a number, to the broker.
Subscribe ==
    /\ sub.pc = "subscribe" /\ subCh = <<>>
    /\ subCh' = <<sub.ch + 1>>
    /\ sub' = [sub EXCEPT !.pc = "receive", !.ch = @ + 1]
    /\ UNCHANGED <<wallets, unsubCh, broker, subs, list, init, mempool, missed, faults>>

\* A wallet on another chain is passed over.
SkipWallet ==
    /\ sub.pc = "append" /\ sub.wallet \notin BitcoinLike
    /\ sub' = [sub EXCEPT !.pc = "receive", !.wallet = "none"]
    /\ UNCHANGED <<wallets, channels, list, init, mempool, missed, faults>>

\* External: AppendAddressesToWatchList.
AppendAddressesToWatchList ==
    /\ list' = list \cup {sub.wallet}
    /\ missed' = missed \ {sub.wallet}

AppendAddress ==
    /\ sub.pc = "append" /\ sub.wallet \in BitcoinLike
    /\ AppendAddressesToWatchList
    /\ sub' = [sub EXCEPT !.pc = "receive", !.wallet = "none"]
    /\ UNCHANGED <<wallets, channels, init, mempool, faults>>

\* An error is logged, and the wallet passed over; with a cancelled context the
\* call fails, whatever the external watcher made of it.
AppendFails ==
    /\ sub.pc = "append" /\ sub.wallet \in BitcoinLike
    /\ IF Cancelled THEN UNCHANGED faults ELSE Fault
    /\ \/ AppendAddressesToWatchList
       \/ missed' = missed \cup {sub.wallet} /\ UNCHANGED list
    /\ sub' = [sub EXCEPT !.pc = "receive", !.wallet = "none"]
    /\ UNCHANGED <<wallets, channels, init, mempool>>

\* The select may choose the context also when a wallet is waiting.
Leave ==
    /\ sub.pc = "receive" /\ Cancelled
    /\ sub' = [sub EXCEPT !.pc = "unsubscribe"]
    /\ UNCHANGED <<wallets, channels, list, init, mempool, missed, faults>>

Unsubscribe ==
    /\ sub.pc = "unsubscribe" /\ unsubCh = <<>>
    /\ unsubCh' = <<sub.ch>>
    /\ sub' = [sub EXCEPT !.pc = "ended"]
    /\ UNCHANGED <<wallets, subCh, broker, subs, list, init, mempool, missed, faults>>

\* Both goroutines of initWorkers have ended, and infiniteRetry calls it again.
InitAgain ==
    /\ Cancelled /\ sub.pc = "ended"
    /\ init' = InitStart
    /\ sub' = [sub EXCEPT !.pc = "subscribe"]
    /\ UNCHANGED <<wallets, channels, list, mempool, missed, faults>>

(***************************************************************************)
(* The stream of the mempool of a chain, under infiniteRetry               *)
(***************************************************************************)

rest == <<wallets, channels, list, init, sub, missed>>

SubscribeMempool ==
    /\ stream = "connect"
    /\ stream' = "open"
    /\ UNCHANGED <<rest, webhooks, gone, faults>>

SubscribeMempoolFails ==
    /\ stream = "connect" /\ Fault
    /\ stream' = "delay"
    /\ UNCHANGED <<rest, webhooks, gone>>

\* A transaction that nobody hears of.
Unheard(t) ==
    /\ t \notin gone /\ stream # "open"
    /\ gone' = gone \cup {t}
    /\ UNCHANGED <<rest, stream, webhooks, faults>>

\* Mutant of HandlerEnds: no error, no retry.
HandlerIsOver == stream' = "stopped"

\* How the handler ends when processMempoolStream has ended without an error:
\* wrapped, this is an error like any other, and infiniteRetry goes on.
HandlerEnds == stream' = "delay"

\* processMempoolTxEvents: the webhooks of all events of a transaction, those
\* that pay a wallet, in one database transaction.  The stream is left after it.
processMempoolTxEvents(t) ==
    /\ stream = "open" /\ t \notin gone
    /\ gone' = gone \cup {t}
    /\ webhooks' = webhooks \cup ({t} \X (To[t] \cap table))
    /\ HandlerEnds
    /\ UNCHANGED <<rest, faults>>

processMempoolTxFails(t) ==
    /\ stream = "open" /\ t \notin gone /\ Fault
    /\ gone' = gone \cup {t}
    /\ stream' = "delay"
    /\ UNCHANGED <<rest, webhooks>>

\* The stream is closed by the other side.
StreamEnds ==
    /\ stream = "open" /\ Fault
    /\ HandlerEnds
    /\ UNCHANGED <<rest, webhooks, gone>>

StreamAgain ==
    /\ stream = "delay"
    /\ stream' = "connect"
    /\ UNCHANGED <<rest, webhooks, gone, faults>>

(***************************************************************************)
(* The specification                                                       *)
(***************************************************************************)

\* The process ends and is started again.
Restart ==
    /\ Fault
    /\ publishers' = {} /\ publishCh' = <<>>
    /\ subCh' = <<>> /\ unsubCh' = <<>> /\ broker' = Selecting /\ subs' = {}
    /\ init' = InitStart /\ sub' = SubStart
    /\ stream' = "connect"
    /\ missed' = missed \cup (table \ list)
    /\ UNCHANGED <<table, list, webhooks, gone>>

InitList == GetAll \/ UpdateAddressesList

Subscriber == Subscribe \/ SkipWallet \/ AppendAddress \/ Leave \/ Unsubscribe \/ InitAgain

Stream == SubscribeMempool \/ StreamAgain

Next ==
    \/ \E w \in Wallet : Create(w) \/ Publish(w)
    \/ Broker
    \/ InitList \/ GetAllFails \/ UpdateFails
    \/ Subscriber \/ AppendFails
    \/ Stream \/ SubscribeMempoolFails \/ StreamEnds
    \/ \E t \in Tx : Unheard(t) \/ processMempoolTxEvents(t) \/ processMempoolTxFails(t)
    \/ Restart

\* Go runs every goroutine that can run.
Spec ==
    /\ Init /\ [][Next]_vars
    /\ \A w \in Wallet : WF_vars(Publish(w))
    /\ WF_vars(Broker) /\ WF_vars(InitList) /\ WF_vars(Subscriber) /\ WF_vars(Stream)

(***************************************************************************)
(* Properties                                                              *)
(***************************************************************************)

TypeOK ==
    /\ table \subseteq Wallet /\ list \subseteq BitcoinLike /\ missed \subseteq Wallet
    /\ publishers \subseteq table
    /\ publishCh \in Seq(Wallet) /\ Len(publishCh) <= 1
    /\ subs \subseteq 1..(MaxFaults + 1)
    /\ broker = Selecting \/ (broker.msg \in Wallet /\ broker.to # {})
    /\ init.pc \in {"read", "update", "done", "failed"} /\ init.attempt \in 0..MaxAttempts
    /\ sub.pc \in {"subscribe", "receive", "append", "unsubscribe", "ended"}
    /\ stream \in {"connect", "open", "delay", "stopped"}
    /\ faults \in 0..MaxFaults

\* The broker waits for a subscriber that has left.
Stuck == \E c \in broker.to : ~(sub.ch = c /\ sub.pc \in {"receive", "append"})

\* Every hot wallet gets on the list some day, or was missed, or the broker is
\* stuck.
CreatedIsWatched ==
    \A w \in BitcoinLike : w \in table ~> (w \in list \cup missed \/ Stuck)

\* The stream of the mempool is opened again and again, also after it ended
\* without an error.
Reconnects == []<>(stream = "open")

=============================================================================
