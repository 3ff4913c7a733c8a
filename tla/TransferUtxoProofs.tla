------------------------- MODULE TransferUtxoProofs -------------------------
(***************************************************************************)
(* Proofs about the transfers of the Bitcoin family, for every set of      *)
(* coins and addresses, every number of attempts and every number of       *)
(* faults.                                                                 *)
(***************************************************************************)
EXTENDS TransferUtxo, TransferProofs, FiniteSetTheorems, WellFoundedInduction

\* How a step function ends, as the engine sees it.
Ends == (\E r \in {"nil", "snooze", "error"} : Finishes(r)) \/ Dies

LEMMA StatusEnds == ASSUME NEW s, pc = "func", setTransferStatus(s, "nil") PROVE Ends
BY SetStatusEnds DEF Ends

LEMMA ResultEnds ==
    ASSUME NEW r \in {"nil", "snooze", "error"}, pc = "func", Returns(r) PROVE Ends
BY ReturnsEnds DEF Ends

LEMMA AbortedEnds == ASSUME pc = "func", Abort PROVE Ends
BY AbortEnds DEF Ends

LEMMA StepFunctionEnds == StepFunction => Ends
<1> USE DEF InStep
<1>1. validateRequest => Ends
  BY StatusEnds, ResultEnds DEF validateRequest
<1>2. sendTransfer => Ends
  <2> SUFFICES ASSUME sendTransfer PROVE Ends
    OBVIOUS
  <2>1. pc = "func"
    BY DEF sendTransfer
  <2>2. ASSUME NEW t, hashNotWritten(t) PROVE Ends
    BY <2>1, <2>2, AbortedEnds DEF hashNotWritten, Ends, Dies
  <2>3. ASSUME NEW t, NEW inputs, sendRawTransaction(t, inputs) PROVE Ends
    BY <2>1, <2>3, AbortedEnds, ResultEnds DEF sendRawTransaction
  <2> QED
    BY <2>1, <2>2, <2>3, ResultEnds DEF sendTransfer
<1>3. waitingInMempool => Ends
  BY StatusEnds, ResultEnds DEF waitingInMempool
<1>4. waitingForTheFirstConfirmation => Ends
  BY StatusEnds, ResultEnds DEF waitingForTheFirstConfirmation
<1>5. waitingConfirmations => Ends
  BY ResultEnds DEF waitingConfirmations
<1>6. sendSuccessEvent => Ends
  BY StatusEnds DEF sendSuccessEvent
<1> QED
  BY <1>1, <1>2, <1>3, <1>4, <1>5, <1>6 DEF StepFunction

\* What OnFailureFn does: an error of the first two stages fails the transfer, an
\* error of the third is left to River.
LEMMA OnFailureCases ==
    OnFailure =>
        /\ UNCHANGED utxoVars
        /\ \/ StageOf[CurrentStep] # after_sending /\ sendFailureEvent(0..2)
           \/ LoseFailure /\ UNCHANGED trVars
           \/ StageOf[CurrentStep] = after_sending /\ IgnoreFailure /\ UNCHANGED trVars
BY DEF OnFailure, failureEventLost

\* Every step of the FSM is one of the engine's.
LEMMA UtxoIsPlain == [NextUtxo]_vars => [NextPlain]_wfVars
<1> SUFFICES ASSUME [NextUtxo]_vars PROVE [NextPlain]_wfVars
  OBVIOUS
<1>1. CASE StepFunction
  BY <1>1, StepFunctionEnds, StepEnds DEF Ends, Results, NextPlain, Engine
<1>2. CASE OnFailure
  <2>1. CASE sendFailureEvent(0..2)
    BY <2>1, FailureEventEnds DEF NextPlain, Engine
  <2> QED
    BY <1>2, <2>1, OnFailureCases DEF NextPlain
<1>3. CASE Environment
  BY <1>3 DEF Environment, Deposit, LateSubmission, NewBlock
<1>4. CASE UNCHANGED vars
  BY <1>4 DEF vars
<1> QED
  BY <1>1, <1>2, <1>3, <1>4 DEF NextUtxo, NextPlain

\* The FSM of the Bitcoin family runs on the workflow engine: what is proved of the
\* engine holds of it.
THEOREM UtxoRunsOnEngine == SpecUtxo => Spec
<1>1. InitUtxo => Init
  BY DEF InitUtxo, InitTransfer
<1>2. [NextUtxo]_vars => [Next]_wfVars
  BY UtxoIsPlain, PlainIsEngine
<1> QED
  BY <1>1, <1>2, PTL DEF SpecUtxo, Spec

(***************************************************************************)
(* The way through the steps                                               *)
(***************************************************************************)

\* No step jumps, and a step function returns nothing but these.
NoJumps ==
    /\ \A st \in {state, snapshot.state} : st.NextStage = None /\ st.NextStep = None
    /\ result \in {"nil", "snooze", "error"}

WayInv == PlainInv /\ NoJumps /\ Walk(Steps)

LEMMA NoJumpsStep == PlainInv /\ NoJumps /\ [NextUtxo]_vars => NoJumps'
<1> SUFFICES ASSUME PlainInv, NoJumps, [NextUtxo]_vars PROVE NoJumps'
  OBVIOUS
<1>0. /\ state \in WorkflowState
      /\ state.NextStage = None /\ state.NextStep = None
      /\ snapshot.state.NextStage = None /\ snapshot.state.NextStep = None
      /\ result \in {"nil", "snooze", "error"}
      /\ FreshState.NextStage = None /\ FreshState.NextStep = None
      /\ FailedState.NextStage = None /\ FailedState.NextStep = None
  BY DEF NoJumps, PlainInv, EngineInv, IndInv, TypeOK, FreshState, FailedState, WorkflowState
<1>1. CASE Engine
  <2>1. state'.NextStage = None /\ state'.NextStep = None
    <3>1. CASE state' \in {state, snapshot.state, FreshState}
      BY <1>0, <3>1
    <3>2. CASE EnterStage \/ SkipStep \/ BeginStep \/ EndExecute
      BY <1>0, <3>2 DEF EnterStage, SkipStep, BeginStep, EndExecute, ConsumeNextStep, WorkflowState
    <3> QED
      BY <1>1, <3>1, <3>2 DEF Engine, Start, ExitFinished, SkipStage, AfterStep, ReturnToRiver, Crash, Forget
  <2>2. snapshot'.state \in {snapshot.state, state'}
    BY <1>1 DEF Engine, Start, ExitFinished, EnterStage, SkipStage, SkipStep, BeginStep, EndExecute, AfterStep,
       ReturnToRiver, Crash, SaveSnapshot, SaveFails
  <2>3. result' \in {"nil", "snooze", "error"}
    BY <1>0, <1>1 DEF Engine, Start, ExitFinished, EnterStage, SkipStage, SkipStep, BeginStep, EndExecute, AfterStep,
       Settle, ReturnToRiver, Crash, Forget
  <2> QED
    BY <1>0, <2>1, <2>2, <2>3 DEF NoJumps
<1>2. CASE StepFunction
  BY <1>0, <1>2, StepFunctionEnds DEF Ends, Finishes, Return, Dies, LostRun, Forget, NoJumps
<1>3. CASE OnFailure
  <2>1. CASE sendFailureEvent(0..2)
    <3>1. GiveUp \/ Crash \/ CrashAfterVerdict
      BY <2>1, FailureEventEnds
    <3>2. state' \in {FailedState, FreshState} /\ result' \in {result, "nil"}
      BY <3>1 DEF GiveUp, Crash, CrashAfterVerdict, Forget
    <3>3. snapshot'.state \in {FailedState, snapshot.state}
      BY <3>1 DEF GiveUp, VerdictWrites, SaveVerdict, SaveFails, Crash, CrashAfterVerdict
    <3> QED
      BY <1>0, <3>2, <3>3 DEF NoJumps
  <2> QED
    BY <1>0, <1>3, <2>1, OnFailureCases DEF LoseFailure, IgnoreFailure, NoJumps
<1>4. CASE UNCHANGED wfVars
  BY <1>4 DEF wfVars, NoJumps
<1> QED
  BY <1>1, <1>2, <1>3, <1>4 DEF NextUtxo, Environment, Deposit, LateSubmission, NewBlock, vars

LEMMA WayInductive ==
    /\ InitUtxo => WayInv
    /\ WayInv /\ [NextUtxo]_vars => WayInv'
<1>1. InitUtxo => WayInv
  <2> SUFFICES ASSUME InitUtxo PROVE WayInv
    OBVIOUS
  <2>1. Init
    BY DEF InitUtxo, InitTransfer
  <2>2. PlainInv
    BY <2>1, EngineInductive DEF PlainInv, Init
  <2>3. NoJumps
    BY <2>1 DEF Init, FreshState, NoJumps
  <2>4. Walk(Steps)
    BY <2>1 DEF Init, FreshStatus, Walk, InTurn, InLoop
  <2> QED
    BY <2>2, <2>3, <2>4 DEF WayInv
<1>2. WayInv /\ [NextUtxo]_vars => WayInv'
  <2> SUFFICES ASSUME WayInv, [NextUtxo]_vars PROVE WayInv'
    OBVIOUS
  <2>1. PlainInv'
    BY PlainStep, UtxoIsPlain DEF WayInv
  <2>2. NoJumps'
    BY NoJumpsStep DEF WayInv
  <2>3. KeepsToWay(Steps)
    BY DEF WayInv, NoJumps, KeepsToWay
  <2>4. Walk(Steps)'
    BY <2>3, WalkStep, UtxoIsPlain, PlainIsEngine DEF WayInv, PlainInv
  <2> QED
    BY <2>1, <2>2, <2>4 DEF WayInv
<1> QED
  BY <1>1, <1>2

(***************************************************************************)
(* What is written and sent                                                *)
(***************************************************************************)

ASequence == \E S : built \in Seq(S)

\* The hash of the row names a transaction that was built, and a transaction that
\* the node has keeps its confirmations.
LEMMA ChainStep ==
    ASSUME UtxoTypeOK, ASequence, [NextUtxo]_vars, NEW t \in Sent
    PROVE  t \in Sent' /\ chain'[t] >= chain[t]
<1>0. DOMAIN chain \subseteq DOMAIN built /\ chain[t] \in Nat /\ t \in DOMAIN chain
  BY UtxoAssumption DEF UtxoTypeOK, Sent
<1>1. ASSUME NEW u PROVE t \in DOMAIN InMempool(u) /\ InMempool(u)[t] = chain[t]
  BY <1>0 DEF InMempool, Sent
<1>2. CASE UNCHANGED chain
  BY <1>0, <1>2 DEF Sent
<1>3. ASSUME NEW u, chain' = InMempool(u) PROVE t \in Sent' /\ chain'[t] >= chain[t]
  BY <1>0, <1>1, <1>3 DEF Sent
<1>4. CASE NewBlock
  BY <1>0, <1>4 DEF NewBlock, Sent
<1>5. CASE sendTransfer
  <2>1. \/ UNCHANGED chain
        \/ \E u : chain' = InMempool(u)
    BY <1>5 DEF sendTransfer, hashNotWritten, sendRawTransaction, utxoVars
  <2> QED
    BY <1>2, <1>3, <2>1
<1>6. CASE LateSubmission
  BY <1>2, <1>3, <1>6 DEF LateSubmission
<1> QED
  BY <1>2, <1>4, <1>5, <1>6 DEF NextUtxo, Environment, Deposit, StepFunction, validateRequest, waitingInMempool,
     waitingForTheFirstConfirmation, waitingConfirmations, sendSuccessEvent, OnFailure, utxoVars, vars

\* sendTransfer spends coins that have arrived.
LEMMA InputsAreCoins ==
    ASSUME UtxoTypeOK, NEW inputs \in processAddressesUTXOs, NEW tx \in buildTransaction(inputs)
    PROVE  inputs \subseteq Coins /\ tx.inputs = inputs
<1>1. ASSUME NEW reported \in SUBSET Coins PROVE getAddressUTXO(reported) \subseteq SUBSET Coins
  BY DEF getAddressUTXO
<1>2. PICK stale \in SUBSET (arrived \cap Spent) : inputs \in getAddressUTXO((arrived \ Spent) \cup stale)
  BY DEF processAddressesUTXOs
<1>3. (arrived \ Spent) \cup stale \in SUBSET Coins
  BY DEF UtxoTypeOK
<1>4. tx.inputs = inputs
  <2> DEFINE Built(t) == UNION {signed(inputs, t, emu, sig) : emu, sig \in [t.in -> Signature]}
  <2>1. PICK t \in newTx(inputs) : tx \in Built(t)
    BY DEF buildTransaction
  <2>2. PICK emu, sig : tx \in signed(inputs, t, emu, sig)
    BY <2>1
  <2> DEFINE Short(fee) == Max({0, CalculateTxSize(from.network, t, sig, feePerByte)
                                      - (fee + Longer(t, emu, sig) * feePerByte)})
  <2>3. PICK fee : tx = [inputs |-> inputs, short |-> Short(fee)]
    BY <2>2 DEF signed
  <2> HIDE DEF Short
  <2> QED
    BY <2>3
<1> QED
  BY <1>1, <1>2, <1>3, <1>4

\* sendTransfer builds nothing, or one more transaction.
LEMMA SendTransferCases ==
    ASSUME UtxoTypeOK, ASequence, sendTransfer
    PROVE  /\ UNCHANGED <<events, from, arrived>>
           /\ \/ UNCHANGED <<row, utxoVars>> /\ Finishes("error") /\ UNCHANGED faults
              \/ /\ Len(built') = Len(built) + 1
                 /\ ASequence' /\ DOMAIN built \subseteq DOMAIN built' /\ Len(built') \in DOMAIN built'
                 /\ \A t \in DOMAIN built' : built'[t].inputs \subseteq Coins
                 /\ row' \in {row, [row EXCEPT !.txHash = Len(built')]}
                 /\ inflight' \in {inflight, inflight \cup {Len(built')}}
                 /\ chain' \in {chain, InMempool(Len(built'))}
                 /\ \/ (Finishes("nil") \/ Finishes("error")) /\ UNCHANGED faults
                    \/ Fault
<1>1. CASE Returns("error") /\ UNCHANGED <<trVars, utxoVars>>
  BY <1>1, ReturnsEnds DEF sendTransfer, InStep, trVars, utxoVars
<1>2. ASSUME NEW inputs \in processAddressesUTXOs, NEW tx \in buildTransaction(inputs),
             built' = Append(built, tx),
             \/ hashNotWritten(Len(built'))
             \/ setTxHash(Len(built')) /\ sendRawTransaction(Len(built'), inputs),
             UNCHANGED <<events, from, arrived>>
      PROVE  /\ Len(built') = Len(built) + 1
             /\ ASequence' /\ DOMAIN built \subseteq DOMAIN built' /\ Len(built') \in DOMAIN built'
             /\ \A t \in DOMAIN built' : built'[t].inputs \subseteq Coins
             /\ row' \in {row, [row EXCEPT !.txHash = Len(built')]}
             /\ inflight' \in {inflight, inflight \cup {Len(built')}}
             /\ chain' \in {chain, InMempool(Len(built'))}
             /\ \/ (Finishes("nil") \/ Finishes("error")) /\ UNCHANGED faults
                \/ Fault
  <2>1. inputs \subseteq Coins /\ tx.inputs = inputs
    BY InputsAreCoins
  <2>2. PICK S : built \in Seq(S)
    BY DEF ASequence
  <2>3. built \in Seq(S \cup {tx})
    BY <2>2
  <2>4. built' \in Seq(S \cup {tx}) /\ Len(built') = Len(built) + 1 /\ Len(built) \in Nat
    BY <1>2, <2>3
  <2>5. DOMAIN built = 1..Len(built) /\ DOMAIN built' = 1..Len(built')
    BY <2>3, <2>4
  <2>6. ASSUME NEW t \in DOMAIN built' PROVE built'[t].inputs \subseteq Coins
    <3>1. CASE t = Len(built) + 1
      BY <1>2, <2>1, <2>3, <3>1
    <3>2. CASE t # Len(built) + 1
      <4>1. t \in DOMAIN built /\ built'[t] = built[t]
        BY <1>2, <2>3, <2>4, <2>5, <2>6, <3>2
      <4> QED
        BY <4>1 DEF UtxoTypeOK
    <3> QED
      BY <3>1, <3>2
  <2>7. DOMAIN built \subseteq DOMAIN built' /\ Len(built') \in DOMAIN built'
    BY <2>4, <2>5
  <2>8. pc = "func"
    BY DEF sendTransfer, InStep
  <2>9. /\ row' \in {row, [row EXCEPT !.txHash = Len(built')]}
        /\ inflight' \in {inflight, inflight \cup {Len(built')}}
        /\ chain' \in {chain, InMempool(Len(built'))}
    BY <1>2 DEF hashNotWritten, sendRawTransaction, setTxHash
  <2>10. \/ (Finishes("nil") \/ Finishes("error")) /\ UNCHANGED faults
         \/ Fault
    BY <1>2, <2>8, ReturnsEnds, AbortEnds DEF hashNotWritten, sendRawTransaction, LostRun
  <2> QED
    BY <2>4, <2>6, <2>7, <2>9, <2>10 DEF ASequence
<1> QED
  BY <1>1, <1>2 DEF sendTransfer, utxoVars, trVars

\* Every action keeps the variables of the FSM in their types.
LEMMA UtxoTypeStep == WayInv' /\ UtxoTypeOK /\ ASequence /\ [NextUtxo]_vars => UtxoTypeOK' /\ ASequence'
<1> SUFFICES ASSUME WayInv', UtxoTypeOK, ASequence, [NextUtxo]_vars PROVE UtxoTypeOK' /\ ASequence'
  OBVIOUS
<1> USE UtxoAssumption
<1>0. TypeOK'
  BY DEF WayInv, PlainInv, EngineInv, IndInv
<1>1. row \in [status: TransferStatus, txHash: Nat] /\ events \subseteq TransferStatus
  BY DEF UtxoTypeOK, TransferTypeOK
<1> DEFINE RowOK == row' \in [status: TransferStatus, txHash: Nat] /\ events' \subseteq TransferStatus
           Mine == /\ arrived \subseteq Coins
                   /\ from \in From
                   /\ \A t \in DOMAIN built : built[t].inputs \subseteq Coins
                   /\ inflight \subseteq DOMAIN built
                   /\ Sent \subseteq DOMAIN built
                   /\ \A t \in Sent : chain[t] \in 0..MinConfirmations
<1>2. Mine
  BY DEF UtxoTypeOK
<1>3. CASE UNCHANGED utxoVars
  <2>1. ASSUME NEW s \in TransferStatus, NEW r, pc = "func", setTransferStatus(s, r) PROVE RowOK
    BY <1>1, <2>1, SetStatusEnds
  <2>2. ASSUME NEW n \in 0..3, FailureWrites(n) PROVE RowOK
    BY <1>1, <2>2 DEF FailureWrites, TransferStatus
  <2>3. ASSUME UNCHANGED trVars PROVE RowOK
    BY <1>1, <2>3 DEF trVars
  <2>4. RowOK
    <3>1. CASE StepFunction
      <4>1. CASE sendTransfer
        BY <1>1, <1>3, <4>1, SendTransferCases DEF utxoVars
      <4> QED
        BY <2>1, <2>3, <3>1, <4>1 DEF StepFunction, validateRequest, waitingInMempool, waitingForTheFirstConfirmation,
           waitingConfirmations, sendSuccessEvent, InStep, TransferStatus
    <3>2. CASE OnFailure
      BY <2>2, <2>3, <3>2, OnFailureCases, FailureEventEnds
    <3> QED
      BY <2>3, <3>1, <3>2 DEF NextUtxo, Environment, Deposit, LateSubmission, NewBlock, vars
  <2>5. Mine'
    BY <1>2, <1>3 DEF utxoVars, Sent
  <2>6. ASequence'
    BY <1>3 DEF utxoVars, ASequence
  <2> QED
    BY <1>0, <2>4, <2>5, <2>6 DEF UtxoTypeOK, TransferTypeOK
<1>4. CASE sendTransfer /\ ~UNCHANGED utxoVars
  <2>1. /\ Len(built') = Len(built) + 1
        /\ ASequence' /\ DOMAIN built \subseteq DOMAIN built' /\ Len(built') \in DOMAIN built'
        /\ \A t \in DOMAIN built' : built'[t].inputs \subseteq Coins
        /\ row' \in {row, [row EXCEPT !.txHash = Len(built')]}
        /\ inflight' \in {inflight, inflight \cup {Len(built')}}
        /\ chain' \in {chain, InMempool(Len(built'))}
        /\ UNCHANGED <<events, from, arrived>>
    BY <1>4, SendTransferCases
  <2>2. Len(built') \in Nat
    BY <2>1 DEF ASequence
  <2>3. RowOK
    BY <1>1, <2>1, <2>2
  <2>4. Sent' \subseteq DOMAIN built' /\ \A t \in Sent' : chain'[t] \in 0..MinConfirmations
    BY <1>2, <2>1 DEF InMempool, Sent
  <2>5. Mine'
    BY <1>2, <2>1, <2>4
  <2> QED
    BY <1>0, <2>1, <2>3, <2>5 DEF UtxoTypeOK, TransferTypeOK
<1>5. CASE Environment
  <2>1. UNCHANGED <<row, events, from, built>> /\ RowOK
    BY <1>1, <1>5 DEF Environment, Deposit, LateSubmission, NewBlock, trVars
  <2>2. arrived' \subseteq Coins /\ inflight' \subseteq DOMAIN built
    BY <1>2, <1>5 DEF Environment, Deposit, LateSubmission, NewBlock
  <2>3. Sent' \subseteq DOMAIN built /\ \A t \in Sent' : chain'[t] \in 0..MinConfirmations
    <3>1. ASSUME NEW t \in inflight, chain' = InMempool(t)
          PROVE  Sent' \subseteq DOMAIN built /\ \A u \in Sent' : chain'[u] \in 0..MinConfirmations
      BY <1>2, <3>1 DEF Sent, InMempool
    <3>2. CASE UNCHANGED chain
      BY <1>2, <3>2 DEF Sent
    <3>3. CASE NewBlock
      BY <1>2, <3>3 DEF Sent, NewBlock
    <3> QED
      BY <1>5, <3>1, <3>2, <3>3 DEF Environment, Deposit, LateSubmission
  <2>4. ASequence'
    BY <2>1 DEF ASequence
  <2> QED
    BY <1>0, <1>2, <2>1, <2>2, <2>3, <2>4 DEF UtxoTypeOK, TransferTypeOK
<1> QED
  BY <1>3, <1>4, <1>5 DEF NextUtxo, StepFunction, validateRequest, waitingInMempool,
     waitingForTheFirstConfirmation, waitingConfirmations, sendSuccessEvent, OnFailure, vars

(***************************************************************************)
(* The transfer is completed by a confirmed transaction                    *)
(***************************************************************************)

HasConfirmations == Found /\ chain[row.txHash] >= MinConfirmations

\* A status is announced or in the row only when the step that sets it was begun,
\* and the failure only with the verdict in the snapshot.
RowInv ==
    /\ "completed" \in events \cup {row.status} => snapshot.status[send_success_event] # "unset"
    /\ "unconfirmed" \in events \cup {row.status} =>
            snapshot.status[waiting_for_the_first_confirmation] # "unset"
    /\ "in_mempool" \in events \cup {row.status} => snapshot.status[waiting_in_mempool] # "unset"
    /\ "failed" \in events \cup {row.status} => snapshot.state.IsFailed

\* Only an execution of sendTransfer that is not closed by its error has the
\* completed step as its witness.
SentOnce ==
    \/ Closed(sending)
    \/ pc = "post" /\ pos = sending /\ result = "nil"
    \/ pc = "scan" /\ status[sending] = "completed"
    \/ snapshot.status[sending] = "completed"

ResendInv ==
    \/ Len(built) =< MaxFaults - faults
    \/ SentOnce /\ Len(built) =< MaxFaults - faults + 1

UtxoInv ==
    /\ WayInv
    /\ UtxoTypeOK /\ ASequence
    /\ Done(waiting_confirmations) => HasConfirmations
    /\ RowInv
    /\ ResendInv

\* The steps by name, for the provers.
LEMMA StepNumbers ==
    /\ Steps = 1..6
    /\ StageOf[1] = 1 /\ StageOf[2] = 2 /\ StageOf[3] = 3 /\ StageOf[4] = 3 /\ StageOf[5] = 3 /\ StageOf[6] = 3
    /\ {1, 2, 3, 4, 5, 6} \subseteq Steps
BY UtxoSteps DEF Steps, UtxoStageOf

LEMMA ConfirmedStep ==
    ASSUME UtxoInv, [NextUtxo]_vars, Done(waiting_confirmations)' PROVE HasConfirmations'
<1> USE StepNumbers DEF waiting_confirmations, sending
<1>0. /\ EngineInv /\ PlainInv /\ Walk(Steps) /\ [Next]_wfVars /\ UtxoTypeOK /\ ASequence
      /\ Sent \subseteq DOMAIN built /\ (\A t \in Sent : chain[t] \in Nat) /\ MinConfirmations \in Nat
      /\ 5 \in Steps /\ 2 \in Steps
  BY UtxoIsPlain, PlainIsEngine, UtxoAssumption DEF UtxoInv, WayInv, PlainInv, UtxoTypeOK
<1>1. CASE sendTransfer
  <2>1. pc = "func" /\ pos = 2
    BY <1>1 DEF sendTransfer, InStep
  <2>2. ~Done(5)
    BY <1>0, <2>1, AheadIsUnset DEF Done
  <2> QED
    BY <1>0, <2>1, <2>2, DoneFrom
<1>2. ASSUME HasConfirmations, row'.txHash = row.txHash PROVE HasConfirmations'
  <2>1. row.txHash \in Sent /\ chain[row.txHash] >= MinConfirmations
    BY <1>2 DEF HasConfirmations, Found
  <2>2. row.txHash \in Sent' /\ chain'[row.txHash] >= chain[row.txHash]
    BY <1>0, <2>1, ChainStep
  <2>3. chain'[row.txHash] \in Int
    <3>1. UtxoTypeOK'
      BY <1>0, UtxoTypeStep, WayInductive DEF UtxoInv
    <3> QED
      BY <2>2, <3>1 DEF UtxoTypeOK
  <2> QED
    BY <1>0, <1>2, <2>1, <2>2, <2>3 DEF HasConfirmations, Found
<1>3. ASSUME ~sendTransfer PROVE row'.txHash = row.txHash
  <2>0. row \in [status: TransferStatus, txHash: Nat]
    BY <1>0 DEF UtxoTypeOK, TransferTypeOK
  <2>1. ASSUME NEW s, setTransferStatus(s, "nil") PROVE row'.txHash = row.txHash
    BY <2>0, <2>1 DEF setTransferStatus
  <2>2. ASSUME NEW n \in 0..3, FailureWrites(n) PROVE row'.txHash = row.txHash
    BY <2>0, <2>2 DEF FailureWrites
  <2>3. CASE OnFailure
    BY <2>2, <2>3, OnFailureCases, FailureEventEnds DEF trVars
  <2>4. CASE UNCHANGED trVars
    BY <2>4 DEF trVars
  <2> QED
    BY <1>3, <2>1, <2>3, <2>4 DEF NextUtxo, Environment, Deposit, LateSubmission, NewBlock, StepFunction, validateRequest,
       waitingInMempool, waitingForTheFirstConfirmation, waitingConfirmations, sendSuccessEvent, vars
<1>4. CASE Done(5)
  BY <1>1, <1>2, <1>3, <1>4 DEF UtxoInv
<1>5. CASE pc = "func" /\ pos = 5 /\ pc' = "post" /\ result' = "nil"
  <2>1. CASE waitingConfirmations
    BY <1>0, <1>5, <2>1 DEF waitingConfirmations, Returns, Return, Found, HasConfirmations, trVars, utxoVars, Sent
  <2>2. waitingConfirmations
    BY <1>5 DEF NextUtxo, Engine, Start, ExitFinished, EnterStage, AtStage, SkipStage, SkipStep, AtStep, BeginStep, AfterStep,
       EndExecute, ReturnToRiver, Crash, Forget, StepFunction, validateRequest, sendTransfer, waitingInMempool,
       waitingForTheFirstConfirmation, sendSuccessEvent, InStep, OnFailure, sendFailureEvent, failureEventLost,
       LoseFailure, IgnoreFailure, Environment, Deposit, LateSubmission, NewBlock, vars, wfVars,
       validate_request, waiting_in_mempool, waiting_for_the_first_confirmation, send_success_event
  <2> QED
    BY <2>1, <2>2
<1> QED
  BY <1>0, <1>4, <1>5, DoneFrom

LEMMA RowStep == UtxoInv /\ [NextUtxo]_vars => RowInv'
<1> SUFFICES ASSUME UtxoInv, [NextUtxo]_vars PROVE RowInv'
  OBVIOUS
<1> USE StepNumbers DEF validate_request, sending, waiting_in_mempool, waiting_for_the_first_confirmation,
                        waiting_confirmations, send_success_event
<1>0. /\ EngineInv /\ PlainInv /\ [Next]_wfVars /\ RowInv
      /\ row \in [status: TransferStatus, txHash: Nat]
      /\ 3 \in Steps /\ 4 \in Steps /\ 6 \in Steps
  BY UtxoIsPlain, PlainIsEngine DEF UtxoInv, WayInv, PlainInv, UtxoTypeOK, TransferTypeOK
<1>1. \A i \in Steps : snapshot.status[i] # "unset" => snapshot'.status[i] # "unset"
  BY <1>0, SnapshotKeeps
<1>2. CASE UNCHANGED <<events, row.status>> /\ (snapshot.state.IsFailed => snapshot'.state.IsFailed)
  BY <1>0, <1>1, <1>2 DEF RowInv
<1>3. CASE Engine /\ UNCHANGED trVars
  BY <1>0, <1>2, <1>3, EngineIsSilent DEF Lifecycle!vars
<1>4. CASE StepFunction
  <2>1. UNCHANGED snapshot /\ pc = "func" /\ snapshot.status[pos] = "processing"
    BY <1>0, <1>4, StepFunctionEnds DEF Ends, Finishes, Dies, LostRun, EngineInv, MemoryInv, IndInv, Loops, InLoop
  <2>2. ASSUME NEW s, setTransferStatus(s, "nil")
        PROVE  events' \in {events, events \cup {s}} /\ row'.status \in {row.status, s}
    BY <1>0, <2>2 DEF setTransferStatus
  <2>3. CASE sendTransfer
    BY <1>0, <1>2, <2>1, <2>3, SendTransferCases DEF UtxoInv
  <2>4. CASE UNCHANGED trVars
    BY <1>2, <2>1, <2>4 DEF trVars
  <2>5. CASE validateRequest
    BY <1>0, <2>1, <2>2, <2>4, <2>5 DEF validateRequest, RowInv
  <2>6. CASE waitingInMempool
    BY <1>0, <2>1, <2>2, <2>4, <2>6 DEF waitingInMempool, InStep, RowInv
  <2>7. CASE waitingForTheFirstConfirmation
    BY <1>0, <2>1, <2>2, <2>4, <2>7 DEF waitingForTheFirstConfirmation, InStep, RowInv
  <2>8. CASE sendSuccessEvent
    BY <1>0, <2>1, <2>2, <2>8 DEF sendSuccessEvent, InStep, RowInv
  <2> QED
    BY <1>4, <2>3, <2>4, <2>5, <2>6, <2>7, <2>8 DEF StepFunction, waitingConfirmations
<1>5. CASE OnFailure
  <2>1. ASSUME NEW n \in 0..3, FailureWrites(n) PROVE RowInv'
    <3>1. FailedState.IsFailed
      BY <1>0 DEF EngineInv, IndInv, TypeOK, FailedState, WorkflowState
    <3>2. CASE n \in {0, 1}
      BY <1>2, <2>1, <3>1, <3>2 DEF FailureWrites
    <3>3. CASE n \in {2, 3}
      <4>1. /\ snapshot'.state.IsFailed /\ events' = events \cup {"failed"}
            /\ row'.status \in {row.status, "failed"}
        BY <1>0, <2>1, <3>1, <3>3 DEF FailureWrites
      <4> QED
        BY <1>0, <1>1, <4>1 DEF RowInv
    <3> QED
      BY <3>2, <3>3
  <2> QED
    BY <1>2, <1>5, <2>1, OnFailureCases, FailureEventEnds DEF LoseFailure, IgnoreFailure, trVars
<1> QED
  BY <1>2, <1>3, <1>4, <1>5 DEF NextUtxo, Environment, Deposit, LateSubmission, NewBlock, vars, wfVars, trVars

\* An error of sendTransfer fails the transfer.
LEMMA SendingErrorIsFinal ==
    ASSUME UtxoInv, [NextUtxo]_vars, UNCHANGED faults, pc = "failure", pos = sending
    PROVE  GiveUp \/ UNCHANGED wfVars
<1> USE StepNumbers DEF sending, after_sending
<1>0. EngineInv /\ Walk(Steps) /\ faults \in Nat /\ result # "nil"
  BY DEF UtxoInv, WayInv, PlainInv, EngineInv, IndInv, TypeOK, OutcomeInv
<1>1. CurrentStep = 2
  BY <1>0, FailedIsCurrent
<1>2. ~Fault
  BY <1>0 DEF Fault
<1>3. CASE OnFailure
  BY <1>1, <1>2, <1>3, OnFailureCases, FailureEventEnds DEF LoseFailure
<1>4. ~Engine
  BY <1>2 DEF Engine, Start, ExitFinished, EnterStage, AtStage, SkipStage, SkipStep, AtStep, BeginStep, AfterStep,
     EndExecute, ReturnToRiver, Crash
<1>5. ~StepFunction
  BY StepFunctionEnds DEF Ends, Finishes, Dies
<1> QED
  BY <1>3, <1>4, <1>5 DEF NextUtxo, Environment, Deposit, LateSubmission, NewBlock, vars

LEMMA ResendStep == UtxoInv /\ [NextUtxo]_vars => ResendInv'
<1> SUFFICES ASSUME UtxoInv, [NextUtxo]_vars PROVE ResendInv'
  OBVIOUS
<1> USE StepNumbers DEF sending
<1>0. /\ EngineInv /\ PlainInv /\ [NextPlain]_wfVars /\ [Next]_wfVars /\ ResendInv
      /\ UtxoTypeOK /\ ASequence /\ 2 \in Steps
      /\ status \in [Steps -> StepStatus]
      /\ Len(built) \in Nat
  BY UtxoIsPlain, PlainIsEngine DEF UtxoInv, WayInv, PlainInv, EngineInv, IndInv, TypeOK, ASequence
<1>00. faults \in 0..MaxFaults /\ MaxFaults \in Nat
  BY WorkflowAssumption DEF UtxoInv, WayInv, PlainInv, EngineInv, IndInv, TypeOK
<1>1. faults' = faults \/ faults' = faults - 1
  BY <1>0, FaultsStep DEF Fault
<1>2. CASE sendTransfer /\ Len(built') = Len(built) + 1
  <2>1. pc = "func" /\ pos = 2
    BY <1>2 DEF sendTransfer, InStep
  <2>2. status[2] = "processing" /\ snapshot.status[2] = "processing"
    BY <1>0, <2>1 DEF EngineInv, MemoryInv, IndInv, Loops, InLoop
  <2>3. ~SentOnce
    BY <1>0, <2>1, <2>2, NotClosed DEF SentOnce
  <2>4. Len(built) =< MaxFaults - faults
    BY <1>0, <2>3 DEF ResendInv
  <2>5. CASE Fault
    BY <1>00, <1>0, <1>2, <2>4, <2>5 DEF Fault, ResendInv
  <2>6. CASE (Finishes("nil") \/ Finishes("error")) /\ UNCHANGED faults
    <3>1. SentOnce'
      BY <2>1, <2>6 DEF Finishes, Return, SentOnce, Closed
    <3> QED
      BY <1>00, <1>0, <1>2, <2>4, <2>6, <3>1 DEF ResendInv
  <2> QED
    BY <1>0, <1>2, <2>5, <2>6, SendTransferCases DEF utxoVars
<1>3. CASE UNCHANGED built /\ faults' = faults - 1
  BY <1>00, <1>0, <1>3 DEF ResendInv
<1>4. CASE UNCHANGED built /\ UNCHANGED faults
  <2> SUFFICES ASSUME SentOnce PROVE SentOnce'
    BY <1>0, <1>4 DEF ResendInv
  <2>0. ~Fault
    BY <1>00, <1>4 DEF Fault
  <2>1. CASE Closed(2)
    <3>1. (pc = "failure" /\ pos = 2) => GiveUp \/ UNCHANGED wfVars
      BY <1>4, SendingErrorIsFinal
    <3>2. Closed(2)'
      BY <1>0, <1>4, <2>1, <3>1, ClosedStays
    <3> QED
      BY <3>2 DEF SentOnce
  <2>2. CASE snapshot.status[2] = "completed"
    BY <1>0, <2>2, SnapshotKeeps DEF SentOnce, Settled
  <2>3. CASE pc = "post" /\ pos = 2 /\ result = "nil"
    <3>1. CASE AfterStep
      BY <1>0, <2>0, <2>3, <3>1 DEF AfterStep, SaveFails, Settle, SentOnce
    <3> QED
      BY <1>0, <2>0, <2>3, <3>1 DEF SentOnce, NextPlain, Engine, Start, ExitFinished, EnterStage, AtStage, SkipStage, SkipStep,
         AtStep, BeginStep, EndExecute, ReturnToRiver, Crash, StepFunc, IgnoreFailure, LoseFailure, GiveUp,
         CrashAfterVerdict, wfVars
  <2>4. CASE pc = "scan" /\ status[2] = "completed"
    <3>0. ~checkStatus
      BY <1>0, <2>4, StillOpen DEF checkStatus, Finished
    <3>1. CASE SkipStep
      BY <1>0, <2>4, <3>1 DEF SkipStep, AtStep, Settled, SentOnce
    <3>2. CASE BeginStep
      <4>1. status'[2] = "completed" /\ snapshot'.status = status'
        BY <1>0, <2>0, <2>4, <3>2 DEF BeginStep, AtStep, Settled, SaveSnapshot, SaveFails
      <4> QED
        BY <4>1 DEF SentOnce
    <3>3. CASE EndExecute
      <4>1. snapshot'.status = status
        BY <2>0, <3>3 DEF EndExecute, SaveSnapshot, SaveFails
      <4> QED
        BY <2>4, <4>1 DEF SentOnce
    <3>4. CASE UNCHANGED <<pc, status>>
      BY <2>4, <3>4 DEF SentOnce
    <3> QED
      BY <1>0, <2>0, <2>4, <3>0, <3>1, <3>2, <3>3, <3>4 DEF NextPlain, Engine, Start, ExitFinished, EnterStage,
         SkipStage, AfterStep, ReturnToRiver, Crash, StepFunc, IgnoreFailure, LoseFailure, GiveUp, CrashAfterVerdict, wfVars
  <2> QED
    BY <2>1, <2>2, <2>3, <2>4 DEF SentOnce
<1>5. UNCHANGED built \/ (sendTransfer /\ Len(built') = Len(built) + 1)
  <2>1. CASE sendTransfer
    BY <1>0, <2>1, SendTransferCases DEF utxoVars
  <2> QED
    BY <2>1 DEF NextUtxo, StepFunction, validateRequest, waitingInMempool, waitingForTheFirstConfirmation,
       waitingConfirmations, sendSuccessEvent, OnFailure, Environment, Deposit, LateSubmission, NewBlock, utxoVars, vars
<1> QED
  BY <1>1, <1>2, <1>3, <1>4, <1>5

LEMMA UtxoInductive == SpecUtxo => []UtxoInv
<1>1. InitUtxo => UtxoInv
  <2> SUFFICES ASSUME InitUtxo PROVE UtxoInv
    OBVIOUS
  <2> USE StepNumbers DEF InitUtxo, InitTransfer, Init
  <2>1. WayInv
    BY WayInductive
  <2>2. UtxoTypeOK
    <3>1. TypeOK
      BY <2>1 DEF WayInv, PlainInv, EngineInv, IndInv
    <3>2. row \in [status: TransferStatus, txHash: Nat] /\ events \subseteq TransferStatus
      BY DEF TransferStatus, None
    <3> QED
      BY <3>1, <3>2 DEF UtxoTypeOK, TransferTypeOK, Sent
  <2>3. built \in Seq({})
    OBVIOUS
  <2>4. Len(built) = 0 /\ MaxFaults \in Nat
    BY WorkflowAssumption
  <2>5. RowInv
    BY DEF RowInv
  <2>6. ~Done(waiting_confirmations)
    BY DEF Done, FreshStatus, waiting_confirmations
  <2> QED
    BY <2>1, <2>2, <2>3, <2>4, <2>5, <2>6 DEF UtxoInv, ASequence, ResendInv
<1>2. UtxoInv /\ [NextUtxo]_vars => UtxoInv'
  BY WayInductive, UtxoTypeStep, ConfirmedStep, RowStep, ResendStep DEF UtxoInv
<1> QED
  BY <1>1, <1>2, PTL DEF SpecUtxo

\* Row, webhooks, chain and the transactions of sendTransfer stay in their types:
\* in particular the node has no transaction that was not built.
THEOREM UtxoTypeCorrect == SpecUtxo => []UtxoTypeOK
<1>1. UtxoInv => UtxoTypeOK
  BY DEF UtxoInv
<1> QED
  BY <1>1, UtxoInductive, PTL

\* sendSuccessEvent completes only transfers whose transaction has the
\* confirmations, whichever of the transactions of sendTransfer the row names.
THEOREM UtxoCompletedIsConfirmed == SpecUtxo => []CompletedIsConfirmed
<1>1. UtxoInv => CompletedIsConfirmed
  <2> SUFFICES ASSUME UtxoInv, row.status = "completed" PROVE HasConfirmations
    BY DEF CompletedIsConfirmed, HasConfirmations
  <2>1. snapshot.status[6] # "unset"
    BY DEF UtxoInv, RowInv, send_success_event
  <2>2. snapshot.status[5] = "completed"
    BY <2>1, StepNumbers DEF UtxoInv, WayInv, Walk, InTurn
  <2> QED
    BY <2>2 DEF UtxoInv, Done, waiting_confirmations
<1> QED
  BY <1>1, UtxoInductive, PTL

\* sendTransfer builds one transaction, and one more for each failed write or
\* crash: an error of the node, a timeout or a retry of River never repeats it.
THEOREM UtxoResendNeedsFault == SpecUtxo => []ResendNeedsFault
<1>1. UtxoInv => ResendNeedsFault
  <2> SUFFICES ASSUME UtxoInv PROVE ResendNeedsFault
    OBVIOUS
  <2>1. Len(built) \in Nat /\ faults \in 0..MaxFaults /\ MaxFaults \in Nat
    BY WorkflowAssumption DEF UtxoInv, ASequence, WayInv, PlainInv, EngineInv, IndInv, TypeOK
  <2> QED
    BY <2>1 DEF UtxoInv, ResendInv, ResendNeedsFault
<1> QED
  BY <1>1, UtxoInductive, PTL

\* The FSM of the Bitcoin family implements TransferLifecycle: setTransferStatus is
\* its Progress, sendFailureEvent its Fail, and the rest of the workflow stutters.
THEOREM UtxoKeepsLifecycle == SpecUtxo => KeepsLifecycle
<1>1. InitUtxo => Lifecycle!Init
  BY DEF InitUtxo, InitTransfer, Init, FreshState, Lifecycle!Init
<1>2. UtxoInv /\ [NextUtxo]_vars => [Lifecycle!Next]_(Lifecycle!vars)
  <2> SUFFICES ASSUME UtxoInv, [NextUtxo]_vars PROVE [Lifecycle!Next]_(Lifecycle!vars)
    OBVIOUS
  <2> USE StepNumbers DEF validate_request, sending, waiting_in_mempool, waiting_for_the_first_confirmation,
                          waiting_confirmations, send_success_event, after_sending
  <2>0. /\ EngineInv /\ PlainInv /\ Walk(Steps) /\ RowInv /\ TransferTypeOK
        /\ row \in [status: TransferStatus, txHash: Nat]
    BY DEF UtxoInv, WayInv, PlainInv, UtxoTypeOK, TransferTypeOK
  <2>1. CASE Engine /\ UNCHANGED trVars
    BY <2>0, <2>1, EngineIsSilent
  <2>2. CASE StepFunction
    <3>1. /\ UNCHANGED snapshot /\ pc = "func" /\ pos \in Steps
          /\ \A j \in Steps : j > pos => snapshot.status[j] = "unset"
      BY <2>0, <2>2, StepFunctionEnds, AheadIsUnset
         DEF Ends, Finishes, Dies, LostRun, EngineInv, IndInv, Loops, InLoop
    <3>2. ~snapshot.state.IsFailed
      BY <2>0, <3>1, StillOpen DEF Finished
    <3>3. ASSUME NEW s \in TransferStatus \ {"failed"}, setTransferStatus(s, "nil"),
                 Lifecycle!Rank(s) >= Lifecycle!Rank(row.status)
          PROVE  [Lifecycle!Next]_(Lifecycle!vars)
      BY <2>0, <3>1, <3>2, <3>3, SetStatusProgress
    <3>4. CASE UNCHANGED <<events, row.status>>
      BY <3>1, <3>4 DEF Lifecycle!vars
    <3>5. row.status # "failed"
      BY <2>0, <3>2 DEF RowInv
    <3> USE DEF InStep, TransferStatus, Lifecycle!Rank
    <3>6. CASE validateRequest
      <4>1. row.status = "processing"
        BY <2>0, <3>1, <3>5, <3>6 DEF validateRequest, RowInv
      <4> QED
        BY <3>3, <3>4, <3>6, <4>1 DEF validateRequest, trVars
    <3>7. CASE waitingInMempool
      <4>1. row.status \in {"processing", "in_mempool"}
        BY <2>0, <3>1, <3>5, <3>7 DEF waitingInMempool, RowInv
      <4> QED
        BY <3>3, <3>4, <3>7, <4>1 DEF waitingInMempool, trVars
    <3>8. CASE waitingForTheFirstConfirmation
      <4>1. row.status \in {"processing", "in_mempool", "unconfirmed"}
        BY <2>0, <3>1, <3>5, <3>8 DEF waitingForTheFirstConfirmation, RowInv
      <4> QED
        BY <3>3, <3>4, <3>8, <4>1 DEF waitingForTheFirstConfirmation, trVars
    <3>9. CASE sendSuccessEvent
      BY <2>0, <3>3, <3>9 DEF sendSuccessEvent
    <3>10. CASE waitingConfirmations
      BY <3>4, <3>10 DEF waitingConfirmations, trVars
    <3>11. CASE sendTransfer
      <4>1. UNCHANGED <<events, row.status>>
        BY <2>0, <3>11, SendTransferCases DEF UtxoInv
      <4> QED
        BY <3>4, <4>1
    <3> QED
      BY <2>2, <3>6, <3>7, <3>8, <3>9, <3>10, <3>11 DEF StepFunction
  <2>3. CASE OnFailure
    <3>1. CASE StageOf[CurrentStep] # after_sending /\ sendFailureEvent(0..2)
      <4>1. pc = "failure" /\ result # "nil" /\ pos \in Steps /\ status[pos] = "failed"
        BY <2>0, <3>1, FailureEventEnds DEF EngineInv, OutcomeInv
      <4>2. CurrentStep = pos
        BY <2>0, <4>1, FailedIsCurrent
      <4>3. pos \in {1, 2}
        BY <3>1, <4>1, <4>2
      <4>4. status[6] = "unset"
        BY <2>0, <4>1, <4>3 DEF Walk, InTurn
      <4>5. snapshot.status[6] = "unset"
        BY <2>0, <4>1, <4>4 DEF EngineInv, MemoryInv
      <4>6. ~snapshot.state.IsFailed
        BY <2>0, <4>1, StillOpen DEF Finished
      <4>7. row.status \notin FinalStatus /\ "completed" \notin events
        BY <2>0, <4>5, <4>6 DEF RowInv, FinalStatus
      <4> QED
        BY <2>0, <3>1, <4>7, FailureIsFail
    <3>2. CASE UNCHANGED trVars /\ UNCHANGED snapshot
      BY <3>2 DEF trVars, Lifecycle!vars
    <3> QED
      BY <2>3, <3>1, <3>2, OnFailureCases DEF LoseFailure, IgnoreFailure
  <2>4. CASE UNCHANGED <<trVars, wfVars>>
    BY <2>4 DEF trVars, wfVars, Lifecycle!vars
  <2> QED
    BY <2>1, <2>2, <2>3, <2>4 DEF NextUtxo, Environment, Deposit, LateSubmission, NewBlock, vars
<1> QED
  BY <1>1, <1>2, UtxoInductive, PTL DEF SpecUtxo, KeepsLifecycle, Lifecycle!Spec

(***************************************************************************)
(* Sizes and fees.  The signatures of the emulation and of the transaction *)
(* have lengths of their own, input by input, so the sums are compared     *)
(* term by term.                                                           *)
(***************************************************************************)

Picked(s) == CHOOSE x \in s : TRUE

\* f adds v[i] for each element i of a subset of S, the way MapThenSumSet does.
AddsUp(f, v, S) == f = [s \in SUBSET S |-> IF s = {} THEN 0 ELSE v[Picked(s)] + f[s \ {Picked(s)}]]

\* A subset without one of its elements.
LEMMA SmallerSet ==
    ASSUME NEW S, NEW s \in SUBSET S, s # {}
    PROVE  Picked(s) \in s /\ s \ {Picked(s)} \in SUBSET S
BY DEF Picked

\* As many pairs as the terms of s add up to.
Blocks(v, K, s) == {p \in s \X (1..K) : p[2] <= v[p[1]]}

\* There is such a function: it counts the pairs.
LEMMA BlocksAddUp ==
    ASSUME NEW S, IsFiniteSet(S), NEW K \in Nat, NEW v \in [S -> 0..K]
    PROVE  AddsUp([s \in SUBSET S |-> Cardinality(Blocks(v, K, s))], v, S)
<1> DEFINE h == [s \in SUBSET S |-> Cardinality(Blocks(v, K, s))]
<1>0. ASSUME NEW s \in SUBSET S PROVE IsFiniteSet(Blocks(v, K, s)) /\ Cardinality(Blocks(v, K, s)) \in Nat
  <2>1. IsFiniteSet(s) /\ IsFiniteSet(1..K)
    BY FS_Subset, FS_Interval
  <2>2. IsFiniteSet(s \X (1..K))
    BY <2>1, FS_Product
  <2>3. Blocks(v, K, s) \subseteq s \X (1..K)
    BY DEF Blocks
  <2> QED
    BY <2>2, <2>3, FS_Subset, FS_CardinalityType
<1>1. ASSUME NEW s \in SUBSET S, s # {}
      PROVE  Cardinality(Blocks(v, K, s)) = v[Picked(s)] + Cardinality(Blocks(v, K, s \ {Picked(s)}))
  <2> DEFINE x == Picked(s)
             n == v[x]
             A == {x} \X (1..n)
             B == Blocks(v, K, s \ {x})
  <2>1. x \in s /\ s \ {x} \in SUBSET S /\ n \in 0..K
    BY <1>1, SmallerSet
  <2> HIDE DEF x
  <2>2. IsFiniteSet(A) /\ Cardinality(A) = n
    <3>1. IsFiniteSet({x}) /\ Cardinality({x}) = 1
      BY FS_Singleton
    <3>2. n \in Nat
      BY <2>1
    <3> HIDE DEF n
    <3>3. IsFiniteSet(1..n) /\ Cardinality(1..n) = IF 1 > n THEN 0 ELSE n - 1 + 1
      BY <3>2, FS_Interval
    <3>4. Cardinality(1..n) = n
      BY <3>2, <3>3
    <3>5. IsFiniteSet(A) /\ Cardinality(A) = Cardinality({x}) * Cardinality(1..n)
      BY <3>1, <3>3, FS_Product
    <3>6. Cardinality(A) = 1 * n
      BY <3>1, <3>4, <3>5
    <3> QED
      BY <3>2, <3>5, <3>6
  <2>3. IsFiniteSet(B) /\ Cardinality(B) \in Nat
    BY <1>0, <2>1
  <2>4. A \cap B = {}
    BY DEF Blocks
  <2>5. Blocks(v, K, s) = A \cup B
    <3>1. ASSUME NEW p \in Blocks(v, K, s) PROVE p \in A \cup B
      <4>1. p \in s \X (1..K) /\ p[2] <= v[p[1]]
        BY DEF Blocks
      <4>2. CASE p[1] = x
        BY <2>1, <4>1, <4>2
      <4>3. CASE p[1] # x
        BY <4>1, <4>3 DEF Blocks
      <4> QED
        BY <4>2, <4>3
    <3>2. ASSUME NEW p \in A PROVE p \in Blocks(v, K, s)
      <4>1. p \in s \X (1..K) /\ p[1] = x /\ p[2] <= n
        BY <2>1
      <4> QED
        BY <4>1 DEF Blocks
    <3>3. B \subseteq Blocks(v, K, s)
      BY DEF Blocks
    <3> QED
      BY <3>1, <3>2, <3>3
  <2> HIDE DEF A, B
  <2>6. Cardinality(A \cap B) = 0
    BY <2>4, FS_EmptySet
  <2>7. Cardinality(A \cup B) = Cardinality(A) + Cardinality(B) - Cardinality(A \cap B)
    BY <2>2, <2>3, FS_Union
  <2>8. Cardinality(Blocks(v, K, s)) = n + Cardinality(B)
    BY <2>1, <2>2, <2>3, <2>5, <2>6, <2>7
  <2> QED
    BY <2>8 DEF x, B
<1>2. Cardinality(Blocks(v, K, {})) = 0
  <2>1. Blocks(v, K, {}) = {}
    BY DEF Blocks
  <2> QED
    BY <2>1, FS_EmptySet
<1>3. ASSUME NEW s \in SUBSET S PROVE h[s] = IF s = {} THEN 0 ELSE v[Picked(s)] + h[s \ {Picked(s)}]
  <2>1. CASE s = {}
    BY <1>2, <2>1
  <2>2. CASE s # {}
    BY <1>1, <2>2, SmallerSet
  <2> QED
    BY <2>1, <2>2
<1> QED
  BY <1>3 DEF AddsUp

\* What holds of the empty set, and of a subset when it holds of it without one of
\* its elements, holds of a finite set: here of all the sums at once.
SumsFit(a, w, b, u, x, s) ==
    /\ a[s] \in Nat /\ w[s] \in Nat /\ b[s] \in Nat /\ u[s] \in Nat /\ x[s] \in Nat
    /\ a[s] + w[s] <= b[s] + u[s] + x[s]
    /\ 4 * a[s] + w[s] <= 4 * b[s] + u[s] + 4 * x[s]
    /\ w[s] > 0 => u[s] > 0

LEMMA SumsCompare ==
    ASSUME NEW S, IsFiniteSet(S),
           NEW va, NEW vw, NEW vb, NEW vu, NEW vx, \A i \in S : SumsFit(va, vw, vb, vu, vx, i),
           NEW a, NEW w, NEW b, NEW u, NEW x,
           AddsUp(a, va, S), AddsUp(w, vw, S), AddsUp(b, vb, S), AddsUp(u, vu, S), AddsUp(x, vx, S)
    PROVE  SumsFit(a, w, b, u, x, S)
<1> DEFINE Bad == {s \in SUBSET S : ~SumsFit(a, w, b, u, x, s)}
<1>1. SUFFICES ASSUME Bad # {} PROVE FALSE
  OBVIOUS
<1>2. IsWellFoundedOn(StrictSubsetOrdering(S), SUBSET S)
  BY FS_StrictSubsetOrderingWellFounded, FS_FiniteSubsetsOfFinite
<1>3. PICK T \in Bad : \A U \in Bad : ~(<<U, T>> \in StrictSubsetOrdering(S))
  <2>1. Bad \subseteq SUBSET S /\ Bad # {}
    BY <1>1
  <2> HIDE DEF Bad
  <2> DEFINE R == StrictSubsetOrdering(S)
             D == SUBSET S
  <2>2. IsWellFoundedOn(R, D) /\ Bad \subseteq D
    BY <1>2, <2>1
  <2> HIDE DEF R, D
  <2>3. \E T \in Bad : \A U \in Bad : ~(<<U, T>> \in R)
    BY <2>1, <2>2, WFMin
  <2> QED
    BY <2>3 DEF R
<1>4. T \in SUBSET S /\ ~SumsFit(a, w, b, u, x, T)
  BY <1>3
<1>5. T # {}
  <2>0. ASSUME NEW f, NEW v, AddsUp(f, v, S) PROVE f[{}] = 0
    BY <2>0 DEF AddsUp
  <2>1. a[{}] = 0 /\ w[{}] = 0 /\ b[{}] = 0 /\ u[{}] = 0 /\ x[{}] = 0
    BY <2>0
  <2>2. SumsFit(a, w, b, u, x, {})
    BY <2>1 DEF SumsFit
  <2> QED
    BY <1>4, <2>2
<1> DEFINE i == Picked(T)
           U == T \ {i}
<1>6. i \in S /\ i \in T /\ U \in SUBSET S
  BY <1>4, <1>5, SmallerSet
<1>7. SumsFit(a, w, b, u, x, U)
  <2>1. <<U, T>> \in StrictSubsetOrdering(S)
    BY <1>4, <1>6 DEF StrictSubsetOrdering
  <2> QED
    BY <1>3, <1>6, <2>1
<1>8. /\ a[T] = va[i] + a[U] /\ w[T] = vw[i] + w[U] /\ b[T] = vb[i] + b[U]
      /\ u[T] = vu[i] + u[U] /\ x[T] = vx[i] + x[U]
  BY <1>4, <1>5 DEF AddsUp
<1>9. SumsFit(va, vw, vb, vu, vx, i)
  BY <1>6
<1> HIDE DEF i, U
<1>10. SumsFit(a, w, b, u, x, T)
  BY <1>7, <1>8, <1>9 DEF SumsFit
<1> QED
  BY <1>4, <1>10

\* The sums of the sizes, over the inputs and over the outputs.
InputBytes(I, sig) == MapThenSumSet(LAMBDA i : 41 + SignatureScript(i, sig[i]), I)

WitnessBytes(I, sig) == MapThenSumSet(LAMBDA i : Witness(i, sig[i]), I)

OutputBytes(out, D) == MapThenSumSet(LAMBDA n : 9 + ScriptLength(out[n].address), D)

LongerBy(i, m, n) == Max({0, SignatureScript(i, n) + Witness(i, n) - SignatureScript(i, m) - Witness(i, m)})

LongerBytes(I, emu, sig) == MapThenSumSet(LAMBDA i : LongerBy(i, emu[i], sig[i]), I)

\* The bytes of an input, all of them below 200.
LEMMA InputTerms ==
    ASSUME NEW I, NEW sig \in [I -> 0..72], NEW i \in I
    PROVE  41 + SignatureScript(i, sig[i]) \in 0..200 /\ Witness(i, sig[i]) \in 0..200
BY DEF SignatureScript, Witness

\* What an input has more than its emulation is at most what its signature has more.
LEMMA LongerTerms ==
    ASSUME NEW i, NEW m \in 0..72, NEW n \in 0..72
    PROVE  /\ LongerBy(i, m, n) \in 0..200
           /\ SignatureScript(i, n) + Witness(i, n) <= SignatureScript(i, m) + Witness(i, m) + LongerBy(i, m, n)
           /\ 4 * SignatureScript(i, n) + Witness(i, n)
                <= 4 * SignatureScript(i, m) + Witness(i, m) + 4 * LongerBy(i, m, n)
           /\ Witness(i, n) > 0 => Witness(i, m) > 0
<1>1. ASSUME NEW d \in Int PROVE Max({0, d}) \in {0, d} /\ Max({0, d}) >= 0 /\ Max({0, d}) >= d
  <2>1. \E x \in {0, d} : \A y \in {0, d} : x >= y
    OBVIOUS
  <2> QED
    BY <2>1 DEF Max
<1> DEFINE d == SignatureScript(i, n) + Witness(i, n) - SignatureScript(i, m) - Witness(i, m)
<1>2. d \in Int /\ LongerBy(i, m, n) = Max({0, d})
  BY DEF LongerBy, SignatureScript, Witness
<1>3. LongerBy(i, m, n) \in {0, d} /\ LongerBy(i, m, n) >= 0 /\ LongerBy(i, m, n) >= d
  BY <1>1, <1>2
<1>4. CASE i.script.kind = "P2PKH"
  BY <1>3, <1>4 DEF SignatureScript, Witness
<1>5. CASE i.script.kind = "P2WPKH"
  BY <1>3, <1>5 DEF SignatureScript, Witness
<1>6. CASE i.script.kind \notin {"P2PKH", "P2WPKH"}
  BY <1>3, <1>6 DEF SignatureScript, Witness
<1> QED
  BY <1>4, <1>5, <1>6

\* The sums are those of AddsUp.
LEMMA InputSums ==
    ASSUME NEW I, IsFiniteSet(I), NEW sig \in [I -> 0..72]
    PROVE  /\ \E f : AddsUp(f, [i \in I |-> 41 + SignatureScript(i, sig[i])], I) /\ f[I] = InputBytes(I, sig)
           /\ \E f : AddsUp(f, [i \in I |-> Witness(i, sig[i])], I) /\ f[I] = WitnessBytes(I, sig)
<1>1. \E f : AddsUp(f, [i \in I |-> 41 + SignatureScript(i, sig[i])], I) /\ f[I] = InputBytes(I, sig)
  <2> DEFINE v == [i \in I |-> 41 + SignatureScript(i, sig[i])]
             F(f) == f = [s \in SUBSET I |-> IF s = {} THEN 0
                                             ELSE (41 + SignatureScript(Picked(s), sig[Picked(s)])) + f[s \ {Picked(s)}]]
             g == CHOOSE f : F(f)
  <2>1. InputBytes(I, sig) = g[I]
    BY DEF InputBytes, MapThenSumSet, MapThenFoldSet, Picked
  <2>2. ASSUME NEW f PROVE F(f) <=> AddsUp(f, v, I)
    <3>1. ASSUME NEW s \in SUBSET I, s # {} PROVE 41 + SignatureScript(Picked(s), sig[Picked(s)]) = v[Picked(s)]
      BY <3>1, SmallerSet
    <3> HIDE DEF v
    <3>2. [s \in SUBSET I |-> IF s = {} THEN 0
                              ELSE (41 + SignatureScript(Picked(s), sig[Picked(s)])) + f[s \ {Picked(s)}]]
          = [s \in SUBSET I |-> IF s = {} THEN 0 ELSE v[Picked(s)] + f[s \ {Picked(s)}]]
      BY <3>1
    <3> QED
      BY <3>2 DEF AddsUp
  <2>3. v \in [I -> 0..200]
    BY InputTerms
  <2> HIDE DEF v
  <2>4. AddsUp([s \in SUBSET I |-> Cardinality(Blocks(v, 200, s))], v, I)
    BY <2>3, BlocksAddUp
  <2>5. AddsUp(g, v, I)
    BY <2>2, <2>4
  <2> QED
    BY <2>1, <2>5 DEF v
<1>2. \E f : AddsUp(f, [i \in I |-> Witness(i, sig[i])], I) /\ f[I] = WitnessBytes(I, sig)
  <2> DEFINE v == [i \in I |-> Witness(i, sig[i])]
             F(f) == f = [s \in SUBSET I |-> IF s = {} THEN 0
                                             ELSE Witness(Picked(s), sig[Picked(s)]) + f[s \ {Picked(s)}]]
             g == CHOOSE f : F(f)
  <2>1. WitnessBytes(I, sig) = g[I]
    BY DEF WitnessBytes, MapThenSumSet, MapThenFoldSet, Picked
  <2>2. ASSUME NEW f PROVE F(f) <=> AddsUp(f, v, I)
    <3>1. ASSUME NEW s \in SUBSET I, s # {} PROVE Witness(Picked(s), sig[Picked(s)]) = v[Picked(s)]
      BY <3>1, SmallerSet
    <3> HIDE DEF v
    <3>2. [s \in SUBSET I |-> IF s = {} THEN 0 ELSE Witness(Picked(s), sig[Picked(s)]) + f[s \ {Picked(s)}]]
          = [s \in SUBSET I |-> IF s = {} THEN 0 ELSE v[Picked(s)] + f[s \ {Picked(s)}]]
      BY <3>1
    <3> QED
      BY <3>2 DEF AddsUp
  <2>3. v \in [I -> 0..200]
    BY InputTerms
  <2> HIDE DEF v
  <2>4. AddsUp([s \in SUBSET I |-> Cardinality(Blocks(v, 200, s))], v, I)
    BY <2>3, BlocksAddUp
  <2>5. AddsUp(g, v, I)
    BY <2>2, <2>4
  <2> QED
    BY <2>1, <2>5 DEF v
<1> QED
  BY <1>1, <1>2

\* The same for the bytes that became more ...
LEMMA LongerSums ==
    ASSUME NEW I, IsFiniteSet(I), NEW emu \in [I -> 0..72], NEW sig \in [I -> 0..72]
    PROVE  \E f : AddsUp(f, [i \in I |-> LongerBy(i, emu[i], sig[i])], I) /\ f[I] = LongerBytes(I, emu, sig)
<1> DEFINE v == [i \in I |-> LongerBy(i, emu[i], sig[i])]
           F(f) == f = [s \in SUBSET I |-> IF s = {} THEN 0
                                           ELSE LongerBy(Picked(s), emu[Picked(s)], sig[Picked(s)]) + f[s \ {Picked(s)}]]
           g == CHOOSE f : F(f)
<1>1. LongerBytes(I, emu, sig) = g[I]
  BY DEF LongerBytes, MapThenSumSet, MapThenFoldSet, Picked
<1>2. ASSUME NEW f PROVE F(f) <=> AddsUp(f, v, I)
  <2>1. ASSUME NEW s \in SUBSET I, s # {} PROVE LongerBy(Picked(s), emu[Picked(s)], sig[Picked(s)]) = v[Picked(s)]
    BY <2>1, SmallerSet
  <2> HIDE DEF v
  <2>2. [s \in SUBSET I |-> IF s = {} THEN 0
                            ELSE LongerBy(Picked(s), emu[Picked(s)], sig[Picked(s)]) + f[s \ {Picked(s)}]]
        = [s \in SUBSET I |-> IF s = {} THEN 0 ELSE v[Picked(s)] + f[s \ {Picked(s)}]]
    BY <2>1
  <2> QED
    BY <2>2 DEF AddsUp
<1>3. v \in [I -> 0..200]
  <2>1. ASSUME NEW i \in I PROVE LongerBy(i, emu[i], sig[i]) \in 0..200
    BY LongerTerms
  <2> QED
    BY <2>1
<1> HIDE DEF v
<1>4. AddsUp([s \in SUBSET I |-> Cardinality(Blocks(v, 200, s))], v, I)
  BY <1>3, BlocksAddUp
<1>5. AddsUp(g, v, I)
  BY <1>2, <1>4
<1> QED
  BY <1>1, <1>5 DEF v

\* ... and for one output.
LEMMA OneOutput ==
    ASSUME NEW out, ScriptLength(out[1].address) \in Nat PROVE OutputBytes(out, {1}) \in Nat
<1> DEFINE o == 9 + ScriptLength(out[1].address)
           F(f) == f = [s \in SUBSET {1} |-> IF s = {} THEN 0
                                             ELSE (9 + ScriptLength(out[Picked(s)].address)) + f[s \ {Picked(s)}]]
           g == CHOOSE f : F(f)
           h == [s \in SUBSET {1} |-> IF s = {} THEN 0 ELSE o]
<1>1. OutputBytes(out, {1}) = g[{1}]
  BY DEF OutputBytes, MapThenSumSet, MapThenFoldSet, Picked
<1>2. \A s \in SUBSET {1} : s # {} => s = {1} /\ Picked(s) = 1 /\ s \ {Picked(s)} = {}
  BY DEF Picked
<1>3. F(h)
  <2>1. ASSUME NEW s \in SUBSET {1}
        PROVE  h[s] = IF s = {} THEN 0 ELSE (9 + ScriptLength(out[Picked(s)].address)) + h[s \ {Picked(s)}]
    <3>1. CASE s = {}
      BY <3>1
    <3>2. CASE s # {}
      <4>1. s = {1} /\ Picked(s) = 1 /\ s \ {Picked(s)} = {}
        BY <1>2, <3>2
      <4> QED
        BY <4>1
    <3> QED
      BY <3>1, <3>2
  <2> QED
    BY <2>1
<1>4. F(g)
  BY <1>3
<1> HIDE DEF g
<1>5. g[{}] = 0
  BY <1>4
<1>6. g[{1}] = o + g[{}]
  <2>1. {1} \in SUBSET {1} /\ {1} # {}
    OBVIOUS
  <2>2. Picked({1}) = 1 /\ {1} \ {Picked({1})} = {}
    BY <1>2, <2>1
  <2>3. g[{1}] = (9 + ScriptLength(out[Picked({1})].address)) + g[{1} \ {Picked({1})}]
    BY <1>4, <2>1
  <2> QED
    BY <2>2, <2>3
<1> QED
  BY <1>1, <1>5, <1>6

\* What newTx makes: finitely many inputs and one output.
LEMMA NewTxIs ==
    ASSUME NEW coins \in SUBSET Coins, NEW tx \in newTx(coins)
    PROVE  IsFiniteSet(tx.in) /\ DOMAIN tx.out = {1} /\ tx.out[1].address = To
<1> DEFINE I == {TxInput(c, from.key, Script(from), Amount[c]) : c \in coins}
           f == [c \in coins |-> TxInput(c, from.key, Script(from), Amount[c])]
<1>1. IsFiniteSet(I)
  <2>1. IsFiniteSet(coins)
    BY ScriptsAssumption, FS_Subset
  <2>2. f \in Surjection(coins, I)
    BY DEF Surjection
  <2> HIDE DEF f, I
  <2> QED
    BY <2>1, <2>2, FS_Surjection
<1> HIDE DEF I
<1>2. PICK t \in AddInputs(NewTxBuilder, I) : tx \in AddOutput(t, To, Worth(coins))
  BY DEF newTx, I
<1>3. t.in = I /\ t.out = <<>>
  BY <1>2 DEF AddInputs, NewTxBuilder
<1>4. tx.in = I /\ tx.out = <<[address |-> To, value |-> Worth(coins)]>>
  BY <1>2, <1>3 DEF AddOutput, AddInputs, NewTxBuilder
<1> QED
  BY <1>1, <1>4

\* Scripts have a length.
LEMMA Lengths == ASSUME NEW a \in From \cup {To} PROVE ScriptLength(a) \in Nat
BY ScriptsAssumption DEF ScriptLength, Script, AddressType

\* A transaction is larger than its emulation by the bytes that signatures became
\* longer, at most: its size, and its weight.
LEMMA SizesDiffer ==
    ASSUME NEW coins \in SUBSET Coins, NEW tx \in newTx(coins),
           NEW emu \in [tx.in -> Signature], NEW sig \in [tx.in -> Signature]
    PROVE  /\ SerializeSizeStripped(tx, sig) \in Nat /\ SerializeSize(tx, sig) \in Nat
           /\ SerializeSizeStripped(tx, emu) \in Nat /\ SerializeSize(tx, emu) \in Nat
           /\ Longer(tx, emu, sig) \in Nat
           /\ SerializeSize(tx, sig) <= SerializeSize(tx, emu) + Longer(tx, emu, sig)
           /\ 3 * SerializeSizeStripped(tx, sig) + SerializeSize(tx, sig)
                <= 3 * SerializeSizeStripped(tx, emu) + SerializeSize(tx, emu) + 4 * Longer(tx, emu, sig)
<1> DEFINE I == tx.in
           va(r) == [i \in I |-> 41 + SignatureScript(i, r[i])]
           vw(r) == [i \in I |-> Witness(i, r[i])]
           vx == [i \in I |-> LongerBy(i, emu[i], sig[i])]
<1>0. IsFiniteSet(I) /\ DOMAIN tx.out = {1} /\ tx.out[1].address = To
  BY NewTxIs
<1>1. emu \in [I -> 0..72] /\ sig \in [I -> 0..72]
  <2>1. Signature \subseteq 0..72
    BY SignatureAssumption
  <2>2. emu \in [I -> Signature] /\ sig \in [I -> Signature]
    OBVIOUS
  <2> HIDE DEF I
  <2> QED
    BY <2>1, <2>2
<1>2. \E f : AddsUp(f, va(sig), I) /\ f[I] = InputBytes(I, sig)
  BY <1>0, <1>1, InputSums
<1>3. \E f : AddsUp(f, vw(sig), I) /\ f[I] = WitnessBytes(I, sig)
  BY <1>0, <1>1, InputSums
<1>4. \E f : AddsUp(f, va(emu), I) /\ f[I] = InputBytes(I, emu)
  BY <1>0, <1>1, InputSums
<1>5. \E f : AddsUp(f, vw(emu), I) /\ f[I] = WitnessBytes(I, emu)
  BY <1>0, <1>1, InputSums
<1>6. \E f : AddsUp(f, vx, I) /\ f[I] = LongerBytes(I, emu, sig)
  BY <1>0, <1>1, LongerSums
<1>7. \A i \in I : SumsFit(va(sig), vw(sig), va(emu), vw(emu), vx, i)
  <2> TAKE i \in I
  <2>1. emu[i] \in 0..72 /\ sig[i] \in 0..72
    BY <1>1
  <2>2. /\ 41 + SignatureScript(i, sig[i]) \in 0..200 /\ Witness(i, sig[i]) \in 0..200
        /\ 41 + SignatureScript(i, emu[i]) \in 0..200 /\ Witness(i, emu[i]) \in 0..200
        /\ SignatureScript(i, sig[i]) \in Nat /\ SignatureScript(i, emu[i]) \in Nat
    BY <1>1, <2>1, InputTerms DEF SignatureScript
  <2> DEFINE s == SignatureScript(i, sig[i])
             e == SignatureScript(i, emu[i])
             ws == Witness(i, sig[i])
             we == Witness(i, emu[i])
             l == LongerBy(i, emu[i], sig[i])
  <2>3. l \in 0..200 /\ s + ws <= e + we + l /\ 4 * s + ws <= 4 * e + we + 4 * l /\ (ws > 0 => we > 0)
    BY <2>1, LongerTerms
  <2>4. /\ va(sig)[i] = 41 + s /\ va(emu)[i] = 41 + e /\ vw(sig)[i] = ws /\ vw(emu)[i] = we /\ vx[i] = l
    OBVIOUS
  <2> HIDE DEF va, vw, vx, s, e, ws, we, l
  <2>5. 41 + s \in Nat /\ 41 + e \in Nat /\ ws \in Nat /\ we \in Nat /\ l \in Nat /\ s \in Nat /\ e \in Nat
    BY <2>2, <2>3 DEF s, e, ws, we
  <2> QED
    BY <2>3, <2>4, <2>5 DEF SumsFit
<1> DEFINE A == InputBytes(I, sig)
           W == WitnessBytes(I, sig)
           B == InputBytes(I, emu)
           V == WitnessBytes(I, emu)
           X == LongerBytes(I, emu, sig)
           O == OutputBytes(tx.out, {1})
<1>8. /\ A \in Nat /\ W \in Nat /\ B \in Nat /\ V \in Nat /\ X \in Nat
      /\ A + W <= B + V + X /\ 4 * A + W <= 4 * B + V + 4 * X /\ (W > 0 => V > 0)
  <2> HIDE DEF I, va, vw, vx
  <2>1. PICK a : AddsUp(a, va(sig), I) /\ a[I] = A
    BY <1>2
  <2>2. PICK w : AddsUp(w, vw(sig), I) /\ w[I] = W
    BY <1>3
  <2>3. PICK b : AddsUp(b, va(emu), I) /\ b[I] = B
    BY <1>4
  <2>4. PICK u : AddsUp(u, vw(emu), I) /\ u[I] = V
    BY <1>5
  <2>5. PICK x : AddsUp(x, vx, I) /\ x[I] = X
    BY <1>6
  <2>6. SumsFit(a, w, b, u, x, I)
    BY <1>0, <1>7, <2>1, <2>2, <2>3, <2>4, <2>5, SumsCompare
  <2> HIDE DEF A, W, B, V, X
  <2> QED
    BY <2>1, <2>2, <2>3, <2>4, <2>5, <2>6 DEF SumsFit
<1>9. O \in Nat
  BY <1>0, Lengths, OneOutput
<1>10. /\ SerializeSizeStripped(tx, sig) = 10 + A + O /\ SerializeSizeStripped(tx, emu) = 10 + B + O
       /\ SerializeSize(tx, sig) = 10 + A + O + (IF W > 0 THEN 2 + W ELSE 0)
       /\ SerializeSize(tx, emu) = 10 + B + O + (IF V > 0 THEN 2 + V ELSE 0)
       /\ Longer(tx, emu, sig) = X
  BY <1>0 DEF SerializeSizeStripped, SerializeSize, Longer, InputBytes, WitnessBytes, OutputBytes, LongerBytes, LongerBy
<1> HIDE DEF A, W, B, V, X, O
<1> QED
  BY <1>8, <1>9, <1>10

\* Rounding up a quarter adds no more than the whole quarters.
LEMMA QuarterRounded ==
    ASSUME NEW a \in Nat, NEW b \in Nat, NEW m \in Nat, a <= b + 4 * m
    PROVE  (a + 3) \div 4 <= (b + 3) \div 4 + m
OBVIOUS

\* Multiplying with the fee per byte.
LEMMA TimesFee ==
    ASSUME NEW a \in Nat, NEW b \in Nat, NEW n \in Nat, NEW f \in Nat
    PROVE  /\ a <= b + n => a * f <= b * f + n * f
           /\ a <= b + 4 * n => a * f <= b * f + 4 * (n * f)
           /\ a * f \in Nat /\ n * f \in Nat
<1>1. \A x, y \in Nat : x <= y => x * f <= y * f
  OBVIOUS
<1>2. (b + n) * f = b * f + n * f
  OBVIOUS
<1>3. (b + 4 * n) * f = b * f + 4 * (n * f)
  OBVIOUS
<1>4. b + n \in Nat /\ b + 4 * n \in Nat
  OBVIOUS
<1>5. a <= b + n => a * f <= (b + n) * f
  BY <1>1, <1>4
<1>6. a <= b + 4 * n => a * f <= (b + 4 * n) * f
  BY <1>1, <1>4
<1>7. a * f \in Nat /\ n * f \in Nat
  OBVIOUS
<1> QED
  BY <1>2, <1>3, <1>5, <1>6, <1>7

\* The fee per byte is a natural number, whichever of the three it comes from.
LEMMA FeePerByteType == feePerByte \in Nat
BY UtxoAssumption DEF feePerByte

\* The fee for the size differs by the fee of those bytes, on every chain.
LEMMA FeesDiffer ==
    ASSUME NEW coins \in SUBSET Coins, NEW tx \in newTx(coins),
           NEW emu \in [tx.in -> Signature], NEW sig \in [tx.in -> Signature], NEW b
    PROVE  /\ CalculateTxSize(b, tx, sig, feePerByte) \in Nat /\ CalculateTxSize(b, tx, emu, feePerByte) \in Nat
           /\ Longer(tx, emu, sig) * feePerByte \in Nat
           /\ CalculateTxSize(b, tx, sig, feePerByte)
                <= CalculateTxSize(b, tx, emu, feePerByte) + Longer(tx, emu, sig) * feePerByte
<1> DEFINE n == Longer(tx, emu, sig)
           f == feePerByte
           T(r) == SerializeSize(tx, r)
           W(r) == 3 * SerializeSizeStripped(tx, r) + SerializeSize(tx, r)
<1>1. f \in Nat
  BY FeePerByteType
<1>2. /\ n \in Nat /\ T(sig) \in Nat /\ T(emu) \in Nat /\ W(sig) \in Nat /\ W(emu) \in Nat
      /\ T(sig) <= T(emu) + n /\ W(sig) <= W(emu) + 4 * n
  BY SizesDiffer
<1>3. \A r : CalculateTxSize(b, tx, r, f) = IF b = "bitcoincash" THEN T(r) * f ELSE (W(r) * f + 3) \div 4
  BY DEF CalculateTxSize, BchCalculateTxSize
<1> HIDE DEF n, f, T, W
<1>4. T(sig) * f <= T(emu) * f + n * f /\ T(sig) * f \in Nat /\ T(emu) * f \in Nat /\ n * f \in Nat
  BY <1>1, <1>2, TimesFee
<1>5. W(sig) * f <= W(emu) * f + 4 * (n * f) /\ W(sig) * f \in Nat /\ W(emu) * f \in Nat
  BY <1>1, <1>2, TimesFee
<1>6. /\ (W(sig) * f + 3) \div 4 <= (W(emu) * f + 3) \div 4 + n * f
      /\ (W(sig) * f + 3) \div 4 \in Nat /\ (W(emu) * f + 3) \div 4 \in Nat
  BY <1>4, <1>5, QuarterRounded
<1>7. /\ CalculateTxSize(b, tx, sig, f) \in Nat /\ CalculateTxSize(b, tx, emu, f) \in Nat
      /\ CalculateTxSize(b, tx, sig, f) <= CalculateTxSize(b, tx, emu, f) + n * f
  BY <1>3, <1>4, <1>6
<1> QED
  BY <1>4, <1>7 DEF n, f

\* So the fee lacks nothing else.
LEMMA ShortOfFee ==
    ASSUME NEW coins \in SUBSET Coins, NEW built1 \in buildTransaction(coins) PROVE built1.short = 0
<1> DEFINE Size(t, r) == CalculateTxSize(from.network, t, r, feePerByte)
           More(t, emu, sig) == Longer(t, emu, sig) * feePerByte
<1>1. PICK t \in newTx(coins) : \E emu, sig \in [t.in -> Signature] : built1 \in signed(coins, t, emu, sig)
  BY DEF buildTransaction
<1>2. PICK emu \in [t.in -> Signature], sig \in [t.in -> Signature] : built1 \in signed(coins, t, emu, sig)
  BY <1>1
<1>3. PICK fee \in EmulateTxSize(from.network, t, emu, feePerByte) :
         built1.short = Max({0, Size(t, sig) - (fee + More(t, emu, sig))})
  BY <1>2 DEF signed
<1>4. fee = Size(t, emu)
  BY <1>3 DEF EmulateTxSize
<1>5. /\ Size(t, sig) \in Nat /\ Size(t, emu) \in Nat /\ More(t, emu, sig) \in Nat
      /\ Size(t, sig) <= Size(t, emu) + More(t, emu, sig)
  BY FeesDiffer
<1> HIDE DEF Size, More
<1>6. \A d \in Int : d <= 0 => Max({0, d}) = 0
  <2> TAKE d \in Int
  <2>1. d <= 0 => \A x \in {0, d} : (\A y \in {0, d} : x >= y) => x = 0
    OBVIOUS
  <2>2. d <= 0 => \E x \in {0, d} : \A y \in {0, d} : x >= y
    OBVIOUS
  <2> QED
    BY <2>1, <2>2 DEF Max
<1>7. Size(t, sig) - (fee + More(t, emu, sig)) \in Int /\ Size(t, sig) - (fee + More(t, emu, sig)) <= 0
  BY <1>4, <1>5
<1> QED
  BY <1>3, <1>6, <1>7

\* Only sendTransfer builds a transaction, and what it builds is paid for.
LEMMA FeeStep == UtxoInv /\ FeeIsPaid /\ [NextUtxo]_vars => FeeIsPaid'
<1> SUFFICES ASSUME UtxoInv, FeeIsPaid, [NextUtxo]_vars PROVE FeeIsPaid'
  OBVIOUS
<1>0. UtxoTypeOK /\ ASequence
  BY DEF UtxoInv
<1>1. CASE UNCHANGED built
  BY <1>1 DEF FeeIsPaid
<1>2. ASSUME NEW inputs \in processAddressesUTXOs, NEW tx \in buildTransaction(inputs),
             built' = Append(built, tx)
      PROVE  FeeIsPaid'
  <2>1. inputs \in SUBSET Coins
    BY <1>0, InputsAreCoins
  <2>2. tx.short = 0
    BY <2>1, ShortOfFee
  <2>3. PICK S : built \in Seq(S)
    BY <1>0 DEF ASequence
  <2>4. built \in Seq(S \cup {tx}) /\ tx \in S \cup {tx}
    BY <2>3
  <2>5. ASSUME NEW t \in DOMAIN built' PROVE built'[t] = tx \/ (t \in DOMAIN built /\ built'[t] = built[t])
    <3> HIDE DEF FeeIsPaid
    <3> QED
      BY <1>2, <2>4, <2>5
  <2> QED
    BY <2>2, <2>5 DEF FeeIsPaid
<1>3. CASE sendTransfer
  BY <1>1, <1>2, <1>3 DEF sendTransfer, utxoVars
<1> QED
  BY <1>1, <1>3 DEF NextUtxo, StepFunction, validateRequest, waitingInMempool, waitingForTheFirstConfirmation,
     waitingConfirmations, sendSuccessEvent, OnFailure, Environment, Deposit, LateSubmission, NewBlock, utxoVars, vars

\* buildTransaction takes the fee of an emulation of the transaction, and still the
\* fee pays for all but the bytes by which signatures became longer: for every kind
\* of address, any number of outputs that are swept and all lengths of signatures.
THEOREM UtxoFeeIsPaid == SpecUtxo => []FeeIsPaid
<1>1. InitUtxo => FeeIsPaid
  BY DEF InitUtxo, FeeIsPaid
<1> QED
  BY <1>1, FeeStep, UtxoInductive, PTL DEF SpecUtxo

=============================================================================
