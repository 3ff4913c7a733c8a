------------------------ MODULE NotificationsProofs ------------------------
(***************************************************************************)
(* What the client is told: which events become webhooks and with what     *)
(* flag (ChainEvents), and how the webhooks are sent (Webhooks).           *)
(***************************************************************************)
EXTENDS Webhooks, ChainEvents, FiniteSetTheorems, TLAPS

(***************************************************************************)
(* Webhooks: nothing that is created is lost, nothing that is recorded as  *)
(* sent is posted again and statuses keep their order, for any webhooks,   *)
(* limits, chunks and numbers of restarts and failed writes.               *)
(***************************************************************************)

Answered == {w \in Hook : \E ok \in BOOLEAN : <<w, ok>> \in answered}

\* The part of the types that the arguments need.
Types ==
    /\ rows \in [Hook -> Row]
    /\ todo \subseteq Hook /\ rest \subseteq Hook /\ chunk \subseteq Hook
    /\ answered \subseteq Hook \X BOOLEAN
    /\ creates \in Nat /\ made \subseteq Hook

\* An answer 202 that is still to be written down was one.
AnswersAreTrue == \A w \in Hook : <<w, TRUE>> \in answered => w \in accepted

LossInv == Types /\ AnswersAreTrue /\ NothingIsLost

\* The parts of a pass do not overlap, and everything in them is unsent.
PassInv ==
    /\ todo \cap rest = {} /\ todo \cap chunk = {} /\ rest \cap chunk = {}
    /\ todo \cap Answered = {} /\ rest \cap Answered = {} /\ chunk \cap Answered = {}
    /\ \A w \in todo \cup rest \cup chunk : rows[w].status = "new"
    /\ ~sending => todo = {} /\ rest = {} /\ chunk = {} /\ answered = {}

LEMMA EarliestIsSubset ==
    ASSUME NEW S, NEW n
    PROVE  Earliest(S, n) \subseteq S
BY DEF Earliest

LEMMA DueIsNew == GetUnsent \subseteq {w \in Hook : rows[w].status = "new"}
BY EarliestIsSubset DEF GetUnsent, Due

LEMMA AbsentIsRow == Absent \in Row /\ Absent.status = "none"
BY DEF Absent, Row

LEMMA TouchedIsRow ==
    ASSUME NEW r \in Row
    PROVE  Touched(r) \in Row /\ Touched(r).status = r.status
<1>1. CASE r.firstDay
  BY <1>1 DEF Touched, Row
<1>2. CASE ~r.firstDay
  BY <1>2 DEF Touched, Row
<1> QED
  BY <1>1, <1>2

LEMMA InitTypes == Init => Types
BY AbsentIsRow DEF Init, Types

LEMMA StepTypes == Types /\ [Next]_vars => Types'
<1> SUFFICES ASSUME Types, [Next]_vars PROVE Types'
  OBVIOUS
<1> USE DEF Types, passVars, tableVars
<1>1. ASSUME NEW w \in Hook, Create(w) PROVE Types'
  <2>1. [Absent EXCEPT !.status = "new", !.seq = creates'] \in Row
    <3>1. creates' \in Nat
      BY <1>1 DEF Create
    <3> QED
      BY <3>1 DEF Absent, Row
  <2>2. [Touched(rows[w]) EXCEPT !.status = "new"] \in Row
    BY TouchedIsRow DEF Row
  <2> QED
    BY <1>1, <2>1, <2>2 DEF Create
<1>2. ASSUME NEW w \in Hook, DayEnds(w) PROVE Types'
  BY <1>2 DEF DayEnds, Row
<1>3. ASSUME NEW w \in Hook, WaitEnds(w) PROVE Types'
  BY <1>3 DEF WaitEnds, Row
<1>4. CASE Cleanup
  BY <1>4, AbsentIsRow DEF Cleanup, Delete
<1>5. CASE Poll
  BY <1>5, DueIsNew DEF Poll
<1>6. CASE TakeChunk
  BY <1>6, EarliestIsSubset DEF TakeChunk
<1>7. CASE Finish
  BY <1>7 DEF Finish
<1>8. ASSUME NEW w \in Hook, NEW ok \in BOOLEAN, Post(w, ok) PROVE Types'
  BY <1>8 DEF Post
<1>9. ASSUME NEW w \in Hook, NEW ok \in BOOLEAN, NEW written \in BOOLEAN,
             Record(w, ok, written)
      PROVE  Types'
  <2>1. rows' \in [Hook -> Row]
    <3>1. Recorded(w, ok) \in Row
      BY AbsentIsRow, TouchedIsRow DEF Recorded, Row
    <3> QED
      BY <1>9, <3>1 DEF Record, Write
  <2> QED
    BY <1>9, <2>1 DEF Record
<1>10. CASE Restart
  BY <1>10 DEF Restart
<1>11. CASE UNCHANGED vars
  BY <1>11 DEF vars
<1> QED
  BY <1>1, <1>2, <1>3, <1>4, <1>5, <1>6, <1>7, <1>8, <1>9, <1>10, <1>11 DEF Next

\* What the actions that write rows do to the statuses.
LEMMA StatusOfCreate ==
    ASSUME Types, NEW w \in Hook, Create(w)
    PROVE  \A v \in Hook : rows'[v].status = IF v = w THEN "new" ELSE rows[v].status
<1>1. [Absent EXCEPT !.status = "new", !.seq = creates'].status = "new"
  BY DEF Absent
<1>2. [Touched(rows[w]) EXCEPT !.status = "new"].status = "new"
  BY TouchedIsRow DEF Types, Row
<1> QED
  BY <1>1, <1>2 DEF Types, Create

LEMMA StatusOfTime ==
    ASSUME Types, NEW w \in Hook, DayEnds(w) \/ WaitEnds(w)
    PROVE  \A v \in Hook : rows'[v].status = rows[v].status
BY DEF Types, DayEnds, WaitEnds, Row

LEMMA StatusOfCleanup ==
    ASSUME Types, Cleanup
    PROVE  \A v \in Hook : rows[v].status = "sent" \/ rows'[v].status = rows[v].status
BY DEF Types, Cleanup, Delete

LEMMA StatusOfRecord ==
    ASSUME Types, NEW w \in Hook, NEW ok \in BOOLEAN, NEW written \in BOOLEAN,
           Record(w, ok, written)
    PROVE  \A v \in Hook : (ok /\ v = w) \/ rows'[v].status = rows[v].status
<1>1. CASE ok
  BY <1>1 DEF Types, Record, Write
<1>2. CASE ~ok
  <2>1. Recorded(w, ok).status = rows[w].status
    BY <1>2, TouchedIsRow DEF Recorded, Types
  <2> QED
    BY <2>1 DEF Types, Record, Write
<1> QED
  BY <1>1, <1>2

LEMMA StepLoss == LossInv /\ [Next]_vars => LossInv'
<1> SUFFICES ASSUME LossInv, [Next]_vars PROVE AnswersAreTrue' /\ NothingIsLost'
  BY StepTypes DEF LossInv
<1> USE DEF LossInv, Types, AnswersAreTrue, NothingIsLost, passVars, tableVars
<1> DEFINE Goal == AnswersAreTrue' /\ NothingIsLost'
<1>1. ASSUME NEW w \in Hook, Create(w) PROVE Goal
  BY <1>1, StatusOfCreate DEF Create
<1>2. ASSUME NEW w \in Hook, DayEnds(w) \/ WaitEnds(w) PROVE Goal
  BY <1>2, StatusOfTime DEF DayEnds, WaitEnds
<1>4. CASE Cleanup
  BY <1>4, StatusOfCleanup DEF Cleanup, Delete
<1>5. CASE Poll \/ TakeChunk \/ Finish
  BY <1>5 DEF Poll, TakeChunk, Finish
<1>8. ASSUME NEW w \in Hook, NEW ok \in BOOLEAN, Post(w, ok) PROVE Goal
  BY <1>8 DEF Post
<1>9. ASSUME NEW w \in Hook, NEW ok \in BOOLEAN, NEW written \in BOOLEAN,
             Record(w, ok, written)
      PROVE  Goal
  BY <1>9, StatusOfRecord DEF Record
<1>10. CASE Restart
  BY <1>10 DEF Restart
<1>11. CASE UNCHANGED vars
  BY <1>11 DEF vars
<1> QED
  BY <1>1, <1>2, <1>4, <1>5, <1>8, <1>9, <1>10, <1>11 DEF Next

\* Whatever the clients answer, whichever writes fail and whenever the process is
\* restarted, a webhook that was created is in the table as new until its client
\* has accepted it.
THEOREM WebhooksAreKept == Spec => []NothingIsLost
<1>1. Init => LossInv
  BY InitTypes DEF Init, LossInv, AnswersAreTrue, NothingIsLost
<1>2. LossInv => NothingIsLost
  BY DEF LossInv
<1> QED
  BY <1>1, <1>2, StepLoss, PTL DEF Spec

LEMMA StepPass == Types /\ PassInv /\ [Next]_vars => PassInv'
<1> SUFFICES ASSUME Types, PassInv, [Next]_vars PROVE PassInv'
  OBVIOUS
<1> USE DEF Types, PassInv, Answered, passVars, tableVars
<1>1. ASSUME NEW w \in Hook, Create(w) PROVE PassInv'
  <2>1. \A v \in todo \cup rest \cup chunk : rows'[v].status = "new"
    BY <1>1, StatusOfCreate
  <2>2. UNCHANGED <<sending, todo, rest, chunk, answered>>
    BY <1>1 DEF Create
  <2> QED
    BY <2>1, <2>2
<1>2. ASSUME NEW w \in Hook, DayEnds(w) \/ WaitEnds(w) PROVE PassInv'
  BY <1>2, StatusOfTime DEF DayEnds, WaitEnds
<1>4. CASE Cleanup
  <2>1. \A v \in todo \cup rest \cup chunk : rows'[v].status = "new"
    BY <1>4, StatusOfCleanup
  <2>2. UNCHANGED <<sending, todo, rest, chunk, answered>>
    BY <1>4 DEF Cleanup, Delete
  <2> QED
    BY <2>1, <2>2
<1>5. CASE Poll
  BY <1>5, DueIsNew DEF Poll
<1>6. CASE TakeChunk
  BY <1>6, EarliestIsSubset DEF TakeChunk
<1>7. CASE Finish
  BY <1>7 DEF Finish
<1>8. ASSUME NEW w \in Hook, NEW ok \in BOOLEAN, Post(w, ok) PROVE PassInv'
  BY <1>8 DEF Post
<1>9. ASSUME NEW w \in Hook, NEW ok \in BOOLEAN, NEW written \in BOOLEAN,
             Record(w, ok, written)
      PROVE  PassInv'
  <2>1. w \in Answered /\ Answered' \subseteq Answered
    BY <1>9 DEF Record
  <2>2. \A v \in todo \cup rest \cup chunk : rows'[v].status = "new"
    <3>1. \A v \in Hook : v = w \/ rows'[v].status = rows[v].status
      BY <1>9, StatusOfRecord
    <3>2. w \notin todo \cup rest \cup chunk
      BY <2>1
    <3> QED
      BY <3>1, <3>2
  <2>3. UNCHANGED <<sending, todo, rest>> /\ chunk' \subseteq chunk /\ answered' \subseteq answered
    BY <1>9 DEF Record
  <2> QED
    BY <2>1, <2>2, <2>3
<1>10. CASE Restart
  BY <1>10 DEF Restart
<1>11. CASE UNCHANGED vars
  BY <1>11 DEF vars
<1> QED
  BY <1>1, <1>2, <1>4, <1>5, <1>6, <1>7, <1>8, <1>9, <1>10, <1>11 DEF Next

\* A webhook that its row says is sent is not posted before it is created again:
\* polls do not overlap, and no group or chunk comes twice in a pass.
THEOREM SentOnce == Spec => SentIsNotRepeated
<1>1. Init => Types /\ PassInv
  BY InitTypes DEF Init, PassInv, Answered
<1>2. Types /\ PassInv /\ [Next]_vars
      => [\A w \in Hook : Posts(w) => rows[w].status = "new"]_vars
  <2> SUFFICES ASSUME Types, PassInv, Next, NEW w \in Hook, Posts(w)
               PROVE  rows[w].status = "new"
    OBVIOUS
  <2>1. PICK v \in Hook, ok \in BOOLEAN : Post(v, ok)
    BY DEF Next, Posts, Create, DayEnds, WaitEnds, Cleanup, Delete, Poll, TakeChunk,
           Finish, Record, Restart, passVars
  <2>2. w = v
    BY <2>1 DEF Posts, Post
  <2> QED
    BY <2>1, <2>2 DEF Post, PassInv
<1> QED
  BY <1>1, <1>2, StepTypes, StepPass, PTL DEF Spec, SentIsNotRepeated

(***************************************************************************)
(* The statuses of a transfer in their order                               *)
(***************************************************************************)

\* The statuses of the request of w fit into one chunk.
Small(w) == Cardinality({v \in made : Request[v] = Request[w]}) =< ChunkSize

\* Never accepted, and due at every poll.
Waiting(v) == rows[v].status = "new" /\ rows[v].retry = "poll" /\ v \notin accepted

Ahead(v, w) == Request[v] = Request[w] /\ rows[v].seq < rows[w].seq /\ Waiting(v)

\* Rows are those of webhooks that were created, in the order of their numbers, and
\* intervals begin only after the first day.
TableInv ==
    /\ IsFiniteSet(made) /\ Answered \subseteq made
    /\ \A w \in Hook : /\ rows[w].status # "none" => w \in made
                       /\ rows[w].firstDay => rows[w].retry = "poll"
                       /\ rows[w].seq =< creates

\* A status that waits is read with the later ones of its request, comes into the same
\* chunk, and is before them in it.
OrderInv ==
    /\ \A w \in rest : ~Small(w)
    /\ \A v, w \in Hook : Serial(w) /\ Ahead(v, w) =>
            /\ w \in todo => v \in todo
            /\ w \in chunk /\ Small(w) => v \in chunk \cup Answered

LEMMA TouchedRow ==
    ASSUME NEW r \in Row
    PROVE  /\ Touched(r).seq = r.seq /\ Touched(r).firstDay = r.firstDay
           /\ r.firstDay => Touched(r).retry = "poll"
           /\ ~r.firstDay => Touched(r).retry = "wait"
<1>1. CASE r.firstDay
  BY <1>1 DEF Touched, Row
<1>2. CASE ~r.firstDay
  BY <1>2 DEF Touched, Row
<1> QED
  BY <1>1, <1>2

\* A row that is touched, as a creation and a refused try do it.
Retouch(r, s) == [Touched(r) EXCEPT !.status = s]

LEMMA Retouched ==
    ASSUME NEW r \in Row, NEW s, r.firstDay => r.retry = "poll"
    PROVE  /\ Retouch(r, s).seq = r.seq /\ Retouch(r, s).status = s
           /\ Retouch(r, s).firstDay => Retouch(r, s).retry = "poll"
           /\ Retouch(r, s).retry = "poll" => r.retry = "poll"
<1> DEFINE q == Retouch(r, s)
<1>1. Touched(r) \in Row
  BY TouchedIsRow
<1>2. q.seq = Touched(r).seq /\ q.status = s /\ q.firstDay = Touched(r).firstDay /\ q.retry = Touched(r).retry
  BY <1>1 DEF Row, Retouch
<1>3. r.firstDay \in BOOLEAN
  BY DEF Row
<1> HIDE DEF q
<1>4. CASE r.firstDay
  BY <1>2, <1>4, TouchedRow DEF q
<1>5. CASE ~r.firstDay
  BY <1>2, <1>5, TouchedRow DEF q
<1> QED
  BY <1>3, <1>4, <1>5

LEMMA TouchedIsRetouched ==
    ASSUME NEW r \in Row
    PROVE  Touched(r) = Retouch(r, r.status)
<1>1. Touched(r) \in Row /\ Touched(r).status = r.status
  BY TouchedIsRow
<1>2. ASSUME NEW q \in Row PROVE q = [q EXCEPT !.status = q.status]
  BY DEF Row
<1> QED
  BY <1>1, <1>2 DEF Retouch

\* What a step does to the row of v: it keeps its number while it is new, and nothing
\* begins to wait but a webhook that gets its row.
RowKeeps(v) ==
    /\ rows'[v].firstDay => rows'[v].retry = "poll"
    /\ rows'[v].seq =< creates'
    /\ rows[v].status = "new" /\ rows'[v].status = "new" => rows'[v].seq = rows[v].seq
    /\ Waiting(v)' => Waiting(v) \/ rows'[v].seq > creates

LEMMA RowStep ==
    ASSUME LossInv, TableInv, Next, NEW v \in Hook
    PROVE  RowKeeps(v)
<1>0. /\ rows[v] \in Row
      /\ rows[v].firstDay => rows[v].retry = "poll"
      /\ rows[v].seq =< creates /\ rows[v].seq \in Nat /\ creates \in Nat
      /\ rows[v].status \in {"none", "new", "sent"}
      /\ rows[v].status = "sent" => v \in accepted
      /\ v \in DOMAIN rows
  BY DEF LossInv, TableInv, Types, NothingIsLost, Row
<1>1. CASE rows'[v] = rows[v] /\ creates' \in {creates, creates + 1} /\ accepted \subseteq accepted'
  <2>1. (rows'[v].firstDay => rows'[v].retry = "poll") /\ (Waiting(v)' => Waiting(v))
    BY <1>0, <1>1, Zenon DEF Waiting
  <2>2. rows'[v].seq =< creates' /\ rows'[v].seq = rows[v].seq
    BY <1>0, <1>1
  <2> QED
    BY <2>1, <2>2 DEF RowKeeps
<1>2. CASE rows'[v] = Absent /\ creates' = creates
  BY <1>0, <1>2 DEF RowKeeps, Waiting, Absent
<1>3. ASSUME NEW w \in Hook, Create(w) PROVE RowKeeps(v)
  <2>0. creates' = creates + 1 /\ accepted' = accepted /\ rows \in [Hook -> Row]
    BY <1>3 DEF Create, LossInv, Types
  <2>1. CASE v # w
    <3>1. rows'[v] = rows[v]
      BY <1>3, <2>0, <2>1 DEF Create
    <3> QED
      BY <1>0, <2>0, <3>1 DEF RowKeeps, Waiting
  <2>2. CASE v = w /\ rows[v].status = "none"
    <3>1. rows'[v] = [Absent EXCEPT !.status = "new", !.seq = creates']
      BY <1>3, <2>0, <2>2 DEF Create
    <3>2. rows'[v].seq = creates + 1 /\ rows'[v].retry = "poll"
      BY <2>0, <3>1 DEF Absent
    <3> QED
      BY <1>0, <2>0, <2>2, <3>2 DEF RowKeeps
  <2>3. CASE v = w /\ rows[v].status # "none"
    <3>1. rows'[v] = Retouch(rows[v], "new")
      BY <1>3, <2>0, <2>3 DEF Create, Retouch
    <3>2. /\ rows'[v].seq = rows[v].seq
          /\ rows'[v].firstDay => rows'[v].retry = "poll"
          /\ rows'[v].retry = "poll" => rows[v].retry = "poll"
      BY <1>0, <3>1, Retouched
    <3> QED
      BY <1>0, <2>0, <2>3, <3>2 DEF RowKeeps, Waiting
  <2> QED
    BY <2>1, <2>2, <2>3
<1>4. ASSUME NEW w \in Hook, DayEnds(w) PROVE RowKeeps(v)
  <2>1. creates' = creates /\ accepted' = accepted /\ rows \in [Hook -> Row]
    BY <1>4 DEF DayEnds, LossInv, Types
  <2>2. rows'[v] = rows[v] \/ rows'[v] = [rows[v] EXCEPT !.firstDay = FALSE]
    BY <1>4, <2>1 DEF DayEnds
  <2>3. CASE rows'[v] = [rows[v] EXCEPT !.firstDay = FALSE]
    <3>1. /\ rows'[v].seq = rows[v].seq /\ rows'[v].status = rows[v].status
          /\ rows'[v].retry = rows[v].retry /\ ~rows'[v].firstDay
      BY <1>0, <2>3 DEF Row
    <3> QED
      BY <1>0, <2>1, <3>1 DEF RowKeeps, Waiting
  <2> QED
    BY <1>1, <2>1, <2>2, <2>3
<1>5. ASSUME NEW w \in Hook, WaitEnds(w) PROVE RowKeeps(v)
  <2>1. creates' = creates /\ accepted' = accepted /\ rows \in [Hook -> Row]
    BY <1>5 DEF WaitEnds, LossInv, Types
  <2>2. CASE rows'[v] = rows[v]
    BY <1>1, <2>1, <2>2
  <2>3. CASE rows'[v] # rows[v]
    <3>1. v = w /\ rows'[v] = [rows[v] EXCEPT !.retry = "over"] /\ rows[v].retry = "wait"
      BY <1>5, <2>1, <2>3 DEF WaitEnds
    <3>2. /\ rows'[v].seq = rows[v].seq /\ rows'[v].status = rows[v].status
          /\ rows'[v].retry = "over" /\ rows'[v].firstDay = rows[v].firstDay
      BY <1>0, <3>1 DEF Row
    <3> QED
      BY <1>0, <2>1, <3>1, <3>2 DEF RowKeeps, Waiting
  <2> QED
    BY <2>2, <2>3
<1>6. CASE Cleanup
  BY <1>1, <1>2, <1>6 DEF Cleanup, Delete
<1>7. CASE Poll \/ TakeChunk \/ Finish \/ Restart
  BY <1>1, <1>7 DEF Poll, TakeChunk, Finish, Restart, tableVars
<1>8. ASSUME NEW w \in Hook, NEW ok \in BOOLEAN, Post(w, ok) PROVE RowKeeps(v)
  BY <1>1, <1>8 DEF Post, tableVars
<1>9. ASSUME NEW w \in Hook, NEW ok \in BOOLEAN, NEW written \in BOOLEAN, Record(w, ok, written)
      PROVE  RowKeeps(v)
  <2>1. creates' = creates /\ accepted' = accepted /\ rows \in [Hook -> Row]
    BY <1>9 DEF Record, LossInv, Types
  <2>2. CASE rows'[v] = rows[v]
    BY <1>1, <2>1, <2>2
  <2>3. CASE rows'[v] # rows[v]
    <3>1. v = w /\ rows'[v] = Recorded(v, ok)
      BY <1>9, <2>1, <2>3 DEF Record, Write
    <3>2. CASE ~ok
      <4>1. rows'[v] = Touched(rows[v])
        BY <3>1, <3>2 DEF Recorded
      <4>2. rows'[v] = Retouch(rows[v], rows[v].status)
        BY <1>0, <4>1, TouchedIsRetouched
      <4>3. /\ rows'[v].seq = rows[v].seq /\ rows'[v].status = rows[v].status
            /\ rows'[v].firstDay => rows'[v].retry = "poll"
            /\ rows'[v].retry = "poll" => rows[v].retry = "poll"
        BY <1>0, <4>2, Retouched
      <4> QED
        BY <1>0, <2>1, <4>3 DEF RowKeeps, Waiting
    <3>3. CASE ok /\ RemoveAfterSent
      BY <1>2, <2>1, <3>1, <3>3 DEF Recorded
    <3>4. CASE ok /\ ~RemoveAfterSent
      <4>1. rows'[v] = [rows[v] EXCEPT !.status = "sent", !.retry = "poll"]
        BY <3>1, <3>4 DEF Recorded
      <4>2. rows'[v].seq = rows[v].seq /\ rows'[v].status = "sent" /\ rows'[v].retry = "poll"
        BY <1>0, <4>1 DEF Row
      <4> QED
        BY <1>0, <2>1, <4>2 DEF RowKeeps, Waiting
    <3> QED
      BY <3>2, <3>3, <3>4, WebhooksAssumption
  <2> QED
    BY <2>2, <2>3
<1> QED
  BY <1>3, <1>4, <1>5, <1>6, <1>7, <1>8, <1>9 DEF Next

LEMMA MadeKeeps == Next => made \subseteq made'
BY DEF Next, Create, DayEnds, WaitEnds, Cleanup, Delete, Poll, TakeChunk, Finish, Post, Record, Restart, tableVars

LEMMA StepTable == LossInv /\ PassInv /\ TableInv /\ [Next]_vars => TableInv'
<1> SUFFICES ASSUME LossInv, PassInv, TableInv, [Next]_vars PROVE TableInv'
  OBVIOUS
<1>1. CASE Next
  <2>1. IsFiniteSet(made')
    <3>1. (\E w \in Hook : made' = made \cup {w}) \/ made' = made
      BY <1>1 DEF Next, Create, DayEnds, WaitEnds, Cleanup, Delete, Poll, TakeChunk, Finish, Post, Record, Restart, tableVars
    <3> QED
      BY <3>1, FS_AddElement DEF TableInv
  <2>2. ASSUME NEW w \in Hook, rows'[w].status # "none" PROVE w \in made'
    <3>1. rows[w].status # "none" => w \in made'
      BY <1>1, MadeKeeps DEF TableInv
    <3>2. CASE \E u \in Hook : Create(u)
      BY <2>2, <3>1, <3>2, StatusOfCreate DEF Create, LossInv
    <3>3. CASE rows'[w].status = rows[w].status
      BY <2>2, <3>1, <3>3
    <3>4. CASE Cleanup
      BY <3>1, <3>3, <3>4, StatusOfCleanup DEF LossInv
    <3>5. ASSUME NEW u \in Hook, NEW ok \in BOOLEAN, NEW written \in BOOLEAN, Record(u, ok, written)
          PROVE  w \in made'
      <4>1. u \in made'
        BY <1>1, <3>5, MadeKeeps DEF Record, TableInv, Answered
      <4> QED
        BY <3>3, <3>5, <4>1, StatusOfRecord DEF LossInv
    <3> QED
      BY <1>1, <3>2, <3>3, <3>4, <3>5, StatusOfTime DEF Next, Poll, TakeChunk, Finish, Post, Restart, tableVars, LossInv
  <2>3. \A w \in Hook : (rows'[w].firstDay => rows'[w].retry = "poll") /\ rows'[w].seq =< creates'
    BY <1>1, RowStep DEF RowKeeps
  <2>4. Answered' \subseteq made'
    <3>1. \A w \in Hook : Answered \subseteq made' /\ (w \in chunk => w \in made')
      BY <1>1, MadeKeeps DEF TableInv, PassInv
    <3>2. CASE answered' \subseteq answered
      BY <3>1, <3>2 DEF Answered
    <3>3. ASSUME NEW w \in Hook, NEW ok \in BOOLEAN, Post(w, ok) PROVE Answered' \subseteq made'
      BY <3>1, <3>3 DEF Post, Answered
    <3> QED
      BY <1>1, <3>2, <3>3 DEF Next, Create, DayEnds, WaitEnds, Cleanup, Delete, Poll, TakeChunk, Finish, Record, Restart, passVars
  <2> QED
    BY <2>1, <2>2, <2>3, <2>4 DEF TableInv
<1>2. CASE UNCHANGED vars
  BY <1>2 DEF vars, tableVars, passVars, TableInv, Answered
<1> QED
  BY <1>1, <1>2

\* Who is ahead of a webhook of the pass was so before the step.
LEMMA AheadBefore ==
    ASSUME LossInv, TableInv, PassInv, PassInv', Next, NEW v \in Hook, NEW w \in Hook,
           w \in todo \cup rest \cup chunk, w \in todo' \cup rest' \cup chunk', Ahead(v, w)'
    PROVE  Ahead(v, w)
<1>1. RowKeeps(v) /\ RowKeeps(w)
  BY RowStep
<1>2. rows[w].status = "new" /\ rows'[w].status = "new"
  BY DEF PassInv
<1>3. rows'[w].seq = rows[w].seq /\ rows[w].seq =< creates /\ rows[w].seq \in Nat /\ creates \in Nat
  BY <1>1, <1>2 DEF RowKeeps, TableInv, LossInv, Types, Row
<1>4. rows'[v].seq < rows'[w].seq /\ rows'[v].seq \in Nat
  BY StepTypes DEF Ahead, LossInv, Types, Row
<1>5. Waiting(v) /\ Waiting(v)'
  BY <1>1, <1>3, <1>4 DEF RowKeeps, Ahead
<1> QED
  BY <1>1, <1>3, <1>4, <1>5 DEF Ahead, RowKeeps, Waiting

\* Small groups stay within the bounds of the sets they are taken from.
LEMMA NotSmallStays ==
    ASSUME LossInv, PassInv, TableInv, Next, NEW w \in Hook, ~Small(w)
    PROVE  ~Small(w)'
<1> DEFINE M == {v \in made : Request[v] = Request[w]}
           N == {v \in made' : Request[v] = Request[w]}
<1>1. IsFiniteSet(made) /\ IsFiniteSet(made') /\ made \subseteq made'
  BY StepTable, MadeKeeps DEF TableInv
<1>2. IsFiniteSet(M) /\ IsFiniteSet(N) /\ M \subseteq N
  BY <1>1, FS_Subset
<1>3. Cardinality(M) \in Nat /\ Cardinality(N) \in Nat /\ Cardinality(M) =< Cardinality(N)
  BY <1>2, FS_Subset, FS_CardinalityType
<1> QED
  BY <1>3, WebhooksAssumption DEF Small

\* Of a finite set of webhooks the first n are all when there are no more than n.
LEMMA EarliestIsAll ==
    ASSUME Types, NEW S \in SUBSET Hook, IsFiniteSet(S), NEW n \in Nat, Cardinality(S) =< n
    PROVE  Earliest(S, n) = S
<1> SUFFICES ASSUME NEW w \in S PROVE Cardinality({v \in S : rows[v].seq < rows[w].seq}) < n
  BY DEF Earliest
<1> DEFINE T == {v \in S : rows[v].seq < rows[w].seq}
<1>1. w \notin T
  BY DEF Types, Row
<1>2. T \in SUBSET S /\ T # S
  BY <1>1
<1> HIDE DEF T
<1>3. IsFiniteSet(T) /\ Cardinality(T) =< Cardinality(S) /\ Cardinality(S) # Cardinality(T)
  BY <1>2, FS_Subset
<1>4. Cardinality(T) \in Nat /\ Cardinality(S) \in Nat
  BY <1>3, FS_CardinalityType
<1> QED
  BY <1>3, <1>4 DEF T

\* A poll that reads a webhook reads all that are ahead of it.
LEMMA PollReads ==
    ASSUME LossInv, TableInv, NEW v \in Hook, NEW w \in GetUnsent, Ahead(v, w)
    PROVE  v \in GetUnsent
<1> DEFINE D == {u \in Hook : Due(u)}
           Before(x) == {u \in D : rows[u].seq < rows[x].seq}
<1>1. w \in D /\ Cardinality(Before(w)) < Quantity
  BY DEF GetUnsent, Earliest
<1>2. v \in D
  BY DEF Ahead, Waiting, Due
<1>3. Before(v) \in SUBSET Before(w)
  BY <1>1, <1>2 DEF Ahead, LossInv, Types, Row
<1>4. Before(w) \in SUBSET made /\ IsFiniteSet(made)
  BY DEF TableInv, Due
<1>5. IsFiniteSet(Before(w)) /\ IsFiniteSet(Before(v)) /\ Cardinality(Before(v)) =< Cardinality(Before(w))
  <2> HIDE DEF Before
  <2>1. IsFiniteSet(Before(w))
    BY <1>4, FS_Subset
  <2> QED
    BY <1>3, <2>1, FS_Subset
<1>6. Cardinality(Before(w)) \in Nat /\ Cardinality(Before(v)) \in Nat
  BY <1>5, FS_CardinalityType
<1>7. Cardinality(Before(v)) < Quantity
  BY <1>1, <1>5, <1>6, WebhooksAssumption
<1> QED
  BY <1>2, <1>7 DEF GetUnsent, Earliest

\* The group of a webhook is one chunk when it is small.
LEMMA SmallIsOneChunk ==
    ASSUME LossInv, TableInv, PassInv, NEW w \in todo, Small(w)
    PROVE  LET group == {v \in todo : Request[v] = Request[w]} IN Earliest(group, ChunkSize) = group
<1> DEFINE group == {v \in todo : Request[v] = Request[w]}
           M == {v \in made : Request[v] = Request[w]}
<1>1. group \in SUBSET M /\ M \in SUBSET made /\ group \in SUBSET Hook /\ IsFiniteSet(made)
  BY DEF LossInv, Types, PassInv, TableInv
<1>2. Cardinality(M) =< ChunkSize
  BY DEF Small
<1> HIDE DEF group, M
<1>3. IsFiniteSet(M)
  BY <1>1, FS_Subset
<1>4. IsFiniteSet(group) /\ Cardinality(group) =< Cardinality(M)
  BY <1>1, <1>3, FS_Subset
<1>5. Cardinality(group) \in Nat /\ Cardinality(M) \in Nat
  BY <1>3, <1>4, FS_CardinalityType
<1>6. Cardinality(group) =< ChunkSize /\ ChunkSize \in Nat
  BY <1>2, <1>4, <1>5, WebhooksAssumption
<1>7. Earliest(group, ChunkSize) = group
  BY <1>1, <1>4, <1>6, EarliestIsAll DEF LossInv
<1> QED
  BY <1>7 DEF group

LEMMA StepOrder == LossInv /\ TableInv /\ PassInv /\ OrderInv /\ [Next]_vars => OrderInv'
<1> SUFFICES ASSUME LossInv, TableInv, PassInv, OrderInv, [Next]_vars PROVE OrderInv'
  OBVIOUS
<1>0. CASE UNCHANGED vars
  BY <1>0 DEF vars, tableVars, passVars, OrderInv, Small, Ahead, Waiting, Answered
<1> SUFFICES ASSUME Next PROVE OrderInv'
  BY <1>0
<1>1. PassInv'
  BY StepPass DEF LossInv
<1>2. \A w \in Hook : Small(w)' => Small(w)
  BY NotSmallStays
<1>3. ASSUME NEW v \in Hook, NEW w \in Hook, Ahead(v, w)',
             w \in todo \cup rest \cup chunk, w \in todo' \cup rest' \cup chunk'
      PROVE  Ahead(v, w)
  BY <1>1, <1>3, AheadBefore
<1>t. todo \subseteq Hook /\ rest \subseteq Hook /\ chunk \subseteq Hook
  BY DEF LossInv, Types
\* A step that takes nothing new into the pass keeps the order if it keeps what is
\* ahead in its place.
<1>4. ASSUME todo' \in {todo, {}}, rest' \in {rest, {}}, chunk' \subseteq chunk,
             \A v, w \in Hook : (Serial(w) /\ Ahead(v, w) /\ Ahead(v, w)' /\ w \in chunk' /\ v \in chunk \cup Answered)
                               => v \in chunk' \cup Answered'
      PROVE  OrderInv'
  <2>1. \A w \in rest' : ~Small(w)'
    BY <1>2, <1>4, <1>t DEF OrderInv
  <2>2. ASSUME NEW v \in Hook, NEW w \in Hook, Serial(w), Ahead(v, w)', w \in todo' PROVE v \in todo'
    BY <1>3, <1>4, <2>2 DEF OrderInv
  <2>3. ASSUME NEW v \in Hook, NEW w \in Hook, Serial(w), Ahead(v, w)', w \in chunk', Small(w)' PROVE v \in chunk' \cup Answered'
    <3>1. Ahead(v, w) /\ w \in chunk /\ Small(w)
      BY <1>2, <1>3, <1>4, <2>3
    <3> QED
      BY <1>4, <2>3, <3>1 DEF OrderInv
  <2> QED
    BY <2>1, <2>2, <2>3 DEF OrderInv, Serial
<1>5. CASE UNCHANGED passVars
  BY <1>4, <1>5 DEF passVars, Answered
<1>6. CASE Poll
  <2>1. UNCHANGED <<rows, made, accepted>> /\ rest = {} /\ chunk = {} /\ UNCHANGED <<rest, chunk>> /\ todo' = GetUnsent
    BY <1>6 DEF Poll, PassInv, tableVars
  <2>2. ASSUME NEW v \in Hook, NEW w \in Hook, Ahead(v, w)', w \in todo' PROVE v \in todo'
    <3>1. Ahead(v, w)
      BY <2>1, <2>2 DEF Ahead, Waiting
    <3> QED
      BY <2>1, <2>2, <3>1, PollReads
  <2> QED
    BY <2>1, <2>2 DEF OrderInv
<1>7. CASE TakeChunk
  <2>0. UNCHANGED <<rows, made, accepted, answered>> /\ chunk = {} /\ answered = {}
    BY <1>7 DEF TakeChunk, tableVars
  <2>1. \A v, w \in Hook : (Ahead(v, w)' => Ahead(v, w)) /\ (Small(w)' <=> Small(w))
    BY <2>0 DEF Ahead, Waiting, Small
  <2>2. CASE rest # {}
    <3>1. chunk' \subseteq rest /\ rest' \subseteq rest /\ todo' = todo
      BY <1>7, <2>2, EarliestIsSubset DEF TakeChunk
    <3>2. \A w \in chunk' \cup rest' : ~Small(w)'
      BY <1>t, <2>1, <3>1 DEF OrderInv
    <3> QED
      BY <1>t, <2>1, <3>1, <3>2 DEF OrderInv, Serial
  <2>3. CASE rest = {}
    <3>1. PICK x \in todo :
             LET group == {v \in todo : Request[v] = Request[x]} IN
             todo' = todo \ group /\ chunk' = Earliest(group, ChunkSize) /\ rest' = group \ chunk'
      BY <1>7, <2>3 DEF TakeChunk
    <3> DEFINE group == {v \in todo : Request[v] = Request[x]}
    <3>2. chunk' \subseteq group
      BY <3>1, EarliestIsSubset
    <3>3. \A w \in group : Small(w) => chunk' = group /\ rest' = {}
      <4>1. \A w \in group : Small(w) <=> Small(x)
        BY DEF Small
      <4>2. Small(x) => chunk' = group
        BY <3>1, SmallIsOneChunk
      <4> QED
        BY <3>1, <4>1, <4>2
    <3>4. \A w \in rest' : ~Small(w)'
      BY <1>t, <2>1, <3>1, <3>3
    <3>5. ASSUME NEW v \in Hook, NEW w \in Hook, Serial(w), Ahead(v, w)'
          PROVE  (w \in todo' => v \in todo') /\ (w \in chunk' /\ Small(w)' => v \in chunk')
      <4>1. Ahead(v, w) /\ (Small(w)' => Small(w))
        BY <2>1, <3>5
      <4>2. w \in todo => v \in todo
        BY <3>5, <4>1 DEF OrderInv
      <4>3. Request[v] = Request[w]
        BY <4>1 DEF Ahead
      <4> QED
        BY <3>1, <3>2, <3>3, <4>1, <4>2, <4>3
    <3> QED
      BY <3>4, <3>5 DEF OrderInv, Serial
  <2> QED
    BY <2>2, <2>3
<1>8. CASE Finish \/ Restart
  BY <1>4, <1>8 DEF Finish, Restart, Answered
<1>9. ASSUME NEW u \in Hook, NEW ok \in BOOLEAN, Post(u, ok) PROVE OrderInv'
  <2>1. UNCHANGED <<todo, rest>> /\ chunk' = chunk \ {u} /\ answered' = answered \cup {<<u, ok>>}
    BY <1>9 DEF Post
  <2>2. chunk \cup Answered \subseteq chunk' \cup Answered'
    BY <2>1 DEF Answered
  <2> QED
    BY <1>4, <2>1, <2>2
<1>10. ASSUME NEW u \in Hook, NEW ok \in BOOLEAN, NEW written \in BOOLEAN, Record(u, ok, written) PROVE OrderInv'
  <2>1. UNCHANGED <<todo, rest, accepted>> /\ chunk' \subseteq chunk /\ answered' = answered \ {<<u, ok>>}
    BY <1>10 DEF Record
  <2>2. ASSUME NEW v \in Hook, NEW w \in Hook, Serial(w), Ahead(v, w), Ahead(v, w)', w \in chunk', v \in chunk \cup Answered
        PROVE  v \in chunk' \cup Answered'
    <3>1. Serial(v) /\ v \notin accepted
      BY <2>2 DEF Serial, Ahead, Waiting
    <3>2. CASE v \in Answered /\ v # u
      BY <2>1, <3>2 DEF Answered
    <3>3. CASE v = u
      <4>1. ~ok
        BY <1>10, <3>1, <3>3 DEF Record, LossInv, AnswersAreTrue
      <4>2. chunk' = {}
        BY <1>10, <3>1, <3>3, <4>1 DEF Record
      <4> QED
        BY <2>2, <4>2
    <3>4. CASE v \in chunk
      <4>1. chunk' = {} \/ chunk' = chunk
        BY <1>10 DEF Record
      <4> QED
        BY <2>2, <3>4, <4>1
    <3> QED
      BY <2>2, <3>2, <3>3, <3>4
  <2> QED
    BY <1>4, <2>1, <2>2
<1> QED
  BY <1>5, <1>6, <1>7, <1>8, <1>9, <1>10 DEF Next, Create, DayEnds, WaitEnds, Cleanup, Delete

\* For any webhooks, limits, chunk sizes, restarts and failed writes: of the statuses of
\* a request that fit into a chunk none is posted while an earlier one is not accepted
\* and still due at every poll.
THEOREM StatusesKeepTheirOrder == Spec => StatusesInOrder
<1> DEFINE I == LossInv /\ PassInv /\ TableInv /\ OrderInv
<1>1. Init => I
  <2> SUFFICES ASSUME Init PROVE I
    OBVIOUS
  <2>1. LossInv /\ PassInv
    BY InitTypes DEF Init, LossInv, AnswersAreTrue, NothingIsLost, PassInv, Answered
  <2>2. TableInv
    BY FS_EmptySet DEF Init, TableInv, Answered, Absent
  <2>3. OrderInv
    BY DEF Init, OrderInv
  <2> QED
    BY <2>1, <2>2, <2>3
<1>2. I /\ [Next]_vars => I'
  BY StepLoss, StepPass, StepTable, StepOrder DEF LossInv
<1>3. I /\ [Next]_vars =>
        [\A w \in Hook :
            (Posts(w) /\ Cardinality({v \in made : Request[v] = Request[w]}) =< ChunkSize)
            => \A v \in Overtaken(w) : rows[v].retry # "poll"]_vars
  <2> SUFFICES ASSUME I, Next, NEW w \in Hook, Posts(w), Small(w), NEW v \in Overtaken(w), rows[v].retry = "poll"
               PROVE  FALSE
    BY DEF Small
  <2>1. PICK u \in Hook, ok \in BOOLEAN : Post(u, ok)
    BY DEF Next, Posts, Create, DayEnds, WaitEnds, Cleanup, Delete, Poll, TakeChunk,
           Finish, Record, Restart, passVars
  <2>2. w = u
    BY <2>1 DEF Posts, Post
  <2>3. v \in Hook /\ Serial(w) /\ Ahead(v, w)
    BY DEF Overtaken, Ahead, Waiting, Serial
  <2>4. w \in chunk /\ answered = {} /\ w \in Earliest(chunk, 1)
    BY <2>1, <2>2, <2>3 DEF Post
  <2>5. v \in chunk
    BY <2>3, <2>4 DEF OrderInv, Answered
  <2> DEFINE B == {x \in chunk : rows[x].seq < rows[w].seq}
  <2>6. v \in B /\ Cardinality(B) < 1
    BY <2>3, <2>4, <2>5 DEF Earliest, Ahead
  <2>7. B \in SUBSET made /\ IsFiniteSet(made)
    BY DEF LossInv, Types, PassInv, TableInv
  <2> HIDE DEF B
  <2>8. IsFiniteSet(B)
    BY <2>7, FS_Subset
  <2>9. Cardinality(B) = 0
    BY <2>6, <2>8, FS_CardinalityType
  <2> QED
    BY <2>6, <2>8, <2>9, FS_EmptySet
<1> QED
  BY <1>1, <1>2, <1>3, PTL DEF Spec, StatusesInOrder

(***************************************************************************)
(* ChainEvents: SystemIsMarked and CompletedOnce for any transactions,     *)
(* events, wallets and chains, and any number of reorganisations and       *)
(* faults.                                                                 *)
(*                                                                         *)
(* The flag of SystemIsMarked travels from the table of the transfers into *)
(* the arguments of the job and from there into the last webhook, so the   *)
(* invariant says of the jobs what SystemIsMarked says of the webhooks.  A *)
(* block is stored without the flag only when the row is open or lost:     *)
(* this needs that a transaction in a block was sent, and that a system    *)
(* transaction is never taken for a foreign one.  CompletedOnce needs that *)
(* River keeps the job of a completed event, and that without a            *)
(* reorganisation a transaction is stored once.                            *)
(***************************************************************************)

Excused(t) == t \in early \/ record[t] = "lost"

Unmarked(x) == IsSystemTransactionsSupported(Blockchain[x.tx]) /\ x.tx \in System /\ ~x.system

\* A transaction that is known to the node, or was, has been sent.
SentIsRecorded ==
    \A t \in Tx : /\ conf[t] >= 0 \/ scan[t] # "no" => record[t] # "none"
                  /\ t \in System => record[t] # "foreign"

JobsAreMarked == \A a \in Args : jobs[a].state # "none" /\ Unmarked(a) => Excused(a.tx)

HooksAreMarked == \A h \in hooks : Unmarked(h) => Excused(h.tx)

Inv == EventsTypeOK /\ SentIsRecorded /\ JobsAreMarked /\ HooksAreMarked

\* A job is about a transaction.
LEMMA ArgsHaveTx == \A a \in Args : a.tx \in Tx
BY DEF Args

\* The invariant holds at first: nothing is sent.
LEMMA InitInv == InitEvents => Inv
<1> SUFFICES ASSUME InitEvents PROVE Inv
  OBVIOUS
<1>1. EventsTypeOK
  BY ChainEventsAssumption DEF InitEvents, EventsTypeOK, NoJob
<1>2. SentIsRecorded
  BY DEF InitEvents, SentIsRecorded
<1>3. JobsAreMarked
  BY DEF InitEvents, JobsAreMarked, NoJob
<1>4. HooksAreMarked
  BY DEF InitEvents, HooksAreMarked
<1> QED BY <1>1, <1>2, <1>3, <1>4 DEF Inv

\* Excuses are never taken back: a row that is lost stays lost.
LEMMA ExcusesStay ==
    ASSUME EventsTypeOK, NextEvents
    PROVE  \A t \in Tx : Excused(t) => Excused(t)'
<1> SUFFICES ASSUME NEW t \in Tx, Excused(t) PROVE Excused(t)'
  OBVIOUS
<1>1. early \subseteq early'
  BY DEF NextEvents, SendTransaction, CommitRecord, NewBlock, Reorg, fetchBlockData, commitBlockResult,
         commitFails, Work
<1>2. record[t] = "lost" => record'[t] = "lost"
  BY DEF NextEvents, EventsTypeOK, SendTransaction, CommitRecord, NewBlock, Reorg, fetchBlockData,
         commitBlockResult, commitFails, Work, chainVars, scanVars
<1> QED BY <1>1, <1>2 DEF Excused

\* Every step keeps the types.
LEMMA NextTypeOK == EventsTypeOK /\ NextEvents => EventsTypeOK'
<1> SUFFICES ASSUME EventsTypeOK, NextEvents PROVE EventsTypeOK'
  OBVIOUS
<1> USE DEF EventsTypeOK, chainVars, scanVars, Fault
<1>1. ASSUME NEW t \in Tx, SendTransaction(t) \/ CommitRecord(t) PROVE EventsTypeOK'
  BY <1>1 DEF SendTransaction, CommitRecord
<1>2. ASSUME NEW b, NEW mined, NewBlock(b, mined) PROVE EventsTypeOK'
  BY <1>2 DEF NewBlock
<1>3. ASSUME NEW b, NEW k, Reorg(b, k) PROVE EventsTypeOK'
  BY <1>3 DEF Reorg
<1>4. ASSUME NEW t \in Tx, fetchBlockData(t) \/ commitFails(t) PROVE EventsTypeOK'
  BY <1>4 DEF fetchBlockData, commitFails
<1>5. ASSUME NEW t \in Tx, commitBlockResult(t) PROVE EventsTypeOK'
  <2>1. PICK new : jobs' = InsertJobs(new)
    BY <1>5 DEF commitBlockResult
  <2>2. jobs' \in [Args -> [state: {"none", "scheduled", "completed", "discarded"}, attempts: Nat]]
    BY <2>1 DEF InsertJobs, NewJob
  <2> QED BY <1>5, <2>2 DEF commitBlockResult
<1>6. ASSUME NEW a \in Args, Work(a) PROVE EventsTypeOK'
  <2>1. Fails(a) \/ jobs' = [jobs EXCEPT ![a].state = "completed"]
    BY <1>6 DEF Work
  <2>2. jobs' \in [Args -> [state: {"none", "scheduled", "completed", "discarded"}, attempts: Nat]]
    BY <2>1 DEF Fails
  <2>3. told' \in [Args -> Nat]
    BY <1>6 DEF Work, Completes
  <2> QED BY <1>6, <2>2, <2>3 DEF Work
<1> QED BY <1>1, <1>2, <1>3, <1>4, <1>5, <1>6 DEF NextEvents

\* Every step keeps SentIsRecorded: only a transaction that was sent is mined, and only
\* one that is mined is fetched.
LEMMA NextSent == EventsTypeOK /\ SentIsRecorded /\ NextEvents => SentIsRecorded'
<1> SUFFICES ASSUME EventsTypeOK, SentIsRecorded, NextEvents PROVE SentIsRecorded'
  OBVIOUS
<1> USE DEF EventsTypeOK, SentIsRecorded, chainVars, scanVars
<1>1. ASSUME NEW t \in Tx, SendTransaction(t) \/ CommitRecord(t) PROVE SentIsRecorded'
  BY <1>1 DEF SendTransaction, CommitRecord
<1>2. ASSUME NEW b, NEW mined \in SUBSET On(b), NewBlock(b, mined) PROVE SentIsRecorded'
  BY <1>2 DEF NewBlock, On
<1>3. ASSUME NEW b, NEW k, Reorg(b, k) PROVE SentIsRecorded'
  <2>1. \A t \in Tx : conf'[t] >= 0 => conf[t] >= 0
    BY <1>3 DEF Reorg, On
  <2> QED BY <1>3, <2>1 DEF Reorg
<1>4. ASSUME NEW t \in Tx, fetchBlockData(t) \/ commitBlockResult(t) \/ commitFails(t)
      PROVE  SentIsRecorded'
  BY <1>4 DEF fetchBlockData, commitBlockResult, commitFails
<1>5. ASSUME NEW a \in Args, Work(a) PROVE SentIsRecorded'
  BY <1>5 DEF Work
<1> QED BY <1>1, <1>2, <1>3, <1>4, <1>5 DEF NextEvents

\* The block of t is stored: an unmarked entry for it has its excuse.
LEMMA StoredIsMarked ==
    ASSUME EventsTypeOK, SentIsRecorded, NEW t \in Tx, commitBlockResult(t),
           NEW x, x.tx = t, x.system = IsSystem(t), Unmarked(x)
    PROVE  Excused(t)'
<1>1. record[t] \in {"open", "lost"}
  BY DEF EventsTypeOK, SentIsRecorded, commitBlockResult, IsSystem, Unmarked
<1> QED BY <1>1 DEF commitBlockResult, Excused

\* Every step keeps jobs and webhooks marked: the block that is stored by
\* StoredIsMarked, the job because it copies its flag.
LEMMA NextMarked == Inv /\ NextEvents => JobsAreMarked' /\ HooksAreMarked'
<1> SUFFICES ASSUME Inv, NextEvents PROVE JobsAreMarked' /\ HooksAreMarked'
  OBVIOUS
<1>0. \A t \in Tx : Excused(t) => Excused(t)'
  BY ExcusesStay DEF Inv
<1>a. ASSUME UNCHANGED jobs PROVE JobsAreMarked'
  BY <1>a, <1>0, ArgsHaveTx DEF Inv, JobsAreMarked, Unmarked
<1>b. ASSUME UNCHANGED hooks PROVE HooksAreMarked'
  BY <1>b, <1>0, ChainEventsAssumption DEF Inv, HooksAreMarked, Unmarked
<1>1. ASSUME NEW t \in Tx, SendTransaction(t) \/ CommitRecord(t)
      PROVE  UNCHANGED <<hooks, jobs>>
  BY <1>1 DEF SendTransaction, CommitRecord
<1>2. ASSUME NEW b, NEW mined, NewBlock(b, mined) PROVE UNCHANGED <<hooks, jobs>>
  BY <1>2 DEF NewBlock
<1>3. ASSUME NEW b, NEW k, Reorg(b, k) PROVE UNCHANGED <<hooks, jobs>>
  BY <1>3 DEF Reorg
<1>4. ASSUME NEW t \in Tx, fetchBlockData(t) \/ commitFails(t) PROVE UNCHANGED <<hooks, jobs>>
  BY <1>4 DEF fetchBlockData, commitFails
<1>5. ASSUME NEW t \in Tx, commitBlockResult(t) PROVE JobsAreMarked' /\ HooksAreMarked'
  <2> DEFINE new == {[tx |-> t, kind |-> c.kind, address |-> c.address, system |-> IsSystem(t)] :
                       c \in whParams(t)}
  <2>1. \A a \in new : a.tx = t /\ a.system = IsSystem(t)
    OBVIOUS
  <2>2. \A a \in new : Unmarked(a) => Excused(t)'
    BY <2>1, <1>5, StoredIsMarked DEF Inv
  <2>3. hooks' = hooks \cup {Webhook(a, "waiting_confirmations") : a \in new} /\ jobs' = InsertJobs(new)
    BY <1>5 DEF commitBlockResult
  <2> HIDE DEF new
  <2>4. \A a \in new : LET h == Webhook(a, "waiting_confirmations") IN
                       h.tx = a.tx /\ h.system = a.system
    BY DEF Webhook
  <2>5. HooksAreMarked'
    BY <2>1, <2>2, <2>3, <2>4, <1>0, ChainEventsAssumption DEF Inv, HooksAreMarked, Unmarked
  <2>6. \A a \in Args : jobs'[a].state # "none" => jobs[a].state # "none" \/ a \in new
    BY <2>3 DEF InsertJobs
  <2>7. JobsAreMarked'
    BY <2>1, <2>2, <2>6, <1>0, ArgsHaveTx DEF Inv, JobsAreMarked, Unmarked
  <2> QED BY <2>5, <2>7
<1>6. ASSUME NEW a \in Args, Work(a) PROVE JobsAreMarked' /\ HooksAreMarked'
  <2>1. jobs[a].state # "none"
    BY <1>6 DEF Work
  <2>2. Unmarked(a) => Excused(a.tx)'
    BY <2>1, <1>0, ArgsHaveTx DEF Inv, JobsAreMarked
  <2>3. hooks' = hooks \/ hooks' = hooks \cup {Webhook(a, "completed")}
    BY <1>6 DEF Work, Completes
  <2>4. Webhook(a, "completed").tx = a.tx /\ Webhook(a, "completed").system = a.system
    BY DEF Webhook
  <2>5. HooksAreMarked'
    BY <2>2, <2>3, <2>4, <1>0, ChainEventsAssumption DEF Inv, HooksAreMarked, Unmarked
  <2>6. Fails(a) \/ jobs' = [jobs EXCEPT ![a].state = "completed"]
    BY <1>6 DEF Work
  <2>7. \A b \in Args : jobs'[b].state # "none" => jobs[b].state # "none"
    BY <2>1, <2>6 DEF Inv, EventsTypeOK, Fails
  <2>8. JobsAreMarked'
    BY <2>7, <1>0, ArgsHaveTx DEF Inv, JobsAreMarked, Unmarked
  <2> QED BY <2>5, <2>8
<1> QED BY <1>a, <1>b, <1>1, <1>2, <1>3, <1>4, <1>5, <1>6 DEF NextEvents

\* The variables keep their types; in particular the attempts of a job are counted
\* and its state is one that River knows.
THEOREM EventTypeCorrect == SpecEvents => []EventsTypeOK
<1>1. EventsTypeOK /\ UNCHANGED eventVars => EventsTypeOK'
  BY DEF EventsTypeOK, eventVars, chainVars, scanVars
<1>2. InitEvents => EventsTypeOK
  BY InitInv DEF Inv
<1> QED BY <1>1, <1>2, NextTypeOK, PTL DEF SpecEvents

\* What commitBlockResult and the worker of the confirmations tell the client of a
\* payment of the system itself: it is marked, unless its block was stored before
\* its row was committed, or the row is lost.
THEOREM SystemTransactionsAreMarked == SpecEvents => []SystemIsMarked
<1>1. Inv /\ UNCHANGED eventVars => Inv'
  BY DEF Inv, eventVars, chainVars, scanVars, EventsTypeOK, SentIsRecorded, JobsAreMarked, HooksAreMarked,
         Excused, Unmarked
<1>2. Inv /\ [NextEvents]_eventVars => Inv'
  BY <1>1, NextTypeOK, NextSent, NextMarked DEF Inv
<1>3. Inv => SystemIsMarked
  BY DEF Inv, HooksAreMarked, SystemIsMarked, Unmarked, Excused
<1> QED BY InitInv, <1>2, <1>3, PTL DEF SpecEvents

(***************************************************************************)
(* Completions                                                             *)
(***************************************************************************)

\* Every completion but the last has cost a fault, because the job ends with the webhook.
ToldByFault ==
    /\ failures =< MaxFailures
    /\ \A a \in Args : told[a] =< MaxFailures - failures + (IF jobs[a].state = "completed" THEN 1 ELSE 0)

\* As long as no block was replaced every transaction is stored once, so all its jobs
\* were inserted together and with the same flag.
StoredOnce ==
    /\ reorgs \in Nat
    /\ \A a \in Args : told[a] > 0 => jobs[a].state # "none"
    /\ reorgs = 0 =>
         /\ \A t \in Tx : conf[t] =< 0 => scan[t] = "no"
         /\ \A a \in Args : scan[a.tx] # "done" => jobs[a].state = "none"
         /\ \A a, b \in Args : a.tx = b.tx /\ jobs[a].state # "none" /\ jobs[b].state # "none" => a.system = b.system

\* Every step keeps ToldByFault: a completed job is never scheduled again.
LEMMA NextTold == EventsTypeOK /\ ToldByFault /\ NextEvents => ToldByFault'
<1> SUFFICES ASSUME EventsTypeOK, ToldByFault, NextEvents PROVE ToldByFault'
  OBVIOUS
<1>0. failures \in Nat /\ MaxFailures \in Nat /\ \A a \in Args : told[a] \in Nat
  BY ChainEventsAssumption DEF EventsTypeOK
<1>a. ASSUME told' = told, failures' = failures \/ Fault,
             \A a \in Args : jobs[a].state = "completed" => jobs'[a].state = "completed"
      PROVE  ToldByFault'
  <2>1. failures' \in Int /\ failures' =< failures
    BY <1>a, <1>0 DEF Fault
  <2>2. ASSUME NEW a \in Args
        PROVE  told'[a] =< MaxFailures - failures' + (IF jobs'[a].state = "completed" THEN 1 ELSE 0)
    <3>1. told[a] =< MaxFailures - failures + (IF jobs[a].state = "completed" THEN 1 ELSE 0)
      BY DEF ToldByFault
    <3> QED
      BY <3>1, <2>1, <1>a, <1>0
  <2> QED
    BY <2>1, <2>2, <1>0 DEF ToldByFault
<1>1. ASSUME NEW t \in Tx, SendTransaction(t) \/ CommitRecord(t) \/ fetchBlockData(t) \/ commitFails(t)
      PROVE  ToldByFault'
  <2>1. told' = told /\ jobs' = jobs /\ (failures' = failures \/ Fault)
    BY <1>1 DEF SendTransaction, CommitRecord, fetchBlockData, commitFails
  <2> QED
    BY <1>a, <2>1
<1>2. ASSUME NEW b, NEW x, NewBlock(b, x) \/ Reorg(b, x) PROVE ToldByFault'
  <2>1. told' = told /\ jobs' = jobs /\ failures' = failures
    BY <1>2 DEF NewBlock, Reorg
  <2> QED
    BY <1>a, <2>1
<1>3. ASSUME NEW t \in Tx, commitBlockResult(t) PROVE ToldByFault'
  <2>1. PICK new : jobs' = InsertJobs(new)
    BY <1>3 DEF commitBlockResult
  <2>2. \A a \in Args : jobs[a].state = "completed" => jobs'[a].state = "completed"
    BY <2>1 DEF InsertJobs
  <2> QED
    BY <1>a, <1>3, <2>2 DEF commitBlockResult
<1>4. ASSUME NEW a \in Args, Work(a) PROVE ToldByFault'
  <2>1. /\ jobs[a].state = "scheduled"
        /\ \A b \in Args : b # a => jobs'[b] = jobs[b]
    <3>1. Fails(a) \/ jobs' = [jobs EXCEPT ![a].state = "completed"]
      BY <1>4 DEF Work
    <3> QED
      BY <1>4, <3>1 DEF Work, Fails, EventsTypeOK
  <2>2. CASE told' = told
    <3>1. failures' = failures \/ Fault
      BY <1>4 DEF Work
    <3> QED
      BY <1>a, <2>1, <2>2, <3>1
  <2>3. CASE told' # told
    <3>1. told' = [told EXCEPT ![a] = @ + 1]
      BY <1>4, <2>3 DEF Work, Completes
    <3>2. \/ jobs'[a].state = "completed" /\ failures' = failures
          \/ failures' = failures - 1 /\ failures > 0
      BY <1>4, <2>3 DEF Work, EventsTypeOK, Fault
    <3>3. told[a] =< MaxFailures - failures /\ told'[a] = told[a] + 1
      BY <2>1, <3>1, <1>0 DEF ToldByFault, EventsTypeOK
    <3>4. told'[a] =< MaxFailures - failures' + (IF jobs'[a].state = "completed" THEN 1 ELSE 0)
      BY <3>2, <3>3, <1>0
    <3>5. ASSUME NEW b \in Args, b # a
          PROVE  told'[b] =< MaxFailures - failures' + (IF jobs'[b].state = "completed" THEN 1 ELSE 0)
      <4>1. told'[b] = told[b] /\ jobs'[b] = jobs[b]
        BY <2>1, <3>1, <3>5 DEF EventsTypeOK
      <4>2. told[b] =< MaxFailures - failures + (IF jobs[b].state = "completed" THEN 1 ELSE 0)
        BY DEF ToldByFault
      <4> QED
        BY <4>1, <4>2, <3>2, <1>0
    <3> QED
      BY <3>2, <3>4, <3>5, <1>0 DEF ToldByFault
  <2> QED
    BY <2>2, <2>3
<1> QED
  BY <1>1, <1>2, <1>3, <1>4 DEF NextEvents

\* Every step keeps StoredOnce.
LEMMA NextStoredOnce == EventsTypeOK /\ SentIsRecorded /\ StoredOnce /\ NextEvents => StoredOnce'
<1> SUFFICES ASSUME EventsTypeOK, SentIsRecorded, StoredOnce, NextEvents PROVE StoredOnce'
  OBVIOUS
<1>1. ASSUME NEW t \in Tx, SendTransaction(t) PROVE StoredOnce'
  <2>1. scan[t] = "no"
    BY <1>1 DEF SendTransaction, SentIsRecorded
  <2> QED
    BY <1>1, <2>1 DEF SendTransaction, StoredOnce, EventsTypeOK, scanVars
<1>2. ASSUME NEW t \in Tx, CommitRecord(t) PROVE StoredOnce'
  BY <1>2 DEF CommitRecord, StoredOnce, scanVars, chainVars
<1>3. ASSUME NEW b, NEW mined, NewBlock(b, mined) PROVE StoredOnce'
  <2>1. UNCHANGED <<reorgs, jobs, told>>
    BY <1>3 DEF NewBlock
  <2>2. ASSUME reorgs = 0 PROVE scan' = scan
    <3>1. \A t \in mined \cap Tx : scan[t] = "no"
      BY <1>3, <2>2 DEF NewBlock, StoredOnce
    <3> QED
      BY <1>3, <3>1 DEF NewBlock, EventsTypeOK
  <2>3. \A t \in Tx : conf'[t] =< 0 => conf[t] =< 0
    BY <1>3 DEF NewBlock, EventsTypeOK
  <2> QED
    BY <2>1, <2>2, <2>3 DEF StoredOnce
<1>4. ASSUME NEW b, NEW k, Reorg(b, k) PROVE StoredOnce'
  <2>1. reorgs' \in Nat /\ reorgs' # 0 /\ UNCHANGED <<jobs, told>>
    BY <1>4 DEF Reorg, StoredOnce
  <2> QED
    BY <2>1 DEF StoredOnce
<1>5. ASSUME NEW t \in Tx, fetchBlockData(t) \/ commitFails(t) PROVE StoredOnce'
  <2>1. UNCHANGED <<conf, reorgs, jobs, told>>
    BY <1>5 DEF fetchBlockData, commitFails, chainVars
  <2>2. \A u \in Tx : /\ scan[u] = "done" <=> scan'[u] = "done"
                      /\ conf[u] =< 0 /\ scan[u] = "no" => scan'[u] = "no"
    BY <1>5 DEF fetchBlockData, commitFails, EventsTypeOK
  <2> QED
    BY <2>1, <2>2, ArgsHaveTx DEF StoredOnce
<1>6. ASSUME NEW t \in Tx, commitBlockResult(t) PROVE StoredOnce'
  <2> DEFINE new == {[tx |-> t, kind |-> c.kind, address |-> c.address, system |-> IsSystem(t)] :
                       c \in whParams(t)}
  <2>1. \A a \in new : a.tx = t /\ a.system = IsSystem(t)
    OBVIOUS
  <2>2. jobs' = InsertJobs(new) /\ UNCHANGED <<conf, reorgs, told>>
    BY <1>6 DEF commitBlockResult, chainVars
  <2> HIDE DEF new
  <2>3. \A a \in Args : /\ jobs[a].state # "none" => jobs'[a].state # "none"
                        /\ jobs'[a].state # "none" => jobs[a].state # "none" \/ a \in new
    BY <2>2 DEF InsertJobs, NewJob
  <2>4. scan[t] = "fetched" /\ scan'[t] = "done" /\ \A u \in Tx : u # t => scan'[u] = scan[u]
    BY <1>6 DEF commitBlockResult, EventsTypeOK
  <2>5. ASSUME reorgs = 0
        PROVE  /\ \A u \in Tx : conf'[u] =< 0 => scan'[u] = "no"
               /\ \A a \in Args : scan'[a.tx] # "done" => jobs'[a].state = "none"
    BY <2>5, <2>1, <2>2, <2>3, <2>4, ArgsHaveTx DEF StoredOnce
  <2>6. ASSUME reorgs = 0, NEW a \in Args, NEW b \in Args, a.tx = b.tx,
               jobs'[a].state # "none", jobs'[b].state # "none"
        PROVE  a.system = b.system
    <3>1. CASE a.tx = t
      <4>1. jobs[a].state = "none" /\ jobs[b].state = "none"
        BY <2>4, <2>6, <3>1 DEF StoredOnce
      <4> QED
        BY <4>1, <2>1, <2>3, <2>6
    <3>2. CASE a.tx # t
      BY <2>1, <2>3, <2>6, <3>2 DEF StoredOnce
    <3> QED
      BY <3>1, <3>2
  <2> QED
    BY <2>2, <2>3, <2>5, <2>6 DEF StoredOnce
<1>7. ASSUME NEW a \in Args, Work(a) PROVE StoredOnce'
  <2>1. UNCHANGED <<conf, reorgs, scan>> /\ jobs[a].state # "none"
    BY <1>7 DEF Work, chainVars, scanVars
  <2>2. Fails(a) \/ jobs' = [jobs EXCEPT ![a].state = "completed"]
    BY <1>7 DEF Work
  <2>3. \A b \in Args : jobs'[b].state # "none" <=> jobs[b].state # "none"
    BY <2>1, <2>2 DEF Fails, EventsTypeOK
  <2>4. \A b \in Args : told'[b] > 0 => told[b] > 0 \/ b = a
    BY <1>7 DEF Work, Completes, EventsTypeOK
  <2> QED
    BY <2>1, <2>3, <2>4 DEF StoredOnce
<1> QED
  BY <1>1, <1>2, <1>3, <1>4, <1>5, <1>6, <1>7 DEF NextEvents

\* What Work tells the client of the completion of an event: more than once only for
\* failures, because River keeps the job of a completed event, and with both flags only
\* when a block was replaced.
THEOREM CompletionIsToldOnce == SpecEvents => []CompletedOnce
<1> DEFINE CInv == EventsTypeOK /\ SentIsRecorded /\ ToldByFault /\ StoredOnce
<1>1. InitEvents => CInv
  <2> SUFFICES ASSUME InitEvents PROVE CInv
    OBVIOUS
  <2>1. EventsTypeOK /\ SentIsRecorded
    BY InitInv DEF Inv
  <2>2. ToldByFault
    BY ChainEventsAssumption DEF InitEvents, ToldByFault, NoJob
  <2>3. StoredOnce
    BY ArgsHaveTx DEF InitEvents, StoredOnce, NoJob
  <2> QED
    BY <2>1, <2>2, <2>3
<1>2. CInv /\ [NextEvents]_eventVars => CInv'
  <2>1. CASE NextEvents
    BY <2>1, NextTypeOK, NextSent, NextTold, NextStoredOnce
  <2>2. CASE UNCHANGED eventVars
    BY <2>2 DEF eventVars, chainVars, scanVars, EventsTypeOK, SentIsRecorded, ToldByFault, StoredOnce
  <2> QED
    BY <2>1, <2>2
<1>3. CInv => CompletedOnce
  <2> SUFFICES ASSUME CInv PROVE CompletedOnce
    OBVIOUS
  <2>1. ASSUME NEW a \in Args PROVE told[a] =< 1 + (MaxFailures - failures)
    BY ChainEventsAssumption DEF ToldByFault, EventsTypeOK
  <2>2. \A a, b \in Args : a.tx = b.tx /\ a.system # b.system /\ told[a] > 0 /\ told[b] > 0 => reorgs > 0
    BY DEF StoredOnce
  <2> QED
    BY <2>1, <2>2 DEF CompletedOnce
<1> QED
  BY <1>1, <1>2, <1>3, PTL DEF SpecEvents

=============================================================================
