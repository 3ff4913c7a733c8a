------------------------- MODULE BlockScannerProofs -------------------------
(***************************************************************************)
(* NoGap for a chain of any height, batches of any size, and any number of *)
(* reorganisations and faults.                                             *)
(*                                                                         *)
(* The scanner never sees the whole chain, only hashes.  A hash names one  *)
(* branch, and a block that was replaced never comes back (IsBlock), so a  *)
(* block and its predecessor, read together, are on the chain together     *)
(* (HeadsInv).  A batch that was validated is linked to the stored block   *)
(* (PassInv), so storing it extends what is announced.  Below the height   *)
(* of a reorganisation that the scanner has not handled yet everything is  *)
(* announced, so it may go back there (RowInv, TargetInv).                 *)
(***************************************************************************)
EXTENDS BlockScanner, TLAPS

\* The block at height h of chain c.
At(c, h) == IF h \in DOMAIN c THEN <<h, c[h]>> ELSE Unknown

\* x is a block that is or was at height h of the chain c, after r reorganisations.
\* A block of the newest branch is still there.
IsBlock(c, r, x, h) == \E b \in 0..r : x = <<h, b>> /\ (b = r => At(c, h) = x)

Clean == causes \subseteq {"answer"}

\* The variables have their types.
Types ==
    /\ chain \in Seq(Nat) /\ reorgs \in Nat /\ incident \in Nat /\ Len(chain) >= 1
    /\ \A h \in DOMAIN chain : chain[h] =< reorgs
    /\ node \in Nat /\ parsed \in (Nat \cup {-1}) \ {0}
    /\ pass = [pc |-> pass.pc, exists |-> pass.exists, known |-> pass.known,
               from |-> pass.from, to |-> pass.to, upto |-> pass.upto]
    /\ pass.pc \in {"idle", "load", "commit", "rollback", "revert"} /\ pass.exists \in BOOLEAN
    /\ pass.from \in Nat /\ pass.to \in Nat /\ pass.upto \in Nat
    /\ origin \in Nat /\ disturbed \in BOOLEAN
    /\ Unknown \notin announced

\* The row is of a block that was on the chain, and is unless a reorganisation is not
\* handled.  What is below the blocks that this replaced is announced, as far as the
\* row goes, and all of it when the row is on the chain.
RowInv ==
    /\ db # NoRow => /\ origin >= 1 /\ db.number \in Nat \ {0}
                     /\ IsBlock(chain, reorgs, db.hash, db.number)
                     /\ ~disturbed => At(chain, db.number) = db.hash
    /\ disturbed /\ Clean =>
            /\ incident \in 2..Len(chain)
            /\ \A h \in origin..db.number : h < incident => At(chain, h) \in announced
    /\ db # NoRow /\ At(chain, db.number) = db.hash /\ Clean =>
            \A h \in origin..db.number : At(chain, h) \in announced

\* The same of what has been read; a block on the chain has the predecessor that was
\* read with it.
HeadsInv ==
    \A h \in DOMAIN heads :
        /\ h \in Nat \ {0}
        /\ IsBlock(chain, reorgs, heads[h].hash, h)
        /\ h > 1 => \E b \in Nat : heads[h].prev = <<h - 1, b>>
        /\ At(chain, h) = heads[h].hash => At(chain, h - 1) = heads[h].prev
        /\ ~disturbed \/ (Clean /\ h < incident) => At(chain, h) = heads[h].hash

\* A pass that goes on from a block knows its hash, or an error has hidden it.  The
\* blocks that it commits follow the row and each other, with their own transactions.
PassInv ==
    /\ parsed # -1 \/ pass.exists \/ pass.pc \in {"rollback", "revert"} => db # NoRow
    /\ pass.pc = "idle" => DOMAIN heads = {}
    /\ pass.pc \in {"load", "commit"} =>
            /\ pass.from >= 1 /\ pass.from =< pass.to /\ pass.to =< pass.upto
            /\ IF pass.exists THEN pass.from >= 2 ELSE pass.from = pass.to
    /\ pass.pc = "load" /\ pass.exists => pass.known \in {db.hash, Unknown}
    /\ pass.pc = "commit" => pass.from..pass.to \subseteq DOMAIN heads
    /\ pass.pc = "commit" /\ Clean =>
            /\ \A h \in pass.from..pass.to : txs[h] = heads[h].hash
            /\ pass.exists => heads[pass.from].prev = db.hash
            /\ \A h \in (pass.from + 1)..pass.to : heads[h].prev = heads[h - 1].hash

\* The height to which the scanner is about to go back is a safe one.
TargetInv ==
    pass.pc = "revert" /\ Clean =>
        \A h \in origin..db.number : h =< pass.to => At(chain, h) \in announced

GapInv == Types /\ RowInv /\ HeadsInv /\ PassInv /\ TargetInv

(***************************************************************************)
(* Chains                                                                  *)
(***************************************************************************)

\* A hash names its height and its branch, and is not empty.
LEMMA Hashes ==
    \A h, b, k, c : (<<h, b>> = <<k, c>> <=> h = k /\ b = c) /\ <<h, b>> # Unknown
<1>1. \A h, b : Len(<<h, b>>) = 2 /\ Len(Unknown) = 0
  BY DEF Unknown
<1> QED
  BY <1>1

LEMMA BlockHasHash ==
    ASSUME NEW c, NEW r, NEW x, NEW h, IsBlock(c, r, x, h)
    PROVE  x # Unknown /\ \E b : x = <<h, b>>
<1>1. PICK b \in 0..r : x = <<h, b>>
  BY DEF IsBlock
<1> QED
  BY <1>1, Hashes

LEMMA Heights ==
    ASSUME NEW c \in Seq(Nat), NEW h \in Int
    PROVE  /\ h \in 1..Len(c) => At(c, h) = <<h, c[h]>> /\ c[h] \in Nat
           /\ h \notin 1..Len(c) => At(c, h) = Unknown
BY DEF At

\* d is the chain c with one more block, of branch r.
Longer(c, r, d) ==
    d \in Seq(Nat) /\ Len(d) = Len(c) + 1 /\ d[Len(c) + 1] = r /\ \A i \in 1..Len(c) : d[i] = c[i]

\* d is the chain c below height k, and a block of branch r.
Replaced(c, r, k, d) ==
    d \in Seq(Nat) /\ Len(d) = k /\ d[k] = r /\ \A i \in 1..(k - 1) : d[i] = c[i]

\* The chain grows: blocks that were known stay where they are, or stay replaced.
LEMMA Grows ==
    ASSUME NEW c \in Seq(Nat), NEW r \in Nat, NEW h \in Nat, NEW d, Longer(c, r, d)
    PROVE  /\ h =< Len(c) => At(d, h) = At(c, h)
           /\ \A x : IsBlock(c, r, x, h) /\ h > 0 =>
                        IsBlock(d, r, x, h) /\ (At(d, h) = x <=> At(c, h) = x)
<1>1. d \in Seq(Nat) /\ Len(d) = Len(c) + 1 /\ d[Len(c) + 1] = r /\ \A i \in 1..Len(c) : d[i] = c[i]
  BY DEF Longer
<1>2. ASSUME h =< Len(c) PROVE At(d, h) = At(c, h)
  <2>1. h \in 1..Len(c) <=> h \in 1..Len(d)
    BY <1>1, <1>2
  <2>2. CASE h \in 1..Len(c)
    <3>1. At(c, h) = <<h, c[h]>> /\ At(d, h) = <<h, d[h]>> /\ d[h] = c[h]
      BY <1>1, <2>1, <2>2 DEF At
    <3> QED
      BY <3>1
  <2>3. CASE h \notin 1..Len(c)
    BY <1>1, <2>1, <2>3, Heights
  <2> QED
    BY <2>2, <2>3
<1>3. ASSUME NEW x, IsBlock(c, r, x, h), h > 0
      PROVE  IsBlock(d, r, x, h) /\ (At(d, h) = x <=> At(c, h) = x)
  <2>1. PICK b \in 0..r : x = <<h, b>> /\ (b = r => At(c, h) = x)
    BY <1>3 DEF IsBlock
  <2>2. CASE h =< Len(c)
    BY <1>2, <2>1, <2>2 DEF IsBlock
  <2>3. CASE h > Len(c)
    <3>1. At(c, h) = Unknown /\ x # Unknown /\ b # r
      BY <2>1, <2>3, Heights, Hashes
    <3>2. At(d, h) = <<h, r>> \/ At(d, h) = Unknown
      BY <1>1, <2>3 DEF At
    <3>3. At(d, h) # x
      BY <2>1, <3>1, <3>2, Hashes
    <3> QED
      BY <2>1, <3>1, <3>3 DEF IsBlock
  <2> QED
    BY <2>2, <2>3
<1> QED
  BY <1>1, <1>2, <1>3

\* The blocks from height k on are replaced: the others stay, and those are gone for good.
LEMMA Replaces ==
    ASSUME NEW c \in Seq(Nat), NEW r \in Nat, NEW h \in Nat, NEW k \in 1..Len(c),
           NEW d, Replaced(c, r + 1, k, d)
    PROVE  /\ h < k => At(d, h) = At(c, h)
           /\ \A x : IsBlock(c, r, x, h) /\ h > 0 =>
                        IsBlock(d, r + 1, x, h) /\ (At(d, h) = x <=> At(c, h) = x /\ h < k)
<1>1. d \in Seq(Nat) /\ Len(d) = k /\ d[k] = r + 1 /\ \A i \in 1..(k - 1) : d[i] = c[i]
  BY DEF Replaced
<1>2. ASSUME h < k PROVE At(d, h) = At(c, h)
  BY <1>1, <1>2 DEF At
<1>3. ASSUME NEW x, IsBlock(c, r, x, h), h > 0
      PROVE  IsBlock(d, r + 1, x, h) /\ (At(d, h) = x <=> At(c, h) = x /\ h < k)
  <2>1. PICK b \in 0..r : x = <<h, b>>
    BY <1>3 DEF IsBlock
  <2>2. IsBlock(d, r + 1, x, h)
    BY <2>1 DEF IsBlock
  <2>3. ASSUME h >= k PROVE At(d, h) # x
    <3>1. At(d, h) = <<h, r + 1>> \/ At(d, h) = Unknown
      BY <1>1, <2>3 DEF At
    <3> QED
      BY <2>1, <3>1, Hashes
  <2> QED
    BY <1>2, <2>2, <2>3
<1> QED
  BY <1>1, <1>2, <1>3

\* A batch does not end before it begins nor after the last block that is asked for.
LEMMA BatchEnds ==
    ASSUME NEW from \in Nat, NEW upto \in Nat, from =< upto
    PROVE  BatchEnd(from, upto) \in Nat /\ from =< BatchEnd(from, upto) /\ BatchEnd(from, upto) =< upto
BY BlockScannerAssumption DEF BatchEnd

(***************************************************************************)
(* The environment                                                         *)
(***************************************************************************)

\* A new block hides nothing and brings nothing back.
LEMMA NewBlockKeeps == GapInv /\ NewBlock => GapInv'
<1> SUFFICES ASSUME GapInv, NewBlock PROVE GapInv'
  OBVIOUS
<1>1. /\ chain' = Append(chain, reorgs)
      /\ UNCHANGED <<reorgs, incident, node, parsed, db, announced, pass, txs, heads, origin, disturbed, causes>>
  BY DEF NewBlock, passVars, history
<1>2. chain \in Seq(Nat) /\ reorgs \in Nat /\ incident \in Nat /\ origin \in Nat /\ Unknown \notin announced
  BY DEF GapInv, Types
<1>3. /\ chain' \in Seq(Nat) /\ Len(chain') = Len(chain) + 1
      /\ \A h \in Nat : h =< Len(chain) => At(chain', h) = At(chain, h)
      /\ \A h \in Nat \ {0} : \A x : IsBlock(chain, reorgs, x, h) =>
            IsBlock(chain', reorgs, x, h) /\ (At(chain', h) = x <=> At(chain, h) = x)
  <2>1. Longer(chain, reorgs, chain')
    BY <1>1, <1>2 DEF Longer
  <2>2. chain' \in Seq(Nat) /\ Len(chain') = Len(chain) + 1
    BY <2>1 DEF Longer
  <2>3. \A h \in Nat : h =< Len(chain) => At(chain', h) = At(chain, h)
    BY <1>2, <2>1, Grows
  <2>4. ASSUME NEW h \in Nat \ {0}, NEW x, IsBlock(chain, reorgs, x, h)
        PROVE  IsBlock(chain', reorgs, x, h) /\ (At(chain', h) = x <=> At(chain, h) = x)
    <3>1. h \in Nat /\ h > 0
      OBVIOUS
    <3> QED
      BY <1>2, <2>1, <2>4, <3>1, Grows
  <2> QED
    BY <2>2, <2>3, <2>4
<1>4. \A h \in Nat : At(chain, h) \in announced => At(chain', h) \in announced
  BY <1>2, <1>3, Heights
<1>5. Types'
  <2>1. \A h \in DOMAIN chain' : chain'[h] =< reorgs
    BY <1>1, <1>2 DEF GapInv, Types
  <2> QED
    BY <1>1, <1>2, <1>3, <2>1 DEF GapInv, Types
<1>6. RowInv'
  <2>1. db # NoRow => /\ origin >= 1 /\ db.number \in Nat \ {0}
                      /\ IsBlock(chain', reorgs, db.hash, db.number)
                      /\ ~disturbed => At(chain', db.number) = db.hash
                      /\ At(chain', db.number) = db.hash => At(chain, db.number) = db.hash
    BY <1>3 DEF GapInv, RowInv
  <2>2. \A h \in origin..db.number : h \in Nat
    BY <1>2
  <2>3. disturbed /\ Clean =>
            /\ incident \in 2..Len(chain')
            /\ \A h \in origin..db.number : h < incident => At(chain', h) \in announced
    BY <1>2, <1>3, <1>4, <2>2 DEF GapInv, RowInv
  <2>4. db # NoRow /\ At(chain', db.number) = db.hash /\ Clean =>
            \A h \in origin..db.number : At(chain', h) \in announced
    BY <1>4, <2>1, <2>2 DEF GapInv, RowInv
  <2> QED
    BY <1>1, <2>1, <2>3, <2>4 DEF RowInv, Clean
<1>7. HeadsInv'
  <2>1. ASSUME NEW h \in DOMAIN heads
        PROVE  /\ h \in Nat \ {0}
               /\ IsBlock(chain', reorgs, heads[h].hash, h)
               /\ h > 1 => \E b \in Nat : heads[h].prev = <<h - 1, b>>
               /\ At(chain', h) = heads[h].hash => At(chain', h - 1) = heads[h].prev
               /\ ~disturbed \/ (Clean /\ h < incident) => At(chain', h) = heads[h].hash
    <3>1. h \in Nat \ {0} /\ IsBlock(chain, reorgs, heads[h].hash, h)
      BY DEF GapInv, HeadsInv
    <3>2. IsBlock(chain', reorgs, heads[h].hash, h) /\ (At(chain', h) = heads[h].hash <=> At(chain, h) = heads[h].hash)
      BY <1>3, <3>1
    <3>3. ASSUME At(chain, h) = heads[h].hash PROVE At(chain', h - 1) = At(chain, h - 1)
      <4>1. At(chain, h) # Unknown
        BY <3>1, <3>3, Hashes DEF IsBlock
      <4>2. h \in 1..Len(chain)
        BY <1>2, <3>1, <4>1, Heights
      <4> QED
        BY <1>3, <4>2
    <3> QED
      BY <3>1, <3>2, <3>3 DEF GapInv, HeadsInv
  <2> QED
    BY <1>1, <2>1 DEF HeadsInv, Clean
<1>8. PassInv' /\ TargetInv'
  <2>1. PassInv'
    BY <1>1 DEF GapInv, PassInv, Clean
  <2>2. \A h \in origin..db.number : h \in Nat
    BY <1>2
  <2> QED
    BY <1>1, <1>4, <2>1, <2>2 DEF GapInv, TargetInv, Clean
<1> QED
  BY <1>5, <1>6, <1>7, <1>8 DEF GapInv

\* A reorganisation that is the only one to handle leaves what lies below it announced.
LEMMA ReorgKeeps == ASSUME GapInv, NEW k \in DOMAIN chain, Reorg(k) PROVE GapInv'
<1>1. /\ k > 1 /\ k =< Len(chain)
      /\ chain' = Append(SubSeq(chain, 1, k - 1), reorgs + 1) /\ reorgs' = reorgs + 1 /\ incident' = k
      /\ disturbed' = (disturbed \/ Concerned(k))
      /\ causes' = IF disturbed \/ pass.pc = "revert" THEN causes \cup {"overlap"} ELSE causes
      /\ UNCHANGED <<node, parsed, db, announced, pass, txs, heads, origin>>
  BY DEF Reorg, passVars
<1>2. /\ chain \in Seq(Nat) /\ reorgs \in Nat /\ incident \in Nat /\ origin \in Nat /\ Unknown \notin announced
      /\ k \in 1..Len(chain) /\ \A h \in 1..Len(chain) : chain[h] =< reorgs /\ chain[h] \in Nat
  <2>1. chain \in Seq(Nat) /\ \A h \in DOMAIN chain : chain[h] =< reorgs
    BY DEF GapInv, Types
  <2>2. k \in 1..Len(chain) /\ \A h \in 1..Len(chain) : chain[h] =< reorgs
    BY <2>1
  <2>3. \A h \in 1..Len(chain) : chain[h] \in Nat
    BY <2>1
  <2> QED
    BY <2>1, <2>2, <2>3 DEF GapInv, Types
<1>2r. Replaced(chain, reorgs + 1, k, chain')
  <2> DEFINE e == SubSeq(chain, 1, k - 1)
  <2>1. e \in Seq(Nat) /\ Len(e) = k - 1 /\ \A i \in 1..(k - 1) : e[i] = chain[i]
    BY <1>2
  <2>2. chain' = Append(e, reorgs + 1) /\ reorgs + 1 \in Nat
    BY <1>1, <1>2
  <2> HIDE DEF e
  <2> QED
    BY <1>2, <2>1, <2>2 DEF Replaced
<1>3. /\ chain' \in Seq(Nat) /\ Len(chain') = k
      /\ \A h \in Nat : h < k => At(chain', h) = At(chain, h)
      /\ \A h \in Nat \ {0} : \A x : IsBlock(chain, reorgs, x, h) =>
            IsBlock(chain', reorgs + 1, x, h) /\ (At(chain', h) = x <=> At(chain, h) = x /\ h < k)
  <2>2. chain' \in Seq(Nat) /\ Len(chain') = k
    BY <1>2r DEF Replaced
  <2>3. \A h \in Nat : h < k => At(chain', h) = At(chain, h)
    BY <1>2, <1>2r, Replaces
  <2>4. ASSUME NEW h \in Nat \ {0}, NEW x, IsBlock(chain, reorgs, x, h)
        PROVE  IsBlock(chain', reorgs + 1, x, h) /\ (At(chain', h) = x <=> At(chain, h) = x /\ h < k)
    <3>1. h \in Nat /\ h > 0
      OBVIOUS
    <3>2. chain \in Seq(Nat) /\ reorgs \in Nat /\ k \in 1..Len(chain)
      BY <1>2
    <3>3. IsBlock(chain', reorgs + 1, x, h)
      BY <1>2r, <2>4, <3>1, <3>2, Replaces
    <3>4. At(chain', h) = x <=> At(chain, h) = x /\ h < k
      BY <1>2r, <2>4, <3>1, <3>2, Replaces
    <3> QED
      BY <3>3, <3>4
  <2> QED
    BY <2>2, <2>3, <2>4
<1>4. Clean' => Clean /\ ~disturbed /\ pass.pc # "revert"
  BY <1>1 DEF Clean
<1>5. Types'
  <2>1. \A h \in DOMAIN chain' : chain'[h] =< reorgs'
    <3>5. ASSUME NEW h \in 1..k PROVE chain'[h] =< reorgs + 1
      <4>1. h = k \/ h \in 1..(k - 1)
        BY <1>2
      <4> QED
        BY <1>2, <1>2r, <4>1 DEF Replaced
    <3> QED
      BY <1>1, <1>3, <3>5
  <2>2. disturbed' \in BOOLEAN
    BY <1>1, Zenon
  <2>3. reorgs' \in Nat /\ incident' \in Nat /\ Len(chain') >= 1
    BY <1>1, <1>2, <1>3
  <2> QED
    BY <1>1, <1>2, <1>3, <2>1, <2>2, <2>3 DEF GapInv, Types
<1>6. RowInv'
  <2>1. ASSUME db # NoRow
        PROVE  /\ origin >= 1 /\ db.number \in Nat \ {0}
               /\ IsBlock(chain', reorgs + 1, db.hash, db.number)
               /\ At(chain', db.number) = db.hash <=> At(chain, db.number) = db.hash /\ db.number < k
    BY <1>3, <2>1 DEF GapInv, RowInv
  <2>2. \A h \in origin..db.number : h \in Nat
    BY <1>2
  <2>3. ASSUME db # NoRow, ~disturbed' PROVE At(chain', db.number) = db.hash
    <3>1. ~disturbed /\ ~(k =< db.number)
      BY <1>1, <2>3 DEF Concerned
    <3> QED
      BY <1>1, <1>2, <2>1, <2>3, <3>1 DEF GapInv, RowInv
  <2>4. ASSUME Clean', NEW h \in origin..db.number, h < k PROVE At(chain', h) \in announced
    <3>1. db # NoRow
      <4>1. ASSUME db = NoRow PROVE db.number = -1
        BY <4>1 DEF NoRow
      <4> QED
        BY <1>2, <2>4, <4>1
    <3>2. At(chain, h) \in announced
      BY <1>4, <2>4, <3>1 DEF GapInv, RowInv
    <3> QED
      BY <1>3, <2>2, <2>4, <3>2
  <2>5. ASSUME db # NoRow, At(chain', db.number) = db.hash, Clean', NEW h \in origin..db.number
        PROVE  At(chain', h) \in announced
    BY <1>1, <1>2, <2>1, <2>4, <2>5
  <2>6. k \in 2..Len(chain')
    BY <1>1, <1>2, <1>3
  <2> QED
    BY <1>1, <2>1, <2>3, <2>4, <2>5, <2>6 DEF RowInv
<1>7. HeadsInv'
  <2>1. ASSUME NEW h \in DOMAIN heads
        PROVE  /\ h \in Nat \ {0}
               /\ IsBlock(chain', reorgs + 1, heads[h].hash, h)
               /\ h > 1 => \E b \in Nat : heads[h].prev = <<h - 1, b>>
               /\ At(chain', h) = heads[h].hash => At(chain', h - 1) = heads[h].prev
               /\ ~disturbed' \/ (Clean' /\ h < k) => At(chain', h) = heads[h].hash
    <3>1. h \in Nat \ {0} /\ IsBlock(chain, reorgs, heads[h].hash, h)
      BY DEF GapInv, HeadsInv
    <3>2. IsBlock(chain', reorgs + 1, heads[h].hash, h)
          /\ (At(chain', h) = heads[h].hash <=> At(chain, h) = heads[h].hash /\ h < k)
      BY <1>3, <3>1
    <3>3. h < k => At(chain', h - 1) = At(chain, h - 1)
      BY <1>2, <1>3, <3>1
    <3>4. disturbed'
      BY <1>1 DEF GapInv, PassInv, Concerned
    <3> QED
      BY <1>4, <3>1, <3>2, <3>3, <3>4 DEF GapInv, HeadsInv
  <2> QED
    BY <1>1, <2>1 DEF HeadsInv
<1>8. PassInv' /\ TargetInv'
  BY <1>1, <1>4 DEF GapInv, PassInv, TargetInv, Clean
<1> QED
  BY <1>5, <1>6, <1>7, <1>8 DEF GapInv

(***************************************************************************)
(* The scanner                                                             *)
(***************************************************************************)

LEMMA Empty == DOMAIN Nothing = {}
BY DEF Nothing

\* handleBlocks may end at any time, and the process may be restarted.
LEMMA EndsKeeps ==
    ASSUME GapInv, Ends, UNCHANGED <<chain, reorgs, incident, db, announced, origin, disturbed, causes>>,
           parsed' \in {parsed, db.number}, node' \in Nat
    PROVE  GapInv'
<1>1. pass' = NoPass /\ heads' = Nothing /\ DOMAIN Nothing = {}
  BY Empty DEF Ends
<1>2. parsed' \in (Nat \cup {-1}) \ {0} /\ (parsed' # -1 => db # NoRow)
  BY DEF GapInv, Types, RowInv, PassInv, NoRow
<1>3. Types'
  BY <1>1, <1>2 DEF GapInv, Types, NoPass
<1>4. RowInv'
  BY DEF GapInv, RowInv, Clean
<1>5. HeadsInv'
  BY <1>1 DEF HeadsInv
<1>6. PassInv' /\ TargetInv'
  BY <1>1, <1>2 DEF PassInv, TargetInv, NoPass
<1> QED
  BY <1>3, <1>4, <1>5, <1>6 DEF GapInv

\* What is written with a block: it was linked to the row, so when it is on the chain
\* the row was, too, and the block is the only one that was not announced.
LEMMA StoreKeeps ==
    ASSUME GapInv, pass.pc = "commit", Store, UNCHANGED <<chain, reorgs, incident, disturbed>>,
           Clean' => Clean
    PROVE  /\ RowInv' /\ Unknown \notin announced' /\ origin' \in Nat
           /\ db' = [number |-> pass.from, hash |-> heads[pass.from].hash] /\ db' # NoRow
<1> DEFINE f == pass.from
           x == heads[f].hash
<1>1. /\ f \in Nat /\ f >= 1 /\ f \in DOMAIN heads /\ f \in f..pass.to
      /\ origin \in Nat /\ Unknown \notin announced /\ pass.exists \in BOOLEAN
  <2>1. f \in Nat /\ pass.to \in Nat /\ f >= 1 /\ f =< pass.to /\ f..pass.to \subseteq DOMAIN heads
    BY DEF GapInv, Types, PassInv
  <2> QED
    BY <2>1 DEF GapInv, Types
<1>2. /\ db' = [number |-> f, hash |-> x] /\ announced' = announced \cup ({txs[f]} \ {Unknown})
      /\ origin' = IF pass.exists THEN origin ELSE f
  BY DEF Store
<1>3. db' # NoRow /\ db'.number = f /\ db'.hash = x
  <2>1. db'.number = f /\ db'.hash = x
    BY <1>2
  <2>2. NoRow.number = -1
    BY DEF NoRow
  <2> QED
    BY <1>1, <2>1, <2>2
<1>4. IsBlock(chain, reorgs, x, f) /\ x # Unknown
  <2>1. IsBlock(chain, reorgs, x, f)
    BY <1>1 DEF GapInv, HeadsInv
  <2> QED
    BY <2>1, BlockHasHash
<1>5. pass.exists => db # NoRow /\ origin >= 1 /\ f >= 2
  BY DEF GapInv, PassInv, RowInv
<1>6. Clean => x \in announced'
  <2>1. Clean => txs[f] = x
    BY <1>1 DEF GapInv, PassInv
  <2> QED
    BY <1>2, <1>4, <2>1
<1>7. ASSUME Clean, pass.exists PROVE db.number = f - 1 /\ heads[f].prev = db.hash
  <2>1. heads[f].prev = db.hash
    BY <1>7 DEF GapInv, PassInv
  <2>2. PICK b : heads[f].prev = <<f - 1, b>>
    BY <1>1, <1>5, <1>7 DEF GapInv, HeadsInv
  <2>3. IsBlock(chain, reorgs, db.hash, db.number)
    BY <1>5, <1>7 DEF GapInv, RowInv
  <2>4. PICK d : db.hash = <<db.number, d>>
    BY <2>3, BlockHasHash
  <2>5. <<f - 1, b>> = <<db.number, d>>
    BY <2>1, <2>2, <2>4
  <2> QED
    BY <2>1, <2>5
<1>8. ASSUME Clean, disturbed, NEW h \in origin'..f, h < incident PROVE At(chain, h) \in announced'
  <2>1. CASE h = f
    BY <1>1, <1>6, <1>8, <2>1 DEF GapInv, HeadsInv
  <2>2. CASE h # f
    <3>1. pass.exists /\ h \in origin..db.number
      BY <1>1, <1>2, <1>7, <1>8, <2>2
    <3> QED
      BY <1>2, <1>8, <3>1 DEF GapInv, RowInv
  <2> QED
    BY <2>1, <2>2
<1>9. ASSUME Clean, At(chain, f) = x, NEW h \in origin'..f PROVE At(chain, h) \in announced'
  <2>1. CASE h = f
    BY <1>6, <1>9, <2>1
  <2>2. CASE h # f
    <3>1. pass.exists /\ h \in origin..db.number
      BY <1>1, <1>2, <1>7, <1>9, <2>2
    <3>2. At(chain, f - 1) = heads[f].prev
      BY <1>1, <1>9 DEF GapInv, HeadsInv
    <3>3. At(chain, db.number) = db.hash
      BY <1>7, <1>9, <3>1, <3>2
    <3> QED
      BY <1>2, <1>5, <1>9, <3>1, <3>3 DEF GapInv, RowInv
  <2> QED
    BY <2>1, <2>2
<1>10. origin' \in Nat /\ origin' >= 1 /\ Unknown \notin announced'
  BY <1>1, <1>2, <1>5
<1>11. ~disturbed => At(chain, f) = x
  BY <1>1 DEF GapInv, HeadsInv
<1>12. disturbed /\ Clean => incident \in 2..Len(chain)
  BY DEF GapInv, RowInv
<1> HIDE DEF f, x
<1>13. RowInv'
  BY <1>1, <1>3, <1>4, <1>8, <1>9, <1>10, <1>11, <1>12 DEF RowInv
<1> QED
  BY <1>2, <1>3, <1>10, <1>13 DEF f, x

LEMMA ReadTipKeeps == GapInv /\ readTip => GapInv'
<1> SUFFICES ASSUME GapInv, readTip PROVE GapInv'
  OBVIOUS
<1>1. node' \in Nat /\ UNCHANGED <<chain, reorgs, incident, parsed, db, announced, pass, txs, heads,
                                   origin, disturbed, causes>>
  BY DEF readTip, chainVars, passVars, history, GapInv, Types
<1>2. Types'
  BY <1>1 DEF GapInv, Types
<1> QED
  BY <1>1, <1>2 DEF GapInv, RowInv, HeadsInv, PassInv, TargetInv, Clean

\* A pass begins after the block in memory, whose row may be another one.
LEMMA HandleBlocksKeeps == GapInv /\ handleBlocks => GapInv'
<1> SUFFICES ASSUME GapInv, handleBlocks PROVE GapInv'
  OBVIOUS
<1> DEFINE from == IF parsed = -1 THEN node ELSE parsed + 1
<1>1. /\ UNCHANGED <<chain, reorgs, incident, node, parsed, db, announced, origin, disturbed, causes>>
      /\ heads' = Nothing /\ DOMAIN Nothing = {}
  BY Empty DEF handleBlocks, chainVars, history
<1>2. parsed < node /\ node # 0 /\ node \in Nat /\ parsed \in (Nat \cup {-1}) \ {0}
  BY DEF handleBlocks, GapInv, Types
<1>3. from \in Nat /\ from >= 1 /\ from =< node /\ (IF parsed # -1 THEN from >= 2 ELSE from = node)
  BY <1>2
<1>4. PICK known \in {db.hash, Unknown} :
        pass' = [pc |-> "load", exists |-> parsed # -1,
                 known |-> IF parsed # -1 THEN known ELSE Unknown,
                 from |-> from, to |-> BatchEnd(from, node), upto |-> node]
  BY DEF handleBlocks
<1> HIDE DEF from
<1>5. BatchEnd(from, node) \in Nat /\ from =< BatchEnd(from, node) /\ BatchEnd(from, node) =< node
  BY <1>2, <1>3, BatchEnds
<1>6. Types'
  BY <1>1, <1>2, <1>3, <1>4, <1>5 DEF GapInv, Types
<1>7. RowInv' /\ HeadsInv'
  BY <1>1 DEF GapInv, RowInv, HeadsInv, Clean
<1>8. PassInv' /\ TargetInv'
  <2>1. /\ pass'.pc = "load" /\ pass'.from = from /\ pass'.to = BatchEnd(from, node) /\ pass'.upto = node
        /\ pass'.known \in {db.hash, Unknown}
    BY <1>4
  <2>2. pass'.exists <=> parsed # -1
    BY <1>4
  <2>3. parsed # -1 => db # NoRow
    BY DEF GapInv, PassInv
  <2>4. IF pass'.exists THEN pass'.from >= 2 ELSE pass'.from = pass'.to
    BY <1>2, <1>3, <1>5, <2>1, <2>2
  <2> QED
    BY <1>1, <1>2, <1>3, <1>5, <2>1, <2>2, <2>3, <2>4 DEF PassInv, TargetInv
<1> QED
  BY <1>6, <1>7, <1>8 DEF GapInv

LEMMA FindTransactionsKeeps == ASSUME GapInv, NEW h, FindTransactions(h) PROVE GapInv'
<1>1. /\ UNCHANGED <<chain, reorgs, incident, node, parsed, db, announced, pass, heads, origin, disturbed, causes>>
      /\ pass.pc = "load"
  BY DEF FindTransactions, chainVars, history
<1>2. Types'
  BY <1>1 DEF GapInv, Types
<1> QED
  BY <1>1, <1>2 DEF GapInv, RowInv, HeadsInv, PassInv, TargetInv, Clean

\* A block and its predecessor are read together.
LEMMA GetBlockKeeps == ASSUME GapInv, NEW h, GetBlock(h) PROVE GapInv'
<1>1. /\ UNCHANGED <<chain, reorgs, incident, node, parsed, db, announced, pass, txs, origin, disturbed, causes>>
      /\ pass.pc = "load" /\ h \in DOMAIN chain
  BY DEF GetBlock, chainVars, history
<1>2. /\ DOMAIN heads' = DOMAIN heads \cup {h}
      /\ heads'[h] = [hash |-> At(chain, h), prev |-> At(chain, h - 1)]
      /\ \A k \in DOMAIN heads : k # h => heads'[k] = heads[k]
  BY DEF GetBlock, With, Block, At
<1>3. /\ chain \in Seq(Nat) /\ h \in 1..Len(chain) /\ chain[h] \in Nat /\ chain[h] =< reorgs /\ reorgs \in Nat
      /\ \A k \in 1..Len(chain) : chain[k] \in Nat
  <2>1. chain \in Seq(Nat) /\ reorgs \in Nat /\ chain[h] =< reorgs
    BY <1>1 DEF GapInv, Types
  <2> QED
    BY <1>1, <2>1
<1>4. At(chain, h) = <<h, chain[h]>> /\ IsBlock(chain, reorgs, At(chain, h), h)
  BY <1>3 DEF At, IsBlock
<1>5. h > 1 => At(chain, h - 1) = <<h - 1, chain[h - 1]>> /\ chain[h - 1] \in Nat
  BY <1>3 DEF At
<1>6. HeadsInv'
  <2>1. heads'[h].hash = At(chain, h) /\ heads'[h].prev = At(chain, h - 1) /\ h \in Nat \ {0}
    BY <1>2, <1>3
  <2> QED
    BY <1>1, <1>2, <1>4, <1>5, <2>1 DEF GapInv, HeadsInv, Clean
<1>7. Types'
  BY <1>1 DEF GapInv, Types
<1> QED
  BY <1>1, <1>6, <1>7 DEF GapInv, RowInv, PassInv, TargetInv, Clean

LEMMA ValidationFailsKeeps == GapInv /\ ValidationFails => GapInv'
<1> SUFFICES ASSUME GapInv, ValidationFails PROVE GapInv'
  OBVIOUS
<1>1. /\ UNCHANGED <<chain, reorgs, incident, node, parsed, db, announced, txs, heads, origin, disturbed, causes>>
      /\ pass.pc = "load" /\ pass.exists /\ pass' = [pass EXCEPT !.pc = "rollback"]
  BY DEF ValidationFails, chainVars, history
<1>2. /\ pass'.pc = "rollback" /\ pass'.exists = pass.exists /\ pass'.from = pass.from /\ pass'.to = pass.to
      /\ pass'.upto = pass.upto /\ pass' = [pc |-> pass'.pc, exists |-> pass'.exists, known |-> pass'.known,
                                            from |-> pass'.from, to |-> pass'.to, upto |-> pass'.upto]
  BY <1>1 DEF GapInv, Types
<1>3. Types'
  BY <1>1, <1>2 DEF GapInv, Types
<1> QED
  BY <1>1, <1>2, <1>3 DEF GapInv, RowInv, HeadsInv, PassInv, TargetInv, Clean

\* validateChain compares every block with the one before it, and the first with the row.
LEMMA ValidatedKeeps == GapInv /\ Validated => GapInv'
<1> SUFFICES ASSUME GapInv, Validated PROVE GapInv'
  OBVIOUS
<1>1. /\ UNCHANGED <<chain, reorgs, incident, node, parsed, db, announced, txs, heads, origin, disturbed>>
      /\ pass.pc = "load" /\ (pass.exists => validateChain) /\ pass' = [pass EXCEPT !.pc = "commit"]
      /\ DOMAIN heads = pass.from..pass.to
  BY DEF Validated, chainVars, Batch
<1>2. /\ pass'.pc = "commit" /\ pass'.exists = pass.exists /\ pass'.from = pass.from /\ pass'.to = pass.to
      /\ pass'.upto = pass.upto /\ pass' = [pc |-> pass'.pc, exists |-> pass'.exists, known |-> pass'.known,
                                            from |-> pass'.from, to |-> pass'.to, upto |-> pass'.upto]
  BY <1>1 DEF GapInv, Types
<1>3. Types'
  BY <1>1, <1>2 DEF GapInv, Types
<1>4. Clean' => /\ Clean
                /\ \A h \in pass.from..pass.to : txs[h] = heads[h].hash
                /\ ~(pass.exists /\ pass.known = Unknown /\ heads[pass.from].prev # db.hash)
  BY DEF Validated, Clean, Batch
<1>5. /\ pass.from \in Nat /\ pass.to \in Nat /\ pass.from >= 1 /\ pass.from =< pass.to /\ pass.to =< pass.upto
      /\ IF pass.exists THEN pass.from >= 2 ELSE pass.from = pass.to
      /\ pass.exists => db # NoRow /\ pass.known \in {db.hash, Unknown}
  BY <1>1 DEF GapInv, Types, PassInv
<1>6. \A h \in pass.from..pass.to : /\ heads[h].hash # Unknown
                                    /\ h > 1 => heads[h].prev # Unknown
  <2>1. ASSUME NEW h \in pass.from..pass.to PROVE heads[h].hash # Unknown
    <3>1. IsBlock(chain, reorgs, heads[h].hash, h)
      BY <1>1 DEF GapInv, HeadsInv
    <3> QED
      BY <3>1, BlockHasHash
  <2>2. ASSUME NEW h \in pass.from..pass.to, h > 1 PROVE heads[h].prev # Unknown
    <3>1. PICK b \in Nat : heads[h].prev = <<h - 1, b>>
      BY <1>1, <2>2 DEF GapInv, HeadsInv
    <3> QED
      BY <3>1, Hashes
  <2> QED
    BY <2>1, <2>2
<1>7. ASSUME Clean', pass.exists PROVE heads[pass.from].prev = db.hash
  <2>1. pass.from \in pass.from..pass.to
    BY <1>5
  <2>2. \/ heads[pass.from].prev = Unknown \/ pass.known = Unknown
        \/ heads[pass.from].prev = pass.known
    BY <1>1, <1>7, <2>1 DEF validateChain, Batch, Expected
  <2>3. heads[pass.from].prev # Unknown
    BY <1>5, <1>6, <1>7, <2>1
  <2> QED
    BY <1>4, <1>5, <1>7, <2>2, <2>3
<1>8. ASSUME NEW h \in (pass.from + 1)..pass.to PROVE heads[h].prev = heads[h - 1].hash
  <2>1. pass.exists /\ h \in pass.from..pass.to /\ h - 1 \in pass.from..pass.to /\ h # pass.from /\ h > 1
    BY <1>5
  <2>2. heads[h].prev = Unknown \/ heads[h - 1].hash = Unknown \/ heads[h].prev = heads[h - 1].hash
    BY <1>1, <2>1 DEF validateChain, Batch, Expected
  <2> QED
    BY <1>6, <2>1, <2>2
<1>9. PassInv'
  BY <1>1, <1>2, <1>4, <1>5, <1>7, <1>8 DEF GapInv, PassInv
<1>10. RowInv' /\ HeadsInv' /\ TargetInv'
  BY <1>1, <1>2, <1>4 DEF GapInv, RowInv, HeadsInv, TargetInv
<1> QED
  BY <1>3, <1>9, <1>10 DEF GapInv

\* A block is committed, and the loops go on.
LEMMA CommitKeeps == GapInv /\ commitBlockResult => GapInv'
<1> SUFFICES ASSUME GapInv, commitBlockResult PROVE GapInv'
  OBVIOUS
<1>1. /\ pass.pc = "commit" /\ Store /\ GoOn /\ parsed' = pass.from
      /\ UNCHANGED <<chain, reorgs, incident, node, disturbed, causes>>
  BY DEF commitBlockResult, chainVars
<1>2. /\ RowInv' /\ Unknown \notin announced' /\ origin' \in Nat
      /\ db' = [number |-> pass.from, hash |-> heads[pass.from].hash] /\ db' # NoRow
  BY <1>1, StoreKeeps DEF Clean
<1>3. /\ pass.from \in Nat /\ pass.to \in Nat /\ pass.upto \in Nat
      /\ pass.from >= 1 /\ pass.from =< pass.to /\ pass.to =< pass.upto
      /\ pass.from..pass.to \subseteq DOMAIN heads
  BY <1>1 DEF GapInv, Types, PassInv
<1>4. db'.hash = heads[pass.from].hash
  BY <1>2
<1>5. ASSUME pass'.pc \in {"idle", "load", "commit"}, pass'.exists \in BOOLEAN,
             pass'.from \in Nat, pass'.to \in Nat, pass'.upto \in Nat,
             pass' = [pc |-> pass'.pc, exists |-> pass'.exists, known |-> pass'.known,
                      from |-> pass'.from, to |-> pass'.to, upto |-> pass'.upto]
      PROVE  Types' /\ TargetInv'
  BY <1>1, <1>2, <1>3, <1>5 DEF GapInv, Types, TargetInv
<1>6. CASE pass.from < pass.to /\ pass' = [pass EXCEPT !.from = @ + 1, !.exists = TRUE] /\ UNCHANGED <<txs, heads>>
  <2>1. /\ pass'.pc = "commit" /\ pass'.exists = TRUE /\ pass'.from = pass.from + 1 /\ pass'.to = pass.to
        /\ pass'.upto = pass.upto
        /\ pass' = [pc |-> pass'.pc, exists |-> pass'.exists, known |-> pass'.known,
                    from |-> pass'.from, to |-> pass'.to, upto |-> pass'.upto]
    BY <1>1, <1>6 DEF GapInv, Types
  <2>2. Types' /\ TargetInv'
    <3>1. pass'.exists \in BOOLEAN
      BY <2>1, Zenon
    <3>2. pass'.from \in Nat /\ pass'.to \in Nat /\ pass'.upto \in Nat
      BY <1>3, <2>1
    <3> QED
      BY <1>5, <2>1, <3>1, <3>2
  <2>3. HeadsInv'
    BY <1>1, <1>6 DEF GapInv, HeadsInv, Clean
  <2>4. ASSUME Clean
        PROVE  /\ \A h \in (pass.from + 1)..pass.to : txs[h] = heads[h].hash
               /\ heads[pass.from + 1].prev = heads[pass.from].hash
               /\ \A h \in (pass.from + 2)..pass.to : heads[h].prev = heads[h - 1].hash
    <3>1. /\ \A h \in pass.from..pass.to : txs[h] = heads[h].hash
          /\ \A h \in (pass.from + 1)..pass.to : heads[h].prev = heads[h - 1].hash
      BY <1>1, <2>4 DEF GapInv, PassInv
    <3>2. pass.from + 1 \in (pass.from + 1)..pass.to /\ (pass.from + 1) - 1 = pass.from
      BY <1>3, <1>6
    <3>3. heads[pass.from + 1].prev = heads[pass.from].hash
      BY <3>1, <3>2
    <3> QED
      BY <1>3, <3>1, <3>3
  <2>5. (pass.from + 1)..pass.to \subseteq DOMAIN heads /\ (pass.from + 1) + 1 = pass.from + 2
    BY <1>3
  <2>6. PassInv'
    BY <1>1, <1>2, <1>3, <1>4, <1>6, <2>1, <2>4, <2>5 DEF PassInv, Clean
  <2> QED
    BY <1>2, <2>2, <2>3, <2>6 DEF GapInv
<1>7. CASE /\ pass.from = pass.to /\ pass.to < pass.upto
           /\ pass' = [pass EXCEPT !.pc = "load", !.exists = TRUE, !.known = heads[pass.to].hash,
                                   !.from = pass.to + 1, !.to = BatchEnd(pass.to + 1, pass.upto)]
           /\ txs' = Nothing /\ heads' = Nothing
  <2>1. /\ pass'.pc = "load" /\ pass'.exists = TRUE /\ pass'.from = pass.to + 1
        /\ pass'.to = BatchEnd(pass.to + 1, pass.upto) /\ pass'.upto = pass.upto
        /\ pass'.known = heads[pass.to].hash
        /\ pass' = [pc |-> pass'.pc, exists |-> pass'.exists, known |-> pass'.known,
                    from |-> pass'.from, to |-> pass'.to, upto |-> pass'.upto]
    BY <1>7 DEF GapInv, Types
  <2>2. /\ BatchEnd(pass.to + 1, pass.upto) \in Nat /\ pass.to + 1 =< BatchEnd(pass.to + 1, pass.upto)
        /\ BatchEnd(pass.to + 1, pass.upto) =< pass.upto
    <3>1. pass.to + 1 \in Nat /\ pass.to + 1 =< pass.upto
      BY <1>3, <1>7
    <3> QED
      BY <1>3, <3>1, BatchEnds
  <2>3. Types' /\ TargetInv'
    <3>1. pass'.exists \in BOOLEAN
      BY <2>1, Zenon
    <3>2. pass'.from \in Nat /\ pass'.to \in Nat /\ pass'.upto \in Nat
      BY <1>3, <2>1, <2>2
    <3> QED
      BY <1>5, <2>1, <3>1, <3>2
  <2>4. HeadsInv'
    BY <1>7, Empty DEF HeadsInv
  <2>5. PassInv'
    BY <1>1, <1>2, <1>3, <1>4, <1>7, <2>1, <2>2 DEF PassInv
  <2> QED
    BY <1>2, <2>3, <2>4, <2>5 DEF GapInv
<1>8. CASE Ends
  <2>1. pass' = NoPass /\ heads' = Nothing /\ DOMAIN Nothing = {}
    BY <1>8, Empty DEF Ends
  <2>2. Types' /\ TargetInv'
    BY <1>5, <2>1 DEF NoPass
  <2>3. HeadsInv' /\ PassInv'
    BY <1>2, <2>1 DEF HeadsInv, PassInv, NoPass
  <2> QED
    BY <1>2, <2>2, <2>3 DEF GapInv
<1> QED
  BY <1>1, <1>6, <1>7, <1>8 DEF GoOn

\* A commit fails, or its answer is lost and the position in memory is behind the row.
LEMMA CommitFailsKeeps == GapInv /\ commitFails => GapInv'
<1> SUFFICES ASSUME GapInv, commitFails PROVE GapInv'
  OBVIOUS
<1>1. pass.pc = "commit" /\ Ends /\ UNCHANGED <<chain, reorgs, incident, node, parsed>>
  BY DEF commitFails, chainVars
<1>2. CASE UNCHANGED <<db, announced, history>>
  <2>1. UNCHANGED <<chain, reorgs, incident, db, announced, origin, disturbed, causes>>
    BY <1>1, <1>2 DEF history
  <2>2. parsed' \in {parsed, db.number} /\ node' \in Nat
    BY <1>1 DEF GapInv, Types
  <2> QED
    BY <1>1, <2>1, <2>2, EndsKeeps
<1>3. CASE Store /\ causes' = causes \cup {"answer"} /\ UNCHANGED disturbed
  <2>1. Clean' => Clean
    BY <1>3 DEF Clean
  <2>2. RowInv' /\ Unknown \notin announced' /\ origin' \in Nat /\ db' # NoRow
    BY <1>1, <1>3, <2>1, StoreKeeps
  <2>3. pass' = NoPass /\ heads' = Nothing /\ DOMAIN Nothing = {}
    BY <1>1, Empty DEF Ends
  <2>4. Types'
    BY <1>1, <1>3, <2>2, <2>3 DEF GapInv, Types, NoPass
  <2>5. HeadsInv' /\ PassInv' /\ TargetInv'
    BY <2>2, <2>3 DEF HeadsInv, PassInv, TargetInv, NoPass
  <2> QED
    BY <2>2, <2>4, <2>5 DEF GapInv
<1> QED
  BY <1>2, <1>3 DEF commitFails

\* The last incident tells how far to go back.
LEMMA GetRollbackKeeps == GapInv /\ GetRollbackStartingBlock => GapInv'
<1> SUFFICES ASSUME GapInv, GetRollbackStartingBlock PROVE GapInv'
  OBVIOUS
<1>1. /\ UNCHANGED <<chain, reorgs, incident, node, parsed, db, announced, origin, disturbed, causes>>
      /\ pass.pc = "rollback"
  BY DEF GetRollbackStartingBlock, chainVars, history
<1>2. CASE Ends
  <2>1. parsed' \in {parsed, db.number} /\ node' \in Nat
    BY <1>1 DEF GapInv, Types
  <2> QED
    BY <1>1, <1>2, <2>1, EndsKeeps
<1>3. CASE incident # 0 /\ pass' = [NoPass EXCEPT !.pc = "revert", !.to = RollbackTarget] /\ heads' = Nothing
  <2>1. /\ pass'.pc = "revert" /\ pass'.to = incident - 1 /\ incident - 1 \in Nat /\ ~pass'.exists
        /\ pass'.exists \in BOOLEAN /\ pass'.from \in Nat /\ pass'.upto \in Nat
        /\ pass' = [pc |-> pass'.pc, exists |-> pass'.exists, known |-> pass'.known,
                    from |-> pass'.from, to |-> pass'.to, upto |-> pass'.upto]
    <3>1. incident \in Nat
      BY DEF GapInv, Types
    <3>2. incident - 1 \in Nat
      BY <1>3, <3>1
    <3>3. NoPass = [pc |-> NoPass.pc, exists |-> NoPass.exists, known |-> NoPass.known,
                    from |-> NoPass.from, to |-> NoPass.to, upto |-> NoPass.upto]
      BY DEF NoPass
    <3>4. NoPass.from = 0 /\ NoPass.upto = 0 /\ NoPass.exists = FALSE
      BY DEF NoPass
    <3>5. /\ pass' = [pc |-> pass'.pc, exists |-> pass'.exists, known |-> pass'.known,
                      from |-> pass'.from, to |-> pass'.to, upto |-> pass'.upto]
          /\ pass'.pc = "revert" /\ pass'.to = incident - 1 /\ pass'.from = NoPass.from
          /\ pass'.upto = NoPass.upto /\ pass'.exists = NoPass.exists
      BY <1>3, <3>3 DEF RollbackTarget
    <3>6. pass'.exists \in BOOLEAN /\ ~pass'.exists
      BY <3>4, <3>5, Zenon
    <3> QED
      BY <3>2, <3>4, <3>5, <3>6
  <2>2. Types'
    BY <1>1, <2>1 DEF GapInv, Types
  <2>3. RowInv' /\ HeadsInv'
    BY <1>1, <1>3, Empty DEF GapInv, RowInv, HeadsInv, Clean
  <2>4. db # NoRow /\ PassInv'
    BY <1>1, <1>3, <2>1, Empty DEF GapInv, PassInv
  <2>5. ASSUME Clean, NEW h \in origin..db.number, h =< incident - 1 PROVE At(chain, h) \in announced
    <3>1. h < incident
      BY <2>5 DEF GapInv, Types
    <3> QED
      BY <2>4, <2>5, <3>1 DEF GapInv, RowInv
  <2>6. TargetInv'
    BY <1>1, <2>1, <2>5 DEF TargetInv, Clean
  <2> QED
    BY <2>2, <2>3, <2>4, <2>6 DEF GapInv
<1> QED
  BY <1>2, <1>3 DEF GetRollbackStartingBlock

\* The scanner goes back, unless the incident lies ahead of the row, to a block below
\* which everything is announced.
LEMMA RollbackKeeps == GapInv /\ handleRollback => GapInv'
<1> SUFFICES ASSUME GapInv, handleRollback PROVE GapInv'
  OBVIOUS
<1>1. /\ UNCHANGED <<chain, reorgs, incident, node, announced, origin>>
      /\ pass.pc = "revert" /\ pass.to \in DOMAIN chain /\ parsed' = pass.to
      /\ causes' = (IF pass.to > db.number THEN causes \cup {"forward"} ELSE causes)
      /\ pass' = NoPass /\ heads' = Nothing /\ DOMAIN Nothing = {}
  BY Empty DEF handleRollback, chainVars, Ends
<1>2. Clean' => Clean /\ ~(pass.to > db.number)
  BY <1>1 DEF Clean
<1>3. db # NoRow /\ origin >= 1 /\ db.number \in Nat /\ origin \in Nat
  BY <1>1 DEF GapInv, PassInv, RowInv, Types
<1>4. /\ pass.to \in Nat \ {0} /\ At(chain, pass.to) = <<pass.to, chain[pass.to]>>
      /\ chain[pass.to] \in 0..reorgs
  <2>1. chain \in Seq(Nat) /\ reorgs \in Nat /\ chain[pass.to] =< reorgs
    BY <1>1 DEF GapInv, Types
  <2> QED
    BY <1>1, <2>1 DEF At
<1>5. RowInv' /\ db' # NoRow /\ disturbed' \in BOOLEAN
  <2>1. CASE db' = db /\ disturbed' = disturbed
    BY <1>1, <1>2, <1>3, <2>1 DEF GapInv, RowInv, Types
  <2>2. CASE db' = [number |-> pass.to, hash |-> Block(pass.to)] /\ disturbed' = FALSE
    <3>1. db'.number = pass.to /\ db'.hash = At(chain, pass.to)
      BY <2>2 DEF Block, At
    <3>2. db' # NoRow
      <4>1. NoRow.number = -1
        BY DEF NoRow
      <4> QED
        BY <1>4, <3>1, <4>1
    <3>3. IsBlock(chain, reorgs, At(chain, pass.to), pass.to)
      BY <1>4 DEF IsBlock
    <3>4. ASSUME Clean', NEW h \in origin..pass.to PROVE At(chain, h) \in announced
      <4>1. h \in origin..db.number /\ h =< pass.to
        BY <1>2, <1>3, <1>4, <3>4
      <4> QED
        BY <1>1, <1>2, <3>4, <4>1 DEF GapInv, TargetInv
    <3>5. RowInv'
      BY <1>1, <1>3, <1>4, <2>2, <3>1, <3>3, <3>4 DEF RowInv
    <3> QED
      BY <2>2, <3>2, <3>5
  <2> QED
    BY <2>1, <2>2 DEF handleRollback
<1>6. Types'
  BY <1>1, <1>4, <1>5 DEF GapInv, Types, NoPass
<1>7. HeadsInv' /\ PassInv' /\ TargetInv'
  BY <1>1, <1>5 DEF HeadsInv, PassInv, TargetInv, NoPass
<1> QED
  BY <1>5, <1>6, <1>7 DEF GapInv

\* The invariant holds at first, when nothing is stored.
LEMMA InitGap == Init => GapInv
<1> SUFFICES ASSUME Init PROVE GapInv
  OBVIOUS
<1>1. /\ chain \in Seq(Nat) /\ Len(chain) = StartHeight /\ StartHeight \in Nat \ {0}
      /\ \A h \in DOMAIN chain : chain[h] =< 0
  BY BlockScannerAssumption DEF Init
<1>2. Types
  <2>1. pass = NoPass /\ reorgs = 0 /\ incident = 0 /\ node = 0 /\ parsed = -1 /\ origin = 0 /\ ~disturbed
    BY DEF Init
  <2>2. disturbed \in BOOLEAN /\ Unknown \notin announced
    BY DEF Init
  <2> QED
    BY <1>1, <2>1, <2>2 DEF Types, NoPass
<1>3. RowInv /\ HeadsInv
  BY Empty DEF Init, RowInv, HeadsInv, Clean
<1>4. PassInv /\ TargetInv
  BY Empty DEF Init, PassInv, TargetInv, NoPass
<1> QED
  BY <1>2, <1>3, <1>4 DEF GapInv

\* What commitBlockResult announces: through restarts, lost answers, failed calls and
\* reorganisations no block between the first and the last stored one is missed, but
\* for the four causes that the scanner does not see.
THEOREM NothingIsMissed == Spec => []NoGap
<1>1. GapInv /\ [Next]_vars => GapInv'
  <2> SUFFICES ASSUME GapInv, [Next]_vars PROVE GapInv'
    OBVIOUS
  <2>1. CASE LoadFails \/ revertFails
    <3>1. Ends /\ UNCHANGED <<chain, reorgs, incident, db, announced, origin, disturbed, causes, parsed, node>>
      BY <2>1 DEF LoadFails, revertFails, chainVars, history
    <3>2. node' \in Nat /\ parsed' \in {parsed, db.number}
      BY <3>1 DEF GapInv, Types
    <3> QED
      BY <3>1, <3>2, EndsKeeps
  <2>2. CASE Restart
    <3>1. /\ Ends /\ UNCHANGED <<chain, reorgs, incident, db, announced, origin, disturbed, causes>>
          /\ node' \in Nat /\ parsed' \in {parsed, db.number}
      BY <2>2 DEF Restart, chainVars, history
    <3> QED
      BY <3>1, EndsKeeps
  <2>3. CASE UNCHANGED vars
    <3>1. UNCHANGED <<chain, reorgs, incident, node, parsed, db, announced, pass, txs, heads, origin, disturbed, causes>>
      BY <2>3 DEF vars, chainVars, passVars, history
    <3>2. Types'
      BY <3>1 DEF GapInv, Types
    <3> QED
      BY <3>1, <3>2 DEF GapInv, RowInv, HeadsInv, PassInv, TargetInv, Clean
  <2> QED
    BY <2>1, <2>2, <2>3, NewBlockKeeps, ReorgKeeps, ReadTipKeeps, HandleBlocksKeeps, FindTransactionsKeeps,
       GetBlockKeeps, ValidationFailsKeeps, ValidatedKeeps, CommitKeeps, CommitFailsKeeps, GetRollbackKeeps,
       RollbackKeeps DEF Next, Scan
<1>2. GapInv => NoGap
  BY DEF GapInv, RowInv, NoGap, OnChain, Block, At, Clean
<1> QED
  BY InitGap, <1>1, <1>2, PTL DEF Spec
=============================================================================
