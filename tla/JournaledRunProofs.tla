------------------------- MODULE JournaledRunProofs -------------------------
(***************************************************************************)
(* Theorems about one run of ingest, for every number of files, pool size  *)
(* and batch size: first the pipeline alone (IngestPipeline), then the run *)
(* that keeps a journal and reports (JournaledRun, RunReport).             *)
(*                                                                         *)
(* The inductive invariant IInv of the pipeline is built from properties   *)
(* the runs check: TypeOK, Accounting and StagesAgree say where the futures*)
(* stand, and on them rest RowsConserved and MissingRowsBounded.           *)
(* Journaling does not disturb the pipeline, so what is proved of it holds *)
(* of the journaled run; a journal that is not open is true; the numbers   *)
(* of the journal, the committer and the writer agree; and the report of a *)
(* run is true of the catalog.                                             *)
(***************************************************************************)
EXTENDS JournaledRun, RunReport, RunJournalProofs

USE PipelineAssumption

-----------------------------------------------------------------------------
(* The JoinSet *)

(* Tasks in the pool are files already taken, so the pool is finite.        *)
LEMMA PoolIsFinite ==
    ASSUME TypeOK
    PROVE  IsFiniteSet(inSet) /\ Cardinality(inSet) \in Nat
  <1>1. IsFiniteSet(1 .. taken)
    BY FS_Interval DEF TypeOK, PoolOK
  <1>2. IsFiniteSet(inSet)
    BY <1>1, FS_Subset DEF TypeOK, PoolOK
  <1>. QED
    BY <1>2, FS_CardinalityType

(* Joining a task leaves a smaller pool.                                    *)
LEMMA PoolAfterJoin ==
    ASSUME TypeOK, NEW f \in inSet
    PROVE  /\ IsFiniteSet(inSet \ {f})
           /\ Cardinality(inSet \ {f}) \in Nat
           /\ Cardinality(inSet \ {f}) = Cardinality(inSet) - 1
  <1>1. IsFiniteSet(inSet) /\ Cardinality(inSet) \in Nat
    BY PoolIsFinite
  <1>2. /\ IsFiniteSet(inSet \ {f})
        /\ Cardinality(inSet \ {f}) = Cardinality(inSet) - 1
    BY <1>1, FS_RemoveElement
  <1>. QED
    BY <1>2, FS_CardinalityType

(* What the spawn loop does to the pool: it starts the next files in order, *)
(* never more than fit, and stops short of a full pool only when it ran out *)
(* of files or the run was stopped.                                         *)
LEMMA RefillKeepsPool ==
    ASSUME taken \in 0 .. NumFiles, stop \in BOOLEAN,
           NEW set \in SUBSET (1 .. taken), IsFiniteSet(set),
           Cardinality(set) \in Nat, Cardinality(set) <= Concurrency,
           Refill(set)
    PROVE  /\ taken' \in taken .. NumFiles
           /\ inSet' = set \cup (taken + 1 .. taken')
           /\ inSet' \subseteq 1 .. taken'
           /\ Cardinality(inSet') = Cardinality(set) + (taken' - taken)
           /\ Cardinality(inSet') <= Concurrency
           /\ ~stop => Cardinality(inSet') = Concurrency \/ taken' = NumFiles
           /\ stop => taken' = taken
           /\ ppc' = "join"
  <1>1. /\ Room(set) \in 0 .. NumFiles - taken
        /\ Cardinality(set) + Room(set) <= Concurrency
        /\ ~stop => \/ Cardinality(set) + Room(set) = Concurrency
                    \/ taken + Room(set) = NumFiles
        /\ stop => Room(set) = 0
    BY DEF Room, Least
  <1>2. taken' = taken + Room(set) /\ inSet' = set \cup (taken + 1 .. taken')
    BY DEF Refill
  <1> DEFINE new == taken + 1 .. taken'
  <1>3. taken' \in taken .. NumFiles
    BY <1>1, <1>2
  <1>4. IsFiniteSet(new) /\ Cardinality(new) = taken' - taken
    <2>1. taken + 1 \in Int /\ taken' \in Int
      BY <1>3
    <2>2. /\ IsFiniteSet(new)
          /\ Cardinality(new) = IF taken + 1 > taken' THEN 0 ELSE taken' - (taken + 1) + 1
      BY <2>1, FS_Interval
    <2>. QED
      BY <1>3, <2>2
  <1>5. set \cap new = {}
    BY <1>3
  <1>6. Cardinality(set \cap new) = 0
    BY <1>5, FS_EmptySet
  <1>7. Cardinality(set \cup new) = Cardinality(set) + Cardinality(new) - Cardinality(set \cap new)
    BY <1>4, FS_Union
  <1>8. Cardinality(inSet') = Cardinality(set) + (taken' - taken)
    BY <1>2, <1>3, <1>4, <1>6, <1>7
  <1>9. inSet' \subseteq 1 .. taken'
    <2>. SUFFICES ASSUME NEW x \in inSet' PROVE x \in 1 .. taken'
      OBVIOUS
    <2>1. CASE x \in set
      BY <1>3, <2>1
    <2>2. CASE x \in taken + 1 .. taken'
      BY <1>3, <2>2
    <2>. QED
      BY <1>2, <2>1, <2>2
  <1>10. ppc' = "join"
    BY DEF Refill
  <1>11. /\ Cardinality(inSet') <= Concurrency
         /\ ~stop => Cardinality(inSet') = Concurrency \/ taken' = NumFiles
         /\ stop => taken' = taken
    <2>. DEFINE room == Room(set)
    <2>1. taken' = taken + room /\ Cardinality(inSet') = Cardinality(set) + room
      BY <1>1, <1>2, <1>8
    <2>2. CASE stop
      BY <1>1, <2>1, <2>2
    <2>3. CASE ~stop
      BY <1>1, <2>1, <2>3
    <2>. QED
      BY <2>2, <2>3
  <1>. QED
    BY <1>2, <1>3, <1>8, <1>9, <1>10, <1>11

-----------------------------------------------------------------------------
(* Type correctness and the position of the stages *)

CInv == TypeOK /\ StagesAgree

(* The initial state has the shape, and the two stages agree.               *)
LEMMA InitCInv == ASSUME Init PROVE CInv
  <1>1. Cardinality({}) = 0
    BY FS_EmptySet
  <1>2. \A f \in Files : NoResult \in Results \cup {NoResult}
    OBVIOUS
  <1>3. PoolOK
    BY <1>1, <1>2 DEF Init, PoolOK
  <1>4. StageOK /\ CountersOK
    BY DEF Init, StageOK, CountersOK
  <1>5. RowsOK
    <2>1. <<>> \in Seq(Files) /\ Len(<<>>) <= BatchSize /\ Len(<<>>) < BatchSize
      BY EmptySeq
    <2>. QED
      BY <2>1 DEF Init, RowsOK
  <1>6. StagesAgree
    BY DEF Init, StagesAgree, NoRow
  <1>. QED
    BY <1>3, <1>4, <1>5, <1>6 DEF CInv, TypeOK

(* The pool after a join, as RefillKeepsPool wants it.                      *)
LEMMA JoinLeavesRoom ==
    ASSUME TypeOK, NEW f \in inSet
    PROVE  /\ inSet \ {f} \in SUBSET (1 .. taken)
           /\ Cardinality(inSet \ {f}) <= Concurrency
  BY PoolAfterJoin, PoolIsFinite DEF TypeOK, PoolOK

Counts  == [observed : Nat, unchanged : Nat, uploaded : Nat,
            already_exists : Nat, errors : Nat, skipped : Nat]
Commits == [committed : Nat, batches_committed : Nat, batches_failed : Nat]

(* Folding an outcome into the counts yields counts.                        *)
LEMMA TallyType == ASSUME counts \in Counts, NEW r PROVE Tally(r) \in Counts
  <1>. DEFINE a == One(r.kind = "observed")
              b == One(r.kind = "unchanged")
              c == One(r.blob = "uploaded")
              d == One(r.blob = "existing")
              e == One(r.kind \in {"error", "panic"})
  <1>1. a \in Nat /\ b \in Nat /\ c \in Nat /\ d \in Nat /\ e \in Nat
    BY DEF One
  <1>2. Tally(r) = [observed |-> counts.observed + a, unchanged |-> counts.unchanged + b,
                    uploaded |-> counts.uploaded + c, already_exists |-> counts.already_exists + d,
                    errors |-> counts.errors + e, skipped |-> counts.skipped]
    BY DEF Tally
  <1>. HIDE DEF a, b, c, d, e
  <1>. QED
    BY <1>1, <1>2 DEF Counts

(* Every action preserves the types and the agreement of the stages.        *)
LEMMA NextCInv == ASSUME CInv, [Next]_vars PROVE CInv'
  <1>. USE DEF CInv, TypeOK
  <1>1. CASE ProducerStart
    <2>1. IsFiniteSet(inSet) /\ Cardinality(inSet) \in Nat
      BY PoolIsFinite
    <2>2. Refill(inSet)
      BY <1>1 DEF ProducerStart
    <2>3. /\ taken' \in taken .. NumFiles
          /\ inSet' = inSet \cup (taken + 1 .. taken')
          /\ inSet' \subseteq 1 .. taken'
          /\ Cardinality(inSet') <= Concurrency
          /\ ~stop => Cardinality(inSet') = Concurrency \/ taken' = NumFiles
          /\ ppc' = "join"
      BY <2>1, <2>2, RefillKeepsPool DEF PoolOK, StageOK
    <2>4. PoolOK'
      BY <1>1, <2>3 DEF ProducerStart, PoolOK
    <2>5. StageOK' /\ CountersOK'
      BY <1>1, <2>3 DEF ProducerStart, StageOK, CountersOK, writer
    <2>6. RowsOK'
      BY <1>1, <2>3 DEF ProducerStart, RowsOK, writer
    <2>7. StagesAgree'
      BY <1>1, <2>3 DEF ProducerStart, StagesAgree, writer
    <2>. QED
      BY <2>4, <2>5, <2>6, <2>7
  <1>2. ASSUME NEW f \in Files, WorkerReturns(f) PROVE CInv'
    <2>1. PoolOK'
      BY <1>2 DEF WorkerReturns, PoolOK
    <2>2. StageOK' /\ RowsOK' /\ CountersOK' /\ StagesAgree'
      BY <1>2 DEF WorkerReturns, StageOK, RowsOK, CountersOK, StagesAgree, producer, writer
    <2>. QED
      BY <2>1, <2>2
  <1>3. ASSUME NEW f \in Files, JoinRow(f) PROVE CInv'
    <2>. f \in inSet
      BY <1>3 DEF JoinRow
    <2>1. StageOK' /\ RowsOK' /\ CountersOK'
      <3>1. CountersOK'
        BY <1>3, TallyType DEF JoinRow, CountersOK, Counts, writer
      <3>2. StageOK'
        BY <1>3 DEF JoinRow, Refill, StageOK, writer
      <3>3. RowsOK'
        BY <1>3, AppendProperties DEF JoinRow, Refill, RowsOK, writer, Files, NoRow
      <3>. QED
        BY <3>1, <3>2, <3>3
    <2>2. CASE HasCommitter
      <3>1. PoolOK'
        BY <1>3, <2>2, JoinLeavesRoom DEF JoinRow, PoolOK
      <3>2. StagesAgree'
        BY <1>3, <2>2 DEF JoinRow, StagesAgree, writer
      <3>. QED
        BY <2>1, <3>1, <3>2
    <2>3. CASE ~HasCommitter
      <3>1. Refill(inSet \ {f})
        BY <1>3, <2>3 DEF JoinRow
      <3>2. /\ taken' \in taken .. NumFiles
            /\ inSet' = (inSet \ {f}) \cup (taken + 1 .. taken')
            /\ inSet' \subseteq 1 .. taken'
            /\ Cardinality(inSet') <= Concurrency
            /\ ~stop => Cardinality(inSet') = Concurrency \/ taken' = NumFiles
            /\ ppc' = "join"
        BY <3>1, PoolAfterJoin, JoinLeavesRoom, RefillKeepsPool DEF PoolOK, StageOK
      <3>3. PoolOK'
        BY <1>3, <3>2 DEF JoinRow, PoolOK
      <3>4. StagesAgree'
        BY <1>3, <2>3, <3>2 DEF JoinRow, StagesAgree, writer
      <3>. QED
        BY <2>1, <3>3, <3>4
    <2>. QED
      BY <2>2, <2>3
  <1>4. ASSUME NEW f \in Files, JoinNoRow(f) PROVE CInv'
    <2>. f \in inSet
      BY <1>4 DEF JoinNoRow
    <2>1. Refill(inSet \ {f})
      BY <1>4 DEF JoinNoRow
    <2>2. /\ taken' \in taken .. NumFiles
          /\ inSet' = (inSet \ {f}) \cup (taken + 1 .. taken')
          /\ inSet' \subseteq 1 .. taken'
          /\ Cardinality(inSet') <= Concurrency
          /\ ~stop => Cardinality(inSet') = Concurrency \/ taken' = NumFiles
          /\ ppc' = "join"
      BY <2>1, PoolAfterJoin, JoinLeavesRoom, RefillKeepsPool DEF PoolOK, StageOK
    <2>3. PoolOK'
      BY <1>4, <2>2 DEF JoinNoRow, PoolOK
    <2>4. StageOK' /\ RowsOK'
      BY <1>4, <2>2 DEF JoinNoRow, StageOK, RowsOK, writer
    <2>5. CountersOK'
      BY <1>4, TallyType DEF JoinNoRow, CountersOK, Counts, writer
    <2>6. StagesAgree'
      BY <1>4, <2>2 DEF JoinNoRow, StagesAgree, writer
    <2>. QED
      BY <2>3, <2>4, <2>5, <2>6
  <1>5. CASE SendRow \/ SendFails
    <2>1. IsFiniteSet(inSet) /\ Cardinality(inSet) \in Nat
      BY PoolIsFinite
    <2>2. Refill(inSet)
      BY <1>5 DEF SendRow, SendFails
    <2>3. /\ taken' \in taken .. NumFiles
          /\ inSet' = inSet \cup (taken + 1 .. taken')
          /\ inSet' \subseteq 1 .. taken'
          /\ Cardinality(inSet') <= Concurrency
          /\ ~stop => Cardinality(inSet') = Concurrency \/ taken' = NumFiles
          /\ ppc' = "join"
      BY <2>1, <2>2, RefillKeepsPool DEF PoolOK, StageOK
    <2>4. PoolOK'
      BY <1>5, <2>3 DEF SendRow, SendFails, PoolOK
    <2>5. StageOK' /\ CountersOK'
      BY <1>5, <2>3 DEF SendRow, SendFails, StageOK, CountersOK, writer
    <2>6. RowsOK'
      <3>1. hand \in Files
        BY <1>5 DEF SendRow, SendFails, RowsOK
      <3>2. CASE SendRow
        <4>1. channel' \in Seq(Files) /\ Len(channel') <= BatchSize
          BY <3>1, <3>2, AppendProperties DEF SendRow, ChannelHasRoom, RowsOK
        <4>. QED
          BY <2>3, <3>2, <4>1 DEF SendRow, RowsOK, writer
      <3>3. CASE SendFails
        BY <2>3, <3>3 DEF SendFails, RowsOK, writer
      <3>. QED
        BY <1>5, <3>2, <3>3
    <2>7. StagesAgree'
      <3>1. CASE SendRow
        BY <2>3, <3>1 DEF SendRow, StagesAgree, StageOK, writer
      <3>2. CASE SendFails
        BY <2>3, <3>2 DEF SendFails, StagesAgree, writer
      <3>. QED
        BY <1>5, <3>1, <3>2
    <2>. QED
      BY <2>4, <2>5, <2>6, <2>7
  <1>6. CASE ProducerDone
    <2>1. PoolOK' /\ StageOK' /\ RowsOK'
      BY <1>6 DEF ProducerDone, PoolOK, StageOK, RowsOK, pool, writer
    <2>2. CountersOK'
      BY <1>6 DEF ProducerDone, Skipped, CountersOK, PoolOK, writer
    <2>3. Cardinality(inSet) = 0
      BY <1>6, FS_EmptySet DEF ProducerDone
    <2>4. StagesAgree'
      BY <1>6, <2>3 DEF ProducerDone, StagesAgree, pool, writer
    <2>. QED
      BY <2>1, <2>2, <2>4
  <1>7. CASE RecvRow
    <2>. DEFINE rows == Append(batch, Head(channel))
    <2>1. /\ Head(channel) \in Files
          /\ Tail(channel) \in Seq(Files) /\ Len(Tail(channel)) = Len(channel) - 1
      BY <1>7, HeadTailProperties DEF RecvRow, RowsOK
    <2>2. rows \in Seq(Files) /\ rows # <<>> /\ Len(rows) = Len(batch) + 1
      <3>1. batch \in Seq(Files)
        BY DEF RowsOK
      <3>. QED
        BY ONLY <2>1, <3>1, AppendProperties
    <2>3. \/ /\ Len(rows) >= BatchSize
             /\ wpc' = "commit" /\ writing' = rows /\ batch' = <<>>
          \/ /\ Len(rows) < BatchSize
             /\ wpc' = "recv" /\ writing' = writing /\ batch' = rows
      BY <1>7, <2>2 DEF RecvRow, BatchIsFull, RowsOK
    <2>4. PoolOK' /\ StageOK' /\ CountersOK'
      BY <1>7, <2>3 DEF RecvRow, PoolOK, StageOK, CountersOK, pool, producer
    <2>5. RowsOK'
      <3>1. Len(batch) \in Nat /\ Len(channel) \in Nat
        BY LenProperties DEF RowsOK
      <3>2. <<>> \in Seq(Files) /\ Len(<<>>) = 0
        BY EmptySeq
      <3>3. channel' = Tail(channel) /\ hand' = hand /\ ppc' = ppc
            /\ produced' = produced /\ catalog' = catalog
        BY <1>7 DEF RecvRow, producer
      <3>. HIDE DEF rows
      <3>4. /\ writing' \in Seq(Files) /\ Len(writing') <= BatchSize
            /\ batch' \in Seq(Files) /\ Len(batch') < BatchSize
        <4>1. CASE Len(rows) >= BatchSize /\ writing' = rows /\ batch' = <<>>
          BY <2>2, <3>1, <3>2, <4>1 DEF RowsOK
        <4>2. CASE Len(rows) < BatchSize /\ writing' = writing /\ batch' = rows
          BY <2>2, <4>2 DEF RowsOK
        <4>. QED
          BY <2>3, <4>1, <4>2
      <3>. QED
        BY <2>1, <3>1, <3>3, <3>4 DEF RowsOK
    <2>6. StagesAgree'
      BY <1>7, <2>2, <2>3 DEF RecvRow, StagesAgree, pool, producer
    <2>. QED
      BY <2>4, <2>5, <2>6
  <1>8. CASE RecvClosed
    <2>1. PoolOK' /\ StageOK' /\ CountersOK'
      BY <1>8 DEF RecvClosed, PoolOK, StageOK, CountersOK, pool, producer
    <2>2. RowsOK'
      <3>1. Len(batch) \in Nat /\ <<>> \in Seq(Files) /\ Len(<<>>) = 0
        BY LenProperties, EmptySeq DEF RowsOK
      <3>2. /\ writing' \in Seq(Files) /\ Len(writing') <= BatchSize
            /\ batch' \in Seq(Files) /\ Len(batch') < BatchSize
        <4>1. CASE batch # <<>>
          BY <1>8, <3>1, <4>1 DEF RecvClosed, RowsOK
        <4>2. CASE batch = <<>>
          BY <1>8, <4>2 DEF RecvClosed, RowsOK
        <4>. QED
          BY <4>1, <4>2
      <3>. QED
        BY <1>8, <3>2 DEF RecvClosed, RowsOK, producer
    <2>3. StagesAgree'
      BY <1>8 DEF RecvClosed, StagesAgree, StageOK, pool, producer
    <2>. QED
      BY <2>1, <2>2, <2>3
  <1>9. CASE CommitOk
    <2>1. PoolOK' /\ StageOK'
      BY <1>9 DEF CommitOk, PoolOK, StageOK, pool, producer
    <2>2. Len(writing) \in Nat
      BY LenProperties DEF RowsOK
    <2>3. CountersOK'
      BY <1>9, <2>2 DEF CommitOk, CountAck, CountersOK
    <2>4. RowsOK'
      BY <1>9, EmptySeq DEF CommitOk, RowsOK, producer
    <2>5. StagesAgree'
      BY <1>9 DEF CommitOk, CountAck, CountersOK, StagesAgree, pool, producer
    <2>. QED
      BY <2>1, <2>3, <2>4, <2>5
  <1>10. CASE CommitErr
    <2>1. PoolOK' /\ StageOK'
      BY <1>10 DEF CommitErr, StopRun, PoolOK, StageOK, pool, producer
    <2>4. CountersOK' /\ commit'.batches_failed = commit.batches_failed + 1
      <3>1. [commit EXCEPT !.batches_failed = @ + 1] \in Commits
        BY DEF CountersOK, Commits
      <3>2. [commit EXCEPT !.batches_failed = @ + 1].batches_failed = commit.batches_failed + 1
        BY DEF CountersOK
      <3>. QED
        BY <1>10, <3>1, <3>2 DEF CommitErr, CountersOK, Commits
    <2>2. RowsOK'
      BY <1>10, EmptySeq DEF CommitErr, StopRun, RowsOK, producer
    <2>3. StagesAgree'
      <3>1. commit.batches_failed = 0
        BY <1>10 DEF CommitErr, StagesAgree, StageOK, CountersOK
      <3>. QED
        BY <1>10, <2>4, <3>1 DEF CommitErr, StopRun, StagesAgree, StageOK, pool, producer
    <2>. QED
      BY <2>1, <2>2, <2>3, <2>4
  <1>11. CASE UNCHANGED vars
    BY <1>11 DEF vars, pool, producer, writer, PoolOK, StageOK, RowsOK, CountersOK, StagesAgree
  <1>12. CASE Lands
    <2>1. PoolOK' /\ StageOK' /\ CountersOK' /\ StagesAgree'
      BY <1>12 DEF Lands, PoolOK, StageOK, CountersOK, StagesAgree, pool, producer
    <2>2. RowsOK'
      BY <1>12, ConcatProperties DEF Lands, RowsOK, producer
    <2>. QED
      BY <2>1, <2>2
  <1>. QED
    BY <1>1, <1>2, <1>3, <1>4, <1>5, <1>6, <1>7, <1>8, <1>9, <1>10, <1>11, <1>12
    DEF Next, Producer, Join, Writer, Commit, Returned

(* Types are correct, for any number of files, tasks and rows per batch:    *)
(* the JoinSet never exceeds Concurrency, the channel and a batch never     *)
(* exceed BatchSize.                                                        *)
THEOREM TypeCorrect == Spec => []TypeOK
  <1>1. Init => CInv
    BY InitCInv
  <1>2. CInv /\ [Next]_vars => CInv'
    BY NextCInv
  <1>3. CInv => TypeOK
    BY DEF CInv
  <1>. QED
    BY <1>1, <1>2, <1>3, PTL DEF Spec

(* The stages agree on who is done, on the stop flag and on what is left.   *)
THEOREM StagesAlwaysAgree == Spec => []StagesAgree
  <1>1. Init => CInv
    BY InitCInv
  <1>2. CInv /\ [Next]_vars => CInv'
    BY NextCInv
  <1>3. CInv => StagesAgree
    BY DEF CInv
  <1>. QED
    BY <1>1, <1>2, <1>3, PTL DEF Spec

-----------------------------------------------------------------------------
(* Every candidate is accounted for *)

(* One outcome moves one file into one class of each axis.                  *)
LEMMA TallyAddsUp ==
    ASSUME counts \in Counts, NEW r \in Results
    PROVE  /\ Tally(r).observed + Tally(r).unchanged + Tally(r).errors
                = counts.observed + counts.unchanged + counts.errors + 1
           /\ counts.uploaded + counts.already_exists = counts.observed + counts.unchanged
                => Tally(r).uploaded + Tally(r).already_exists
                     = Tally(r).observed + Tally(r).unchanged
           /\ r.kind = "observed" => Tally(r).observed = counts.observed + 1
           /\ r.kind # "observed" => Tally(r).observed = counts.observed
  <1>1. \/ r.kind = "observed" /\ r.blob = "uploaded"
        \/ r.kind = "observed" /\ r.blob = "existing"
        \/ r.kind = "unchanged" /\ r.blob = "uploaded"
        \/ r.kind = "unchanged" /\ r.blob = "existing"
        \/ r.kind \in {"error", "panic"} /\ r.blob = "none"
    BY DEF Results
  <1>. QED
    BY <1>1 DEF Tally, One, Counts

(* Every step keeps the accounting of the candidates.                       *)
LEMMA NextAccounting ==
    ASSUME CInv, Accounting, [Next]_vars
    PROVE  Accounting'
  <1>. USE DEF CInv, TypeOK
  <1>1. IsFiniteSet(inSet) /\ Cardinality(inSet) \in Nat /\ counts \in Counts
    BY PoolIsFinite DEF CountersOK, Counts
  <1>2. ASSUME Refill(inSet), UNCHANGED <<counts, produced>> PROVE Accounting'
    <2>1. /\ taken' \in taken .. NumFiles /\ ppc' = "join"
          /\ Cardinality(inSet') = Cardinality(inSet) + (taken' - taken)
      BY <1>1, <1>2, RefillKeepsPool DEF PoolOK, StageOK
    <2>2. /\ counts.observed \in Nat /\ counts.unchanged \in Nat /\ counts.errors \in Nat
          /\ taken \in Nat /\ taken' \in Nat
      BY <1>1, <2>1 DEF PoolOK, Counts
    <2>3. counts.observed + counts.unchanged + counts.errors + Cardinality(inSet') = taken'
      <3>1. /\ Cardinality(inSet') \in Int /\ taken' - taken \in Int
            /\ counts.observed + counts.unchanged + counts.errors \in Int
        BY <1>1, <2>1, <2>2
      <3>2. counts.observed + counts.unchanged + counts.errors + Cardinality(inSet) = taken
        BY DEF Accounting
      <3>. QED
        BY ONLY <1>1, <2>1, <2>2, <3>1, <3>2
    <2>. QED
      BY <1>2, <2>1, <2>3 DEF Accounting
  <1>3. ASSUME NEW f \in Files, JoinRow(f) \/ JoinNoRow(f) PROVE Accounting'
    <2>1. f \in inSet /\ result[f] \in Results /\ counts' = Tally(result[f])
      BY <1>3 DEF JoinRow, JoinNoRow, PoolOK, NoResult, Results
    <2>2. /\ IsFiniteSet(inSet \ {f}) /\ Cardinality(inSet \ {f}) \in Nat
          /\ Cardinality(inSet \ {f}) = Cardinality(inSet) - 1
          /\ Cardinality(inSet \ {f}) <= Concurrency
          /\ inSet \ {f} \in SUBSET (1 .. taken)
      BY <2>1, PoolAfterJoin, JoinLeavesRoom
    <2>3. /\ taken' \in taken .. NumFiles /\ ppc' # "done"
          /\ Cardinality(inSet') = Cardinality(inSet) - 1 + (taken' - taken)
      <3>1. CASE Refill(inSet \ {f})
        BY <1>1, <2>2, <3>1, RefillKeepsPool DEF PoolOK, StageOK
      <3>2. CASE ppc' = "send" /\ inSet' = inSet \ {f} /\ taken' = taken
        BY <2>2, <3>2 DEF PoolOK
      <3>. QED
        BY <1>3, <3>1, <3>2 DEF JoinRow, JoinNoRow
    <2>4. /\ result[f].kind = "observed" => Len(produced') = Len(produced) + 1
          /\ result[f].kind # "observed" => Len(produced') = Len(produced)
      BY <1>3, AppendProperties DEF JoinRow, JoinNoRow, RowsOK
    <2>5. counts' \in Counts
      BY <1>1, <2>1, TallyType
    <2>6. /\ counts'.observed + counts'.unchanged + counts'.errors
               = counts.observed + counts.unchanged + counts.errors + 1
          /\ counts'.uploaded + counts'.already_exists = counts'.observed + counts'.unchanged
          /\ counts'.observed = Len(produced')
      BY <1>1, <2>1, <2>4, TallyAddsUp DEF Accounting
    <2>7. counts'.observed + counts'.unchanged + counts'.errors + Cardinality(inSet') = taken'
      <3>1. /\ counts.observed \in Nat /\ counts.unchanged \in Nat /\ counts.errors \in Nat
            /\ counts'.observed \in Nat /\ counts'.unchanged \in Nat /\ counts'.errors \in Nat
            /\ taken \in Nat /\ taken' \in Nat
        BY <1>1, <2>3, <2>5 DEF PoolOK, Counts
      <3>2. counts.observed + counts.unchanged + counts.errors + Cardinality(inSet) = taken
        BY DEF Accounting
      <3>3. Cardinality(inSet') \in Int
        BY <1>1, <2>3, <3>1
      <3>. DEFINE before == counts.observed + counts.unchanged + counts.errors
                  after  == counts'.observed + counts'.unchanged + counts'.errors
      <3>4. before \in Int /\ after \in Int /\ after = before + 1
        <4>1. before \in Int /\ after \in Int
          BY ONLY <3>1
        <4>. QED
          BY <2>6, <4>1
      <3>5. before + Cardinality(inSet) = taken
        BY <3>2
      <3>. HIDE DEF before, after
      <3>6. after + Cardinality(inSet') = taken'
        BY ONLY <1>1, <2>3, <3>1, <3>3, <3>4, <3>5
      <3>. QED
        BY <3>6 DEF after
    <2>. QED
      BY <2>3, <2>6, <2>7 DEF Accounting
  <1>4. CASE ProducerDone
    <2>1. taken' = taken /\ inSet' = inSet /\ produced' = produced
      BY <1>4 DEF ProducerDone, pool
    <2>2. counts' = [counts EXCEPT !.skipped = NumFiles - taken]
      BY <1>4 DEF ProducerDone, Skipped
    <2>3. /\ counts'.observed = counts.observed /\ counts'.unchanged = counts.unchanged
          /\ counts'.errors = counts.errors /\ counts'.uploaded = counts.uploaded
          /\ counts'.already_exists = counts.already_exists
          /\ counts'.skipped = NumFiles - taken
      BY <1>1, <2>2 DEF Counts
    <2>. QED
      BY <1>4, <2>1, <2>3 DEF ProducerDone, Accounting, PoolOK
  <1>5. ASSUME UNCHANGED <<inSet, taken, ppc, produced, counts>> PROVE Accounting'
    BY <1>5 DEF Accounting
  <1>. QED
    <2>1. CASE \E f \in Files : JoinRow(f) \/ JoinNoRow(f)
      BY <1>3, <2>1
    <2>2. CASE ProducerStart \/ SendRow \/ SendFails
      BY <1>2, <2>2 DEF ProducerStart, SendRow, SendFails
    <2>3. CASE (\E f \in Files : WorkerReturns(f)) \/ Writer \/ UNCHANGED vars
      BY <1>5, <2>3 DEF WorkerReturns, Writer, Commit, RecvRow, RecvClosed, Lands, CommitOk,
                        CommitErr, vars, pool, producer
    <2>. QED
      BY <1>4, <2>1, <2>2, <2>3 DEF Next, Producer, Join, Returned

(* No candidate is lost or counted twice in any interleaving of workers,    *)
(* producer and writer, whatever fails: the counts of the report add up to  *)
(* the files handed out and `skipped` is what was never started.            *)
THEOREM NothingUncounted == Spec => []Accounting
  <1>1. Init => CInv /\ Accounting
    <2>1. Cardinality({}) = 0 /\ Len(<<>>) = 0
      BY FS_EmptySet
    <2>2. ASSUME Init PROVE Accounting
      BY <2>1, <2>2 DEF Init, Accounting
    <2>. QED
      BY <2>2, InitCInv
  <1>2. CInv /\ Accounting /\ [Next]_vars => (CInv /\ Accounting)'
    BY NextCInv, NextAccounting
  <1>. QED
    BY <1>1, <1>2, PTL DEF Spec

-----------------------------------------------------------------------------
(* Rows on their way: facts about sequences *)

(* The first row of one buffer becomes the last of the buffer before it.    *)
LEMMA HeadMovesOn ==
    ASSUME NEW S, NEW b \in Seq(S), NEW c \in Seq(S), c # <<>>
    PROVE  Append(b, Head(c)) \o Tail(c) = b \o c
  <1>. DEFINE h == Head(c)
  <1>1. /\ h \in S /\ Tail(c) \in Seq(S) /\ Len(Tail(c)) = Len(c) - 1
        /\ \A i \in 1 .. Len(Tail(c)) : Tail(c)[i] = c[i + 1]
        /\ h = c[1]
    BY HeadTailProperties
  <1>2. Len(c) \in Nat \ {0}
    BY EmptySeq
  <1>. HIDE DEF h
  <1>3. <<h>> \in Seq(S) /\ Len(<<h>>) = 1 /\ <<h>>[1] = h
    BY <1>1
  <1>4. c = <<h>> \o Tail(c)
    <2>1. /\ <<h>> \o Tail(c) \in Seq(S)
          /\ Len(<<h>> \o Tail(c)) = Len(c)
          /\ \A i \in 1 .. Len(c) : (<<h>> \o Tail(c))[i] = IF i <= 1 THEN <<h>>[i] ELSE Tail(c)[i - 1]
      BY <1>1, <1>2, <1>3, ConcatProperties
    <2>2. \A i \in 1 .. Len(c) : c[i] = (<<h>> \o Tail(c))[i]
      BY <1>1, <1>2, <1>3, <2>1
    <2>. QED
      BY <2>1, <2>2, SeqEqual
  <1>5. Append(b, h) = b \o <<h>>
    BY <1>1, AppendIsConcat
  <1>6. (b \o <<h>>) \o Tail(c) = b \o (<<h>> \o Tail(c))
    BY <1>1, <1>3, ConcatAssociative
  <1>. QED
    BY <1>4, <1>5, <1>6 DEF h

(* What precedes in a concatenation is a prefix of it, and stays one.       *)
LEMMA PrefixOfConcat ==
    ASSUME NEW S, NEW c \in Seq(S), NEW x \in Seq(S)
    PROVE  Len(c) <= Len(c \o x) /\ c = SubSeq(c \o x, 1, Len(c))
  <1>1. /\ Len(c) \in Nat /\ Len(x) \in Nat /\ c \o x \in Seq(S)
        /\ Len(c \o x) = Len(c) + Len(x)
        /\ \A i \in 1 .. Len(c) : (c \o x)[i] = c[i]
    BY ConcatProperties, LenProperties
  <1>2. \A i \in 1 .. Len(c) : (c \o x)[i] \in S
    BY <1>1, ElementOfSeq
  <1>3. /\ SubSeq(c \o x, 1, Len(c)) \in Seq(S)
        /\ Len(SubSeq(c \o x, 1, Len(c))) = Len(c)
        /\ \A i \in 1 .. Len(c) : SubSeq(c \o x, 1, Len(c))[i] = (c \o x)[i]
    <2>. DEFINE p == c \o x
    <2>1. 1 \in Int /\ Len(c) \in Int /\ \A i \in 1 .. Len(c) : p[i] \in S
      BY <1>1, <1>2
    <2>. HIDE DEF p
    <2>2. /\ SubSeq(p, 1, Len(c)) \in Seq(S)
          /\ Len(SubSeq(p, 1, Len(c))) = IF 1 <= Len(c) THEN Len(c) - 1 + 1 ELSE 0
          /\ \A i \in 1 .. Len(c) - 1 + 1 : SubSeq(p, 1, Len(c))[i] = p[1 + i - 1]
      BY <2>1, SubSeqProperties
    <2>. QED
      BY <1>1, <2>2 DEF p
  <1>4. c = SubSeq(c \o x, 1, Len(c))
    BY <1>1, <1>3, SeqEqual
  <1>. QED
    BY <1>1, <1>4

(* A beginning of a sequence is a beginning of its extension.               *)
LEMMA PrefixOfAppend ==
    ASSUME NEW S, NEW p \in Seq(S), NEW e \in S, NEW c \in Seq(S),
           Len(c) <= Len(p), c = SubSeq(p, 1, Len(c))
    PROVE  Len(c) <= Len(Append(p, e)) /\ c = SubSeq(Append(p, e), 1, Len(c))
  <1>1. Len(c) \in Nat /\ Len(p) \in Nat
    BY LenProperties
  <1>2. /\ Append(p, e) = p \o <<e>> /\ <<e>> \in Seq(S)
        /\ Len(Append(p, e)) = Len(p) + 1
    BY AppendIsConcat, AppendProperties, EmptySeq
  <1>3. CASE Len(c) = 0
    <2>1. SubSeq(Append(p, e), 1, 0) = <<>> /\ c = <<>>
      BY <1>3, SubSeqEmpty, EmptySeq
    <2>. QED
      BY <1>1, <1>2, <1>3, <2>1
  <1>4. CASE Len(c) # 0
    <2>1. 1 \in 1 .. Len(p) /\ Len(c) \in 1 .. Len(p)
      BY <1>1, <1>4
    <2>2. SubSeq(p \o <<e>>, 1, Len(c)) = SubSeq(p, 1, Len(c))
      BY <1>2, <2>1, SubSeqOfConcat1
    <2>. QED
      BY <1>1, <1>2, <2>2
  <1>. QED
    BY <1>3, <1>4

-----------------------------------------------------------------------------
(* Rows are neither lost, duplicated nor reordered *)

(* Concatenation of rows is associative.                                    *)
LEMMA FilesConcat ==
    \A s, t, u \in Seq(Files) : (s \o t) \o u = s \o (t \o u)
  BY ConcatAssociative

(* Every place a row can be is a sequence of files.                         *)
LEMMA BuffersAreSequences ==
    ASSUME CInv
    PROVE  /\ writing \in Seq(Files) /\ batch \in Seq(Files) /\ channel \in Seq(Files)
           /\ Opt(hand) \in Seq(Files) /\ produced \in Seq(Files) /\ catalog \in Seq(Files)
           /\ Unstored \in Seq(Files) /\ Unstored \o batch \in Seq(Files)
           /\ Unstored \o batch \o channel \in Seq(Files)
           /\ InFlight \in Seq(Files)
  <1>1. /\ writing \in Seq(Files) /\ batch \in Seq(Files) /\ channel \in Seq(Files)
        /\ produced \in Seq(Files) /\ catalog \in Seq(Files)
    BY DEF CInv, TypeOK, RowsOK
  <1>2. Opt(hand) \in Seq(Files)
    <2>1. CASE hand = NoRow
      BY <2>1, EmptySeq DEF Opt
    <2>2. CASE hand \in Files
      BY <2>2 DEF Opt
    <2>. QED
      BY <2>1, <2>2 DEF CInv, TypeOK, RowsOK
  <1>3. Unstored \in Seq(Files)
    BY <1>1, EmptySeq DEF Unstored
  <1>4. Unstored \o batch \in Seq(Files) /\ Unstored \o batch \o channel \in Seq(Files)
    BY <1>1, <1>3, ConcatProperties
  <1>. QED
    BY <1>1, <1>2, <1>3, <1>4, ConcatProperties DEF InFlight

(* No step loses, duplicates or reorders a row while no commit failed.      *)
LEMMA NextRowsConserved ==
    ASSUME CInv, RowsConserved, [Next]_vars
    PROVE  RowsConserved'
  <1>. SUFFICES ASSUME HasCommitter, ~commit_failure'
                PROVE  produced' = catalog' \o InFlight'
    BY DEF RowsConserved
  <1>. DEFINE X == Unstored \o batch \o channel
              H == Opt(hand)
  <1>1. /\ writing \in Seq(Files) /\ batch \in Seq(Files) /\ channel \in Seq(Files)
        /\ H \in Seq(Files) /\ produced \in Seq(Files) /\ catalog \in Seq(Files)
        /\ Unstored \in Seq(Files)
        /\ Unstored \o batch \in Seq(Files) /\ X \in Seq(Files)
        /\ <<>> \in Seq(Files)
    BY BuffersAreSequences, EmptySeq
  <1>2. ~CommitErr
    BY DEF CommitErr
  <1>3. ASSUME ~commit_failure PROVE produced = catalog \o (X \o H)
    BY <1>3 DEF RowsConserved, InFlight
  <1>4. ASSUME NEW f \in Files, JoinRow(f) PROVE produced' = catalog' \o InFlight'
    <2>1. /\ produced' = Append(produced, f) /\ hand' = f /\ H = <<>>
          /\ UNCHANGED <<writing, landed, batch, channel, catalog, commit_failure>>
      BY <1>4 DEF JoinRow, writer, CInv, TypeOK, RowsOK, Opt
    <2>2. Opt(hand') = <<f>> /\ <<f>> \in Seq(Files)
      BY <2>1 DEF Opt, NoRow, Files
    <2>3. X \o H = X
      BY <1>1, <2>1, ConcatEmptySeq
    <2>4. InFlight' = X \o <<f>>
      BY <2>1, <2>2 DEF InFlight, Unstored
    <2>5. produced' = produced \o <<f>>
      BY <1>1, <2>1, AppendIsConcat
    <2>6. (catalog \o X) \o <<f>> = catalog \o (X \o <<f>>)
      <3>1. catalog \in Seq(Files) /\ X \in Seq(Files) /\ <<f>> \in Seq(Files)
        BY <1>1, <2>2
      <3>. HIDE DEF X
      <3>. QED
        BY ONLY <3>1, ConcatAssociative
    <2>. QED
      BY <1>3, <2>1, <2>3, <2>4, <2>5, <2>6
  <1>5. CASE SendRow
    <2>1. /\ hand \in Files /\ hand' = NoRow /\ channel' = Append(channel, hand)
          /\ UNCHANGED <<writing, landed, batch, produced, catalog, commit_failure>>
      BY <1>5 DEF SendRow, writer, CInv, TypeOK, RowsOK
    <2>2. H = <<hand>> /\ Opt(hand') = <<>>
      BY <2>1 DEF Opt, NoRow, Files
    <2>3. channel' = channel \o <<hand>> /\ <<hand>> \in Seq(Files)
      BY <1>1, <2>1, AppendIsConcat
    <2>4. ((Unstored \o batch) \o channel) \o <<hand>> = (Unstored \o batch) \o (channel \o <<hand>>)
      <3>. DEFINE Y == Unstored \o batch
      <3>1. Y \in Seq(Files) /\ channel \in Seq(Files)
        BY <1>1
      <3>. HIDE DEF Y
      <3>2. (Y \o channel) \o <<hand>> = Y \o (channel \o <<hand>>)
        BY ONLY <2>3, <3>1, ConcatAssociative
      <3>. QED
        BY <3>2 DEF Y
    <2>5. X \o <<hand>> \in Seq(Files)
      BY <1>1, <2>3, ConcatProperties
    <2>6. InFlight' = (X \o <<hand>>) \o <<>>
      BY <2>1, <2>2, <2>3, <2>4 DEF InFlight, Unstored
    <2>7. InFlight' = X \o H
      BY <2>2, <2>5, <2>6, ConcatEmptySeq
    <2>. QED
      BY <1>3, <2>1, <2>7
  <1>6. CASE RecvRow
    <2>. DEFINE rows == Append(batch, Head(channel))
    <2>1. /\ channel # <<>> /\ channel' = Tail(channel) /\ writing = <<>> /\ ~landed /\ ~landed'
          /\ UNCHANGED <<hand, produced, catalog, commit_failure>>
          /\ \/ writing' = rows /\ batch' = <<>>
             \/ writing' = writing /\ batch' = rows
      BY <1>6 DEF RecvRow, pool, producer, CInv, StagesAgree
    <2>2. rows \in Seq(Files)
      BY <1>1, <2>1, HeadTailProperties, AppendProperties
    <2>3. rows \o Tail(channel) = batch \o channel
      BY <1>1, <2>1, HeadMovesOn
    <2>4. rows \o <<>> = rows /\ <<>> \o rows = rows /\ <<>> \o batch = batch
      BY <1>1, <2>2, ConcatEmptySeq
    <2>5. writing' \o batch' = rows /\ writing \o batch = batch
      BY <2>1, <2>4
    <2>6. InFlight' = X \o H
      BY <2>1, <2>3, <2>5 DEF InFlight, Unstored
    <2>. QED
      BY <1>3, <2>1, <2>6
  <1>7. CASE RecvClosed
    <2>1. /\ writing = <<>> /\ ~landed /\ ~landed'
          /\ UNCHANGED <<hand, channel, produced, catalog, commit_failure>>
          /\ \/ writing' = batch /\ batch' = <<>>
             \/ writing' = writing /\ batch' = batch
      BY <1>7 DEF RecvClosed, pool, producer, CInv, StagesAgree
    <2>2. batch \o <<>> = batch /\ <<>> \o batch = batch
      BY <1>1, ConcatEmptySeq
    <2>3. writing' \o batch' = writing \o batch
      BY <2>1, <2>2
    <2>4. InFlight' = X \o H
      BY <2>1, <2>3 DEF InFlight, Unstored
    <2>. QED
      BY <1>3, <2>1, <2>4
  <1>8. CASE Lands
    <2>1. /\ catalog' = catalog \o writing /\ ~landed /\ landed' /\ batch = <<>>
          /\ UNCHANGED <<hand, channel, produced, batch, commit_failure>>
      BY <1>8 DEF Lands, pool, producer, CInv, StagesAgree
    <2>2. Unstored = writing /\ Unstored' = <<>>
      BY <2>1 DEF Unstored
    <2>7. writing \o batch = writing /\ <<>> \o batch' = <<>> /\ <<>> \o channel = channel
      BY <1>1, <2>1, ConcatEmptySeq
    <2>3. X \o H = (writing \o channel) \o H /\ InFlight' = channel \o H
      BY <2>1, <2>2, <2>7 DEF InFlight
    <2>4. (writing \o channel) \o H = writing \o (channel \o H)
      <3>1. writing \in Seq(Files) /\ channel \in Seq(Files) /\ H \in Seq(Files)
        BY <1>1
      <3>. HIDE DEF H
      <3>. QED
        BY ONLY <3>1, FilesConcat, Zenon
    <2>5. channel \o H \in Seq(Files)
      BY <1>1, ConcatProperties
    <2>6. catalog \o (writing \o (channel \o H)) = (catalog \o writing) \o (channel \o H)
      <3>. DEFINE Y == channel \o H
      <3>1. Y \in Seq(Files) /\ catalog \in Seq(Files) /\ writing \in Seq(Files)
        BY <1>1, <2>5
      <3>. HIDE DEF Y
      <3>2. catalog \o (writing \o Y) = (catalog \o writing) \o Y
        BY ONLY <3>1, ConcatAssociative
      <3>. QED
        BY <3>2 DEF Y
    <2>. QED
      BY <1>3, <2>1, <2>3, <2>4, <2>6
  <1>11. CASE CommitOk
    <2>1. /\ landed /\ ~landed' /\ writing' = <<>>
          /\ UNCHANGED <<hand, channel, produced, batch, catalog, commit_failure>>
      BY <1>11 DEF CommitOk, pool, producer
    <2>2. Unstored' = Unstored
      BY <2>1 DEF Unstored
    <2>. QED
      BY <1>3, <2>1, <2>2 DEF InFlight
  <1>9. ~SendFails
    BY DEF SendFails, CInv, TypeOK, StageOK, StagesAgree, writer
  <1>10. ASSUME UNCHANGED <<writing, landed, batch, channel, hand, produced, catalog,
                                  commit_failure>>
         PROVE  produced' = catalog' \o InFlight'
    BY <1>3, <1>10 DEF InFlight, Unstored
  <1>. QED
    <2>1. CASE ProducerStart \/ ProducerDone \/ UNCHANGED vars
      BY <1>10, <2>1 DEF ProducerStart, ProducerDone, writer, vars, pool, producer
    <2>2. CASE \E f \in Files : WorkerReturns(f) \/ JoinNoRow(f)
      BY <1>10, <2>2 DEF WorkerReturns, JoinNoRow, writer, producer
    <2>. QED
      BY <1>2, <1>4, <1>5, <1>6, <1>7, <1>8, <1>9, <1>11, <2>1, <2>2
      DEF Next, Producer, Join, Writer, Commit, Returned

(* Every step keeps the catalog a beginning of what was produced.           *)
LEMMA NextMissingRowsBounded ==
    ASSUME CInv, RowsConserved, MissingRowsBounded, [Next]_vars
    PROVE  MissingRowsBounded'
  <1>1. /\ produced \in Seq(Files) /\ catalog \in Seq(Files) /\ writing \in Seq(Files)
        /\ Len(writing) <= BatchSize /\ Len(writing) \in Nat /\ Len(catalog) \in Nat
        /\ Len(produced) \in Nat
        /\ commit.committed \in Nat /\ commit_failure \in BOOLEAN /\ landed \in BOOLEAN
    BY LenProperties DEF CInv, TypeOK, RowsOK, CountersOK, StageOK
  <1>2. ASSUME NEW f \in Files, JoinRow(f) PROVE MissingRowsBounded'
    <2>1. /\ produced' = Append(produced, f)
          /\ UNCHANGED <<catalog, commit, commit_failure, landed, writing>>
      BY <1>2 DEF JoinRow, writer
    <2>2. /\ Len(catalog) <= Len(Append(produced, f))
          /\ catalog = SubSeq(Append(produced, f), 1, Len(catalog))
      BY <1>1, PrefixOfAppend DEF MissingRowsBounded
    <2>. QED
      BY <2>1, <2>2 DEF MissingRowsBounded
  <1>3. ASSUME wpc \in {"commit", "tail"}, ~landed
        PROVE  /\ ~commit_failure /\ catalog \o writing \in Seq(Files)
               /\ Len(catalog \o writing) = Len(catalog) + Len(writing)
               /\ Len(catalog \o writing) <= Len(produced)
               /\ catalog \o writing = SubSeq(produced, 1, Len(catalog \o writing))
    <2>1. ~commit_failure /\ HasCommitter /\ batch = <<>>
      BY <1>3 DEF CInv, StagesAgree
    <2>. DEFINE Y == channel \o Opt(hand)
    <2>2. /\ channel \in Seq(Files) /\ Opt(hand) \in Seq(Files) /\ Y \in Seq(Files)
          /\ catalog \o writing \in Seq(Files)
          /\ Len(catalog \o writing) = Len(catalog) + Len(writing)
      BY <1>1, BuffersAreSequences, ConcatProperties
    <2>3. InFlight = (writing \o channel) \o Opt(hand)
      BY <1>1, <1>3, <2>1, ConcatEmptySeq DEF InFlight, Unstored
    <2>4. InFlight = writing \o Y
      <3>1. (writing \o channel) \o Opt(hand) = writing \o (channel \o Opt(hand))
        <4>1. writing \in Seq(Files) /\ channel \in Seq(Files) /\ Opt(hand) \in Seq(Files)
          BY <1>1, <2>2
        <4>. QED
          BY ONLY <4>1, FilesConcat, Zenon
      <3>. QED
        BY <2>3, <3>1
    <2>5. produced = catalog \o (writing \o Y)
      BY <2>1, <2>4 DEF RowsConserved
    <2>. HIDE DEF Y
    <2>6. catalog \o (writing \o Y) = (catalog \o writing) \o Y
      <3>1. catalog \in Seq(Files) /\ writing \in Seq(Files) /\ Y \in Seq(Files)
        BY <1>1, <2>2
      <3>. QED
        BY ONLY <3>1, FilesConcat
    <2>. DEFINE Z == catalog \o writing
    <2>7. Z \in Seq(Files) /\ produced = Z \o Y
      BY <2>2, <2>5, <2>6
    <2>. HIDE DEF Z
    <2>8. Len(Z) <= Len(Z \o Y) /\ Z = SubSeq(Z \o Y, 1, Len(Z))
      BY <2>2, <2>7, PrefixOfConcat
    <2>. QED
      BY <2>1, <2>2, <2>7, <2>8 DEF Z
  <1>4. CASE Lands
    <2>1. /\ catalog' = catalog \o writing /\ ~landed /\ landed'
          /\ UNCHANGED <<produced, commit, commit_failure, writing>>
          /\ wpc \in {"commit", "tail"}
      BY <1>4 DEF Lands, producer
    <2>2. Len(catalog') = commit'.committed + Len(writing') /\ ~commit_failure'
      <3>1. ~commit_failure /\ Len(catalog') = Len(catalog) + Len(writing)
        BY <1>3, <2>1
      <3>2. Len(catalog) = commit.committed + 0
        BY <2>1, <3>1 DEF MissingRowsBounded
      <3>. QED
        BY <1>1, <2>1, <3>1, <3>2
    <2>3. Len(catalog') <= Len(produced') /\ catalog' = SubSeq(produced', 1, Len(catalog'))
      BY <1>3, <2>1
    <2>. QED
      BY <2>1, <2>2, <2>3 DEF MissingRowsBounded
  <1>5. CASE CommitOk
    <2>1. /\ commit'.committed = commit.committed + Len(writing)
          /\ UNCHANGED <<produced, catalog, commit_failure>>
          /\ landed /\ ~landed' /\ ~commit_failure
      BY <1>5 DEF CommitOk, CountAck, producer, CInv, StagesAgree
    <2>2. Len(catalog') = commit'.committed /\ commit'.committed \in Nat
      BY <1>1, <2>1 DEF MissingRowsBounded
    <2>. QED
      BY <2>1, <2>2 DEF MissingRowsBounded
  <1>7. CASE CommitErr
    <2>1. /\ catalog' = catalog /\ commit_failure' /\ produced' = produced
          /\ ~commit_failure
          /\ commit'.committed = commit.committed
      BY <1>7 DEF CommitErr, producer, CInv, TypeOK, CountersOK, StagesAgree
    <2>2. Len(catalog') - commit'.committed \in 0 .. BatchSize
      BY <1>1, <2>1 DEF MissingRowsBounded
    <2>. QED
      BY <2>1, <2>2 DEF MissingRowsBounded
  <1>6. ASSUME UNCHANGED <<produced, catalog, commit, commit_failure, landed>>,
               landed => writing' = writing
        PROVE  MissingRowsBounded'
    BY <1>6 DEF MissingRowsBounded
  <1>. QED
    <2>1. CASE ProducerStart \/ ProducerDone \/ SendRow \/ SendFails \/ UNCHANGED vars
      BY <1>6, <2>1 DEF ProducerStart, ProducerDone, SendRow, SendFails, writer, vars, pool, producer
    <2>2. CASE \E f \in Files : WorkerReturns(f) \/ JoinNoRow(f)
      BY <1>6, <2>2 DEF WorkerReturns, JoinNoRow, writer, producer
    <2>3. CASE RecvRow \/ RecvClosed
      <3>1. ~landed
        BY <2>3 DEF RecvRow, RecvClosed, CInv, StagesAgree
      <3>. QED
        BY <1>6, <2>3, <3>1 DEF RecvRow, RecvClosed, pool, producer
    <2>. QED
      BY <1>2, <1>4, <1>5, <1>7, <2>1, <2>2, <2>3 DEF Next, Producer, Join, Writer, Commit, Returned

-----------------------------------------------------------------------------
(* One row per file *)

(* Every step keeps the produced rows distinct.                             *)
LEMMA NextOneRowPerFile ==
    ASSUME CInv, OneRowPerFile, [Next]_vars
    PROVE  OneRowPerFile'
  <1>. USE DEF CInv, TypeOK
  <1>1. /\ taken \in 0 .. NumFiles /\ inSet \subseteq 1 .. taken /\ stop \in BOOLEAN
        /\ produced \in Seq(Files) /\ Len(produced) \in Nat
        /\ DOMAIN produced = 1 .. Len(produced)
        /\ IsFiniteSet(inSet) /\ Cardinality(inSet) \in Nat /\ Cardinality(inSet) <= Concurrency
    BY PoolIsFinite, LenProperties DEF PoolOK, StageOK, RowsOK
  <1>2. ASSUME NEW set \in SUBSET inSet, produced' = produced,
               taken' \in taken .. NumFiles,
               inSet' = set \cup (taken + 1 .. taken')
        PROVE  OneRowPerFile'
    <2>1. \A i \in DOMAIN produced : produced[i] \in 1 .. taken' \ inSet'
      BY <1>1, <1>2 DEF OneRowPerFile
    <2>. QED
      BY <1>2, <2>1 DEF OneRowPerFile
  <1>3. ASSUME NEW f \in Files, JoinRow(f) \/ JoinNoRow(f)
        PROVE  /\ f \in inSet /\ taken' \in taken .. NumFiles
               /\ inSet' = (inSet \ {f}) \cup (taken + 1 .. taken')
    <2>1. f \in inSet
      BY <1>3 DEF JoinRow, JoinNoRow
    <2>2. /\ IsFiniteSet(inSet \ {f}) /\ Cardinality(inSet \ {f}) \in Nat
          /\ Cardinality(inSet \ {f}) <= Concurrency
          /\ inSet \ {f} \in SUBSET (1 .. taken)
      BY <2>1, PoolAfterJoin, JoinLeavesRoom
    <2>3. CASE Refill(inSet \ {f})
      BY <1>1, <2>1, <2>2, <2>3, RefillKeepsPool
    <2>4. CASE inSet' = inSet \ {f} /\ taken' = taken
      BY <1>1, <2>1, <2>4
    <2>. QED
      BY <1>3, <2>3, <2>4 DEF JoinRow, JoinNoRow
  <1>4. ASSUME NEW f \in Files, JoinRow(f) PROVE OneRowPerFile'
    <2>1. produced' = Append(produced, f)
      BY <1>4 DEF JoinRow
    <2>2. /\ f \in inSet /\ taken' \in taken .. NumFiles
          /\ inSet' = (inSet \ {f}) \cup (taken + 1 .. taken')
      BY <1>3, <1>4
    <2>3. /\ Append(produced, f) \in Seq(Files) /\ Len(Append(produced, f)) = Len(produced) + 1
          /\ \A i \in 1 .. Len(produced) : Append(produced, f)[i] = produced[i]
          /\ Append(produced, f)[Len(produced) + 1] = f
      BY <1>1, AppendProperties
    <2>4. DOMAIN produced' = 1 .. Len(produced) + 1
      BY <2>1, <2>3, LenProperties
    <2>5. \A i \in 1 .. Len(produced) : produced[i] # f /\ produced[i] \in 1 .. taken \ inSet
      BY <1>1, <2>2 DEF OneRowPerFile
    <2>6. ASSUME NEW i \in DOMAIN produced' PROVE produced'[i] \in 1 .. taken' \ inSet'
      <3>1. CASE i \in 1 .. Len(produced)
        BY <1>1, <2>1, <2>2, <2>3, <2>5, <3>1
      <3>2. CASE i = Len(produced) + 1
        BY <1>1, <2>1, <2>2, <2>3, <3>2
      <3>. QED
        BY <1>1, <2>4, <3>1, <3>2
    <2>7. ASSUME NEW i \in DOMAIN produced', NEW j \in DOMAIN produced', i # j
          PROVE  produced'[i] # produced'[j]
      <3>1. CASE i \in 1 .. Len(produced) /\ j \in 1 .. Len(produced)
        BY <1>1, <2>1, <2>3, <2>7, <3>1 DEF OneRowPerFile
      <3>2. CASE i = Len(produced) + 1 /\ j \in 1 .. Len(produced)
        BY <2>1, <2>3, <2>5, <3>2
      <3>3. CASE i \in 1 .. Len(produced) /\ j = Len(produced) + 1
        BY <2>1, <2>3, <2>5, <3>3
      <3>. QED
        BY <1>1, <2>4, <2>7, <3>1, <3>2, <3>3
    <2>. QED
      BY <2>6, <2>7 DEF OneRowPerFile
  <1>5. ASSUME NEW f \in Files, JoinNoRow(f) PROVE OneRowPerFile'
    <2>1. produced' = produced /\ inSet \ {f} \in SUBSET inSet
      BY <1>5 DEF JoinNoRow
    <2>2. taken' \in taken .. NumFiles /\ inSet' = (inSet \ {f}) \cup (taken + 1 .. taken')
      BY <1>3, <1>5
    <2>. QED
      BY <1>2, <2>1, <2>2
  <1>6. CASE ProducerStart \/ SendRow \/ SendFails
    <2>1. Refill(inSet) /\ produced' = produced
      BY <1>6 DEF ProducerStart, SendRow, SendFails
    <2>2. taken' \in taken .. NumFiles /\ inSet' = inSet \cup (taken + 1 .. taken')
      BY <1>1, <2>1, RefillKeepsPool
    <2>. QED
      BY <1>2, <2>1, <2>2
  <1>7. ASSUME UNCHANGED <<taken, inSet, produced>> PROVE OneRowPerFile'
    BY <1>7 DEF OneRowPerFile
  <1>. QED
    <2>1. CASE ProducerDone \/ (\E f \in Files : WorkerReturns(f)) \/ UNCHANGED vars
      BY <1>7, <2>1 DEF ProducerDone, WorkerReturns, vars, pool, producer
    <2>2. CASE Writer
      BY <1>7, <2>2 DEF Writer, Commit, RecvRow, RecvClosed, Lands, CommitOk, CommitErr, pool,
                        producer
    <2>. QED
      BY <1>4, <1>5, <1>6, <2>1, <2>2 DEF Next, Producer, Join, Returned

-----------------------------------------------------------------------------
(* The invariant of the pipeline *)

IInv == CInv /\ Accounting /\ RowsConserved /\ MissingRowsBounded /\ OneRowPerFile

(* The initial state satisfies the inductive invariant.                     *)
LEMMA InitIInv == ASSUME Init PROVE IInv
  <1>1. Cardinality({}) = 0 /\ Len(<<>>) = 0 /\ <<>> \in Seq(Files)
    BY FS_EmptySet, EmptySeq
  <1>2. Accounting
    BY <1>1 DEF Init, Accounting
  <1>3. RowsConserved
    <2>1. <<>> \o <<>> = <<>>
      BY <1>1, ConcatEmptySeq
    <2>. QED
      BY <2>1 DEF Init, RowsConserved, InFlight, Unstored, Opt
  <1>4. MissingRowsBounded
    <2>1. SubSeq(<<>>, 1, 0) = <<>>
      BY SubSeqEmpty
    <2>. QED
      BY <1>1, <2>1 DEF Init, MissingRowsBounded
  <1>5. OneRowPerFile
    <2>1. DOMAIN <<>> = {}
      BY <1>1, LenProperties
    <2>. QED
      BY <2>1 DEF Init, OneRowPerFile
  <1>. QED
    BY <1>2, <1>3, <1>4, <1>5, InitCInv DEF IInv

(* The inductive invariant holds in every state of a run (run_pipeline).    *)
THEOREM Invariance == Spec => []IInv
  <1>1. Init => IInv
    BY InitIInv
  <1>2. IInv /\ [Next]_vars => IInv'
    BY NextCInv, NextAccounting, NextRowsConserved, NextMissingRowsBounded, NextOneRowPerFile DEF IInv
  <1>. QED
    BY <1>1, <1>2, PTL DEF Spec

(* Until a commit fails, no row is lost, duplicated or reordered between    *)
(* tally and the catalog.                                                   *)
THEOREM RowsNeverLost == Spec => []RowsConserved
  <1>1. IInv => RowsConserved
    BY DEF IInv
  <1>. QED
    BY <1>1, Invariance, PTL

(* Whatever fails, the catalog holds the beginning of what was produced, at *)
(* least the acknowledged rows and at most one batch more.                  *)
THEOREM MissingRowsAreBounded == Spec => []MissingRowsBounded
  <1>1. IInv => MissingRowsBounded
    BY DEF IInv
  <1>. QED
    BY <1>1, Invariance, PTL

(* A run never describes a file twice.                                      *)
THEOREM NoFileTwice == Spec => []OneRowPerFile
  <1>1. IInv => OneRowPerFile
    BY DEF IInv
  <1>. QED
    BY <1>1, Invariance, PTL

(* What the invariant says of a run that returned without a failure.        *)
LEMMA WellEnded ==
    ASSUME IInv, Finished, HasCommitter, ~commit_failure
    PROVE  /\ InFlight = <<>> /\ catalog = produced
           /\ taken = NumFiles /\ inSet = {}
  <1>1. /\ ppc = "done" /\ wpc = "done" /\ batch = <<>> /\ channel = <<>> /\ writing = <<>>
        /\ ~landed /\ hand = NoRow /\ taken = NumFiles
    BY DEF IInv, CInv, TypeOK, StageOK, RowsOK, StagesAgree, Finished
  <1>2. <<>> \in Seq(Files) /\ <<>> \o <<>> = <<>>
    BY EmptySeq, ConcatEmptySeq
  <1>3. InFlight = <<>>
    BY <1>1, <1>2 DEF InFlight, Unstored, Opt
  <1>4. catalog \in Seq(Files) /\ catalog \o <<>> = catalog
    BY ConcatEmptySeq DEF IInv, CInv, TypeOK, RowsOK
  <1>5. catalog = produced
    BY <1>3, <1>4 DEF IInv, RowsConserved
  <1>6. inSet = {}
    BY <1>1 DEF IInv, Accounting
  <1>. QED
    BY <1>1, <1>3, <1>5, <1>6

(* A run that returns without a commit failure has every candidate counted  *)
(* and every row it produced acknowledged and in the catalog.               *)
THEOREM NothingLostSilently == Spec => []NoSilentLoss
  <1>1. ASSUME IInv, Finished, HasCommitter, ~commit_failure
        PROVE  /\ catalog = produced /\ commit.committed = counts.observed
               /\ counts.skipped = 0
               /\ counts.observed + counts.unchanged + counts.errors = NumFiles
    <2>1. catalog = produced /\ taken = NumFiles /\ inSet = {} /\ ppc = "done"
      BY <1>1, WellEnded DEF Finished
    <2>2. Cardinality(inSet) = 0
      BY <2>1, FS_EmptySet
    <2>3. /\ counts.observed \in Nat /\ counts.unchanged \in Nat /\ counts.errors \in Nat
          /\ counts.skipped \in Nat /\ commit.committed \in Nat /\ Len(catalog) \in Nat
      BY <1>1, LenProperties DEF IInv, CInv, TypeOK, CountersOK, RowsOK
    <2>4. /\ counts.observed + counts.unchanged + counts.errors + Cardinality(inSet) = taken
          /\ counts.observed = Len(produced) /\ taken + counts.skipped = NumFiles
      BY <1>1, <2>1 DEF IInv, Accounting
    <2>5. Len(catalog) = commit.committed + 0
      BY <1>1 DEF IInv, CInv, StagesAgree, Finished, MissingRowsBounded
    <2>6. commit.committed = counts.observed
      BY <2>1, <2>3, <2>4, <2>5
    <2>7. counts.skipped = 0
      BY <2>1, <2>3, <2>4
    <2>8. counts.observed + counts.unchanged + counts.errors = NumFiles
      BY <2>1, <2>2, <2>3, <2>4
    <2>. QED
      BY <2>1, <2>6, <2>7, <2>8
  <1>2. IInv => NoSilentLoss
    BY <1>1 DEF NoSilentLoss
  <1>. QED
    BY <1>2, Invariance, PTL

(* A producer that sends has joined a task and started none in its place.   *)
SenderKeepsAPlace == ppc = "send" => Cardinality(inSet) < Concurrency

(* Only a join puts the producer into the send, and the spawn follows it.   *)
LEMMA NextSenderKeepsAPlace ==
    ASSUME IInv, SenderKeepsAPlace, [Next]_vars
    PROVE  SenderKeepsAPlace'
  <1>1. ASSUME NEW f \in Files, JoinRow(f) PROVE SenderKeepsAPlace'
    <2>1. f \in inSet /\ TypeOK
      BY <1>1 DEF JoinRow, IInv, CInv
    <2>2. Cardinality(inSet \ {f}) = Cardinality(inSet) - 1 /\ Cardinality(inSet) \in Nat
      BY <2>1, PoolAfterJoin, PoolIsFinite
    <2>3. Cardinality(inSet) <= Concurrency
      BY <2>1 DEF TypeOK, PoolOK
    <2>4. ppc' = "send" => inSet' = inSet \ {f}
      BY <1>1 DEF JoinRow, Refill
    <2>. QED
      BY <2>2, <2>3, <2>4 DEF SenderKeepsAPlace
  <1>2. ASSUME UNCHANGED <<ppc, inSet>> PROVE SenderKeepsAPlace'
    BY <1>2 DEF SenderKeepsAPlace
  <1>3. ASSUME ppc' # "send" PROVE SenderKeepsAPlace'
    BY <1>3 DEF SenderKeepsAPlace
  <1>. QED
    <2>1. CASE ProducerStart \/ SendRow \/ SendFails \/ ProducerDone
      BY <1>3, <2>1 DEF ProducerStart, SendRow, SendFails, ProducerDone, Refill
    <2>2. CASE \E f \in Files : JoinNoRow(f)
      BY <1>3, <2>2 DEF JoinNoRow, Refill
    <2>3. CASE (\E f \in Files : WorkerReturns(f)) \/ Writer \/ UNCHANGED vars
      BY <1>2, <2>3 DEF WorkerReturns, Writer, Commit, RecvRow, RecvClosed, Lands, CommitOk,
                        CommitErr, vars, pool, producer
    <2>. QED
      BY <1>1, <2>1, <2>2, <2>3 DEF Next, Producer, Join, Returned

(* Backpressure bounds the rows in memory, those of finished tasks that     *)
(* nobody has joined included: two batches, and one row for each task the   *)
(* pool may hold.                                                           *)
THEOREM BuffersAreBounded == Spec => []BufferedRowsBounded
  <1>1. ASSUME IInv, SenderKeepsAPlace PROVE BufferedRowsBounded
    <2>. DEFINE unjoined == {f \in inSet : result[f].kind = "observed"}
    <2>1. /\ Len(writing) \in Nat /\ Len(batch) \in Nat /\ Len(channel) \in Nat
      BY <1>1, LenProperties DEF IInv, CInv, TypeOK, RowsOK
    <2>2. Len(writing) + Len(batch) <= BatchSize
      <3>1. CASE writing = <<>>
        BY <1>1, <2>1, <3>1, EmptySeq DEF IInv, CInv, TypeOK, RowsOK
      <3>2. CASE batch = <<>>
        BY <1>1, <2>1, <3>2, EmptySeq DEF IInv, CInv, TypeOK, RowsOK
      <3>. QED
        BY <1>1, <3>1, <3>2 DEF IInv, CInv, StagesAgree
    <2>3. Len(channel) <= BatchSize
      BY <1>1 DEF IInv, CInv, TypeOK, RowsOK
    <2>4. /\ IsFiniteSet(inSet) /\ Cardinality(inSet) \in Nat
          /\ Cardinality(inSet) <= Concurrency
      BY <1>1, PoolIsFinite DEF IInv, CInv, TypeOK, PoolOK
    <2>5. Cardinality(unjoined) \in Nat /\ Cardinality(unjoined) <= Cardinality(inSet)
      BY <2>4, FS_Subset, FS_CardinalityType
    <2>6. One(hand # NoRow) + Cardinality(inSet) <= Concurrency /\ One(hand # NoRow) \in {0, 1}
      <3>1. hand # NoRow <=> ppc = "send"
        BY <1>1 DEF IInv, CInv, TypeOK, RowsOK
      <3>. QED
        BY <1>1, <2>4, <3>1 DEF SenderKeepsAPlace, One
    <2>. HIDE DEF unjoined
    <2>7. Len(writing) + Len(batch) + Len(channel) + One(hand # NoRow) + Cardinality(unjoined)
            <= 2 * BatchSize + Concurrency
      BY <2>1, <2>2, <2>3, <2>4, <2>5, <2>6
    <2>. QED
      BY <2>7 DEF BufferedRowsBounded, unjoined
  <1>2. Init => SenderKeepsAPlace
    BY DEF Init, SenderKeepsAPlace
  <1>. QED
    BY <1>1, <1>2, NextSenderKeepsAPlace, Invariance, PTL DEF Spec

(* After the first commit error no row reaches the catalog and no file is   *)
(* started: what the report says of both is final.                          *)
THEOREM FailureEndsTheRun == Spec => FailureIsFinal
  <1>1. ASSUME IInv, commit_failure, [Next]_vars
        PROVE  UNCHANGED <<catalog, commit, taken>>
    <2>1. stop /\ wpc = "done" /\ taken \in 0 .. NumFiles
      BY <1>1 DEF IInv, CInv, TypeOK, PoolOK, StagesAgree
    <2>2. \A set : Room(set) = 0
      BY <2>1 DEF Room
    <2>3. ASSUME NEW set, Refill(set) PROVE taken' = taken
      BY <2>1, <2>2, <2>3 DEF Refill
    <2>4. CASE \E f \in Files : JoinRow(f) \/ JoinNoRow(f)
      BY <2>3, <2>4 DEF JoinRow, JoinNoRow, writer
    <2>5. CASE ProducerStart \/ SendRow \/ SendFails
      BY <2>3, <2>5 DEF ProducerStart, SendRow, SendFails, writer
    <2>6. CASE ProducerDone \/ (\E f \in Files : WorkerReturns(f)) \/ UNCHANGED vars
      BY <2>6 DEF ProducerDone, WorkerReturns, vars, pool, producer, writer
    <2>7. ~Writer
      BY <2>1 DEF Writer, Commit, RecvRow, RecvClosed, Lands, CommitOk, CommitErr, IInv, CInv,
                 StagesAgree
    <2>. QED
      BY <1>1, <2>4, <2>5, <2>6, <2>7 DEF Next, Producer, Join, Returned
  <1>2. IInv /\ [Next]_vars => [commit_failure => UNCHANGED <<catalog, commit, taken>>]_vars
    BY <1>1
  <1>. QED
    BY <1>2, Invariance, PTL DEF Spec, FailureIsFinal

-----------------------------------------------------------------------------
(* The pipeline implements RowLedger *)

(* The rows of the commit in flight are the next ones the ledger expects.   *)
LEMMA WritingIsNext ==
    ASSUME IInv, wpc \in {"commit", "tail"}, ~landed
    PROVE  /\ Len(writing) \in 1 .. BatchSize
           /\ Len(catalog) + Len(writing) <= Len(produced)
           /\ writing = SubSeq(produced, Len(catalog) + 1, Len(catalog) + Len(writing))
  <1>1. /\ ~commit_failure /\ HasCommitter /\ batch = <<>> /\ writing # <<>>
        /\ catalog \in Seq(Files) /\ writing \in Seq(Files) /\ Len(writing) <= BatchSize
    BY DEF IInv, CInv, TypeOK, RowsOK, StagesAgree
  <1>2. Len(writing) \in Nat \ {0} /\ Len(catalog) \in Nat
    BY <1>1, EmptySeq, LenProperties
  <1>. DEFINE Y == channel \o Opt(hand)
              P == writing \o Y
  <1>3. /\ channel \in Seq(Files) /\ Opt(hand) \in Seq(Files) /\ Y \in Seq(Files)
    BY BuffersAreSequences, ConcatProperties DEF IInv
  <1>4. InFlight = (writing \o channel) \o Opt(hand)
    BY <1>1, ConcatEmptySeq DEF InFlight, Unstored
  <1>5. InFlight = P
    <2>1. writing \in Seq(Files) /\ channel \in Seq(Files) /\ Opt(hand) \in Seq(Files)
      BY <1>1, <1>3
    <2>2. (writing \o channel) \o Opt(hand) = writing \o (channel \o Opt(hand))
      BY ONLY <2>1, FilesConcat, Zenon
    <2>. QED
      BY <1>4, <2>2
  <1>6. produced = catalog \o P
    BY <1>1, <1>5 DEF IInv, RowsConserved
  <1>. HIDE DEF Y
  <1>7. /\ P \in Seq(Files) /\ Len(P) = Len(writing) + Len(Y) /\ Len(Y) \in Nat
    BY <1>1, <1>3, ConcatProperties, LenProperties
  <1>8. Len(writing) <= Len(P) /\ writing = SubSeq(P, 1, Len(writing))
    BY <1>1, <1>3, PrefixOfConcat
  <1>. HIDE DEF P
  <1>9. Len(produced) = Len(catalog) + Len(P)
    BY <1>1, <1>6, <1>7, ConcatProperties
  <1>10. SubSeq(catalog \o P, Len(catalog) + 1, Len(catalog) + Len(writing))
            = SubSeq(P, 1, Len(writing))
    <2>. DEFINE m == Len(catalog) + 1
                n == Len(catalog) + Len(writing)
    <2>1. /\ m \in Len(catalog) + 1 .. Len(catalog) + Len(P)
          /\ n \in Len(catalog) + 1 .. Len(catalog) + Len(P)
      BY <1>2, <1>7, <1>8
    <2>2. m - Len(catalog) = 1 /\ n - Len(catalog) = Len(writing)
      BY <1>2
    <2>. HIDE DEF m, n
    <2>3. SubSeq(catalog \o P, m, n) = SubSeq(P, m - Len(catalog), n - Len(catalog))
      <3>1. catalog \in Seq(Files) /\ P \in Seq(Files)
        BY <1>1, <1>7
      <3>. QED
        BY ONLY <2>1, <3>1, SubSeqOfConcat2
    <2>4. SubSeq(catalog \o P, m, n) = SubSeq(P, 1, Len(writing))
      BY ONLY <2>2, <2>3
    <2>. QED
      BY <2>4 DEF m, n
  <1>11. Len(catalog) + Len(writing) <= Len(produced)
    BY ONLY <1>2, <1>7, <1>8, <1>9
  <1>12. writing = SubSeq(produced, Len(catalog) + 1, Len(catalog) + Len(writing))
    BY ONLY <1>6, <1>8, <1>10
  <1>. QED
    BY <1>1, <1>2, <1>11, <1>12

RunStatus == IF commit_failure THEN "failed" ELSE IF Finished THEN "finished" ELSE "running"

(* Every step of the pipeline is a step of the ledger or a stutter.         *)
LEMMA LedgerStep ==
    ASSUME HasCommitter, IInv, [Next]_vars
    PROVE  Ledger!Next \/ UNCHANGED <<produced, catalog, RunStatus>>
  <1>. DEFINE n == Len(writing)
              next == SubSeq(produced, Len(catalog) + 1, Len(catalog) + n)
  <1>1. ASSUME NEW f \in Files, JoinRow(f) PROVE Ledger!Produce(f)
    <2>1. /\ f \in inSet /\ produced' = Append(produced, f)
          /\ UNCHANGED <<catalog, commit_failure, wpc>>
          /\ ppc = "join" /\ ppc' \in {"send", "join"}
      BY <1>1 DEF JoinRow, Refill, writer
    <2>2. \A i \in DOMAIN produced : produced[i] # f
      BY <2>1 DEF IInv, OneRowPerFile
    <2>3. f \notin {produced[i] : i \in DOMAIN produced}
      BY <2>2
    <2>4. ~Finished /\ ~Finished'
      BY <2>1 DEF Finished
    <2>. QED
      BY <2>1, <2>3, <2>4 DEF Ledger!Produce
  <1>2. ASSUME wpc \in {"commit", "tail"}, ~landed
        PROVE  /\ n \in 1 .. BatchSize /\ Len(catalog) + n <= Len(produced)
               /\ catalog \o writing = catalog \o next
               /\ ~commit_failure /\ ~Finished
    <2>1. ~commit_failure /\ ~Finished
      BY <1>2 DEF IInv, CInv, StagesAgree, Finished
    <2>. QED
      BY <1>2, <2>1, WritingIsNext
  <1>3. CASE Lands
    <2>1. /\ wpc \in {"commit", "tail"} /\ ~landed /\ catalog' = catalog \o writing
          /\ UNCHANGED <<produced, commit_failure, ppc, wpc>>
      BY <1>3 DEF Lands, producer
    <2>2. ~Finished'
      BY <2>1 DEF Finished
    <2>3. Ledger!Store(n)
      BY <1>2, <2>1, <2>2 DEF Ledger!Store, Ledger!NextRows
    <2>. QED
      BY <1>2, <2>1, <2>3 DEF Ledger!Next
  <1>12. CASE CommitOk
    <2>1. /\ wpc \in {"commit", "tail"} /\ ~commit_failure /\ landed /\ ~Finished
          /\ UNCHANGED <<produced, catalog, commit_failure, ppc>>
      BY <1>12 DEF CommitOk, producer, IInv, CInv, StagesAgree, Finished
    <2>2. CASE wpc = "commit"
      BY <1>12, <2>1, <2>2 DEF CommitOk, RunStatus, Finished
    <2>3. CASE wpc = "tail"
      <3>1. Finished' /\ batch = <<>> /\ channel = <<>> /\ hand = NoRow
        BY <1>12, <2>1, <2>3
        DEF CommitOk, Finished, IInv, CInv, TypeOK, RowsOK, StagesAgree
      <3>2. InFlight = <<>>
        <4>1. <<>> \in Seq(Files) /\ <<>> \o <<>> = <<>>
          BY EmptySeq, ConcatEmptySeq
        <4>. QED
          BY <2>1, <3>1, <4>1 DEF InFlight, Unstored, Opt
      <3>3. catalog \in Seq(Files) /\ catalog \o <<>> = catalog
        BY ConcatEmptySeq DEF IInv, CInv, TypeOK, RowsOK
      <3>4. HasCommitter
        BY <2>1 DEF IInv, CInv, StagesAgree
      <3>5. catalog = produced
        BY <2>1, <3>2, <3>3, <3>4 DEF IInv, RowsConserved
      <3>. QED
        BY <2>1, <3>1, <3>5 DEF Ledger!Finish, Ledger!Next
    <2>. QED
      BY <2>1, <2>2, <2>3
  <1>4. CASE CommitErr
    <2>1. /\ ~commit_failure /\ ~Finished /\ commit_failure'
          /\ UNCHANGED <<produced, catalog>>
      BY <1>4 DEF CommitErr, producer, IInv, CInv, StagesAgree, Finished
    <2>. QED
      BY <2>1 DEF Ledger!Fail, Ledger!Next
  <1>5. CASE RecvClosed
    <2>1. /\ UNCHANGED <<produced, catalog, commit_failure, ppc>> /\ wpc = "recv"
          /\ ~txOpen /\ ~commit_failure
      BY <1>5 DEF RecvClosed, pool, producer, IInv, CInv, StagesAgree
    <2>2. CASE batch # <<>>
      BY <1>5, <2>1, <2>2 DEF RecvClosed, RunStatus, Finished
    <2>3. CASE batch = <<>>
      <3>1. /\ ppc = "done" /\ Finished' /\ ~Finished
        BY <1>5, <2>1, <2>3 DEF RecvClosed, Finished, IInv, CInv, StagesAgree
      <3>2. hand = NoRow /\ writing = <<>> /\ channel = <<>> /\ ~landed
        BY <1>5, <2>1, <3>1 DEF RecvClosed, IInv, CInv, TypeOK, RowsOK, StagesAgree
      <3>3. InFlight = <<>>
        <4>1. <<>> \in Seq(Files) /\ <<>> \o <<>> = <<>>
          BY EmptySeq, ConcatEmptySeq
        <4>. QED
          BY <2>3, <3>2, <4>1 DEF InFlight, Unstored, Opt
      <3>4. catalog \in Seq(Files) /\ catalog \o <<>> = catalog
        BY ConcatEmptySeq DEF IInv, CInv, TypeOK, RowsOK
      <3>5. catalog = produced
        BY <2>1, <3>3, <3>4 DEF IInv, RowsConserved
      <3>. QED
        BY <2>1, <3>1, <3>5 DEF Ledger!Finish, Ledger!Next
    <2>. QED
      BY <2>2, <2>3
  <1>6. ASSUME UNCHANGED <<produced, catalog, commit_failure>>, Finished' = Finished
        PROVE  UNCHANGED <<produced, catalog, RunStatus>>
    BY <1>6 DEF RunStatus
  <1>7. CASE RecvRow
    <2>1. /\ wpc = "recv" /\ wpc' \in {"recv", "commit"}
          /\ UNCHANGED <<produced, catalog, commit_failure>>
      BY <1>7 DEF RecvRow, pool, producer
    <2>. QED
      BY <2>1 DEF RunStatus, Finished
  <1>8. CASE ProducerStart \/ SendRow \/ SendFails
    <2>1. /\ ppc # "done" /\ ppc' = "join" /\ UNCHANGED <<produced, catalog, commit_failure>>
      BY <1>8 DEF ProducerStart, SendRow, SendFails, Refill, writer
    <2>. QED
      BY <2>1 DEF RunStatus, Finished
  <1>9. ASSUME NEW f \in Files, JoinNoRow(f) PROVE UNCHANGED <<produced, catalog, RunStatus>>
    <2>1. /\ ppc # "done" /\ ppc' = "join" /\ UNCHANGED <<produced, catalog, commit_failure>>
      BY <1>9 DEF JoinNoRow, Refill, writer
    <2>. QED
      BY <2>1 DEF RunStatus, Finished
  <1>10. CASE ProducerDone
    <2>1. /\ ppc = "join" /\ UNCHANGED <<produced, catalog, commit_failure, wpc>>
      BY <1>10 DEF ProducerDone, writer
    <2>2. commit_failure \/ wpc # "done"
      BY <2>1 DEF IInv, CInv, StagesAgree
    <2>. QED
      BY <2>1, <2>2 DEF RunStatus, Finished
  <1>11. CASE (\E f \in Files : WorkerReturns(f)) \/ UNCHANGED vars
    BY <1>11 DEF WorkerReturns, vars, pool, producer, writer, RunStatus, Finished
  <1>. QED
    BY <1>1, <1>3, <1>4, <1>5, <1>7, <1>8, <1>9, <1>10, <1>11, <1>12
    DEF Next, Producer, Join, Writer, Commit, Returned, Ledger!Next

(* An ingest run keeps the ledger's promise: rows reach the catalog once,   *)
(* in the order they were produced and in batches, and a run that does not  *)
(* report a failure ends with all of them there.                            *)
THEOREM PipelineImplementsLedger ==
    ASSUME HasCommitter
    PROVE  Spec => ImplementsLedger
  <1>1. Init => Ledger!Init
    BY DEF Init, Ledger!Init, Finished
  <1>2. IInv /\ [Next]_vars => [Ledger!Next]_<<produced, catalog, RunStatus>>
    BY LedgerStep
  <1>. QED
    BY <1>1, <1>2, Invariance, PTL
    DEF Spec, ImplementsLedger, Ledger!Spec, Ledger!ledger, RunStatus

-----------------------------------------------------------------------------
(* Journaling a run does not change what its pipeline does *)

(* A step of the run is a step of its pipeline or leaves the pipeline alone. *)
LEMMA JournaledStep == ASSUME [JNext]_jvars PROVE [Next]_vars
  BY DEF JNext, jvars, StartRefused, Start, JProduce, JReceive, JLands, Acknowledge, JCommitOk,
         JCommitErr, End, JReturned, Next, Writer, Commit

(* Every behaviour of a journaled run is a behaviour of the pipeline.       *)
THEOREM JournaledRunIsAPipeline == JSpec => Spec
  <1>1. JInit => Init
    BY DEF JInit
  <1>. QED
    BY <1>1, JournaledStep, PTL DEF JSpec, Spec

(* So the pipeline's invariant, and with it every pipeline theorem, holds   *)
(* of the journaled run.                                                    *)
THEOREM JournaledRunKeepsIInv == JSpec => []IInv
  BY JournaledRunIsAPipeline, Invariance, PTL

-----------------------------------------------------------------------------
(* The entries of a run *)

(* Every entry a run writes, with the numbers it carries unbounded.         *)
OwnEntries == {Started, Completed}
                \cup {Committing(b) : b \in Nat}
                \cup {BatchCommitted(b, n) : b \in Nat, n \in Nat}
                \cup {Incomplete(n) : n \in Nat}
                \cup {CommitFailed(b) : b \in Nat}

-----------------------------------------------------------------------------
(* Until the run ends, journal and object hold no terminal entry; after, the *)
(* journal ends in the one that says how the pipeline ended, and the object  *)
(* is that journal or holds none still (the last save was lost).             *)
Terminated(h) ==
    \E g \in Seq(OwnEntries) : Ordinary(g) /\ h = Append(g, TerminalEntry)

JInv ==
    /\ rpc \in {"idle", "running", "ended", "refused"}
    /\ journal \in Seq(OwnEntries) /\ stored \in Seq(OwnEntries) /\ batches \in Nat
    /\ rpc # "ended" => Ordinary(journal) /\ Ordinary(stored)
    /\ rpc = "ended" =>
         Finished /\ Terminated(journal) /\ (Ordinary(stored) \/ Terminated(stored))

(* Recording an entry that is not terminal keeps both histories without one. *)
LEMMA RecordOrdinary ==
    ASSUME JInv, rpc # "ended", NEW e \in OwnEntries, Record(e),
           e.state \in {"committing", "batch_committed"}
    PROVE  /\ journal' \in Seq(OwnEntries) /\ stored' \in Seq(OwnEntries)
           /\ Ordinary(journal') /\ Ordinary(stored')
  <1>1. journal \in Seq(OwnEntries) /\ Ordinary(journal)
        /\ stored \in Seq(OwnEntries) /\ Ordinary(stored)
    BY DEF JInv
  <1>2. journal' = Append(journal, e) /\ stored' \in {stored, journal'}
    BY DEF Record
  <1>3. /\ journal' \in Seq(OwnEntries) /\ Len(journal') = Len(journal) + 1
        /\ Len(journal) \in Nat
        /\ \A i \in 1 .. Len(journal) : journal'[i] = journal[i]
        /\ journal'[Len(journal) + 1] = e
        /\ DOMAIN journal = 1 .. Len(journal)
    BY <1>1, <1>2, AppendProperties, LenProperties
  <1>4. DOMAIN journal' = 1 .. Len(journal')
    BY <1>3, LenProperties
  <1>5. ASSUME NEW i \in DOMAIN journal'
        PROVE  journal'[i].state \in {"started", "committing", "batch_committed"}
    <2>1. CASE i \in 1 .. Len(journal)
      BY <2>1, <1>1, <1>3 DEF Ordinary
    <2>2. CASE i = Len(journal) + 1
      BY <2>2, <1>3
    <2>. QED
      BY <1>3, <1>4, <2>1, <2>2
  <1>6. Ordinary(journal')
    BY <1>5 DEF Ordinary
  <1>. QED
    BY <1>1, <1>2, <1>3, <1>6

(* Before the run starts there is no journal.                               *)
LEMMA InitJInv == ASSUME JInit PROVE JInv
  <1>1. <<>> \in Seq(OwnEntries) /\ Ordinary(<<>>)
    BY EmptySeq DEF Ordinary
  <1>. QED
    BY <1>1 DEF JInit, JInv

(* A journal that holds `started` alone.                                    *)
LEMMA StartedOrdinary == <<Started>> \in Seq(OwnEntries) /\ Ordinary(<<Started>>)
  BY DEF OwnEntries, Ordinary, Started

(* Only the end of the run writes a terminal entry, and only once.          *)
LEMMA NextJInv == ASSUME JInv, IInv, [JNext]_jvars PROVE JInv'
  <1>1. CASE StartRefused
    <2>1. /\ rpc = "idle" /\ rpc' = "refused" /\ journal' = journal
          /\ stored' \in {<<>>, <<Started>>} /\ batches' = batches
      BY <1>1 DEF StartRefused
    <2>2. <<>> \in Seq(OwnEntries) /\ Ordinary(<<>>)
      BY EmptySeq DEF Ordinary
    <2>3. stored' \in Seq(OwnEntries) /\ Ordinary(stored')
      BY <2>1, <2>2, StartedOrdinary
    <2>4. journal' \in Seq(OwnEntries) /\ Ordinary(journal') /\ batches' \in Nat
      BY <2>1 DEF JInv
    <2>. QED
      BY <2>1, <2>3, <2>4 DEF JInv
  <1>2. CASE Start
    BY <1>2, StartedOrdinary DEF Start, JInv
  <1>3. CASE JProduce
    BY <1>3 DEF JProduce, JInv, run, Ordinary
  <1>4. CASE JReceive
    <2>1. CASE UNCHANGED run
      BY <1>4, <2>1 DEF JReceive, JInv, run, Ordinary
    <2>2. CASE BeginCommit
      <3>1. /\ batches' = batches + 1 /\ batches \in Nat
            /\ Record(Committing(batches')) /\ rpc' = rpc /\ rpc = "running"
        BY <1>4, <2>2 DEF JReceive, BeginCommit, JInv
      <3>2. /\ Committing(batches') \in OwnEntries
            /\ Committing(batches').state = "committing"
        BY <3>1 DEF OwnEntries, Committing
      <3>3. /\ journal' \in Seq(OwnEntries) /\ stored' \in Seq(OwnEntries)
            /\ Ordinary(journal') /\ Ordinary(stored')
        BY <3>1, <3>2, RecordOrdinary
      <3>. QED
        BY <3>1, <3>3 DEF JInv
    <2>. QED
      BY <1>4, <2>1, <2>2 DEF JReceive
  <1>5. CASE Acknowledge
    <2>1. /\ Record(BatchCommitted(batches, Len(writing)))
          /\ rpc' = rpc /\ rpc = "running" /\ batches' = batches
          /\ batches \in Nat /\ writing \in Seq(Files)
      BY <1>5 DEF Acknowledge, JInv, IInv, CInv, TypeOK, RowsOK
    <2>2. Len(writing) \in Nat
      BY <2>1, LenProperties
    <2>3. /\ BatchCommitted(batches, Len(writing)) \in OwnEntries
          /\ BatchCommitted(batches, Len(writing)).state = "batch_committed"
      BY <2>1, <2>2 DEF OwnEntries, BatchCommitted
    <2>4. /\ journal' \in Seq(OwnEntries) /\ stored' \in Seq(OwnEntries)
          /\ Ordinary(journal') /\ Ordinary(stored')
      BY <2>1, <2>3, RecordOrdinary
    <2>. QED
      BY <2>1, <2>4 DEF JInv
  <1>6. CASE JLands \/ JCommitOk \/ JCommitErr
    BY <1>6 DEF JLands, JCommitOk, JCommitErr, JInv, run, Ordinary
  <1>7. CASE End
    <2>1. /\ rpc = "running" /\ rpc' = "ended" /\ Finished /\ Record(TerminalEntry)
          /\ UNCHANGED vars /\ batches' = batches
      BY <1>7 DEF End
    <2>2. Finished' /\ TerminalEntry' = TerminalEntry
      BY <2>1 DEF Finished, TerminalEntry, vars, producer, writer, pool
    <2>3. TerminalEntry \in OwnEntries
      <3>1. counts.errors \in Nat /\ commit.batches_committed \in Nat
        BY DEF IInv, CInv, TypeOK, CountersOK
      <3>. QED
        BY <3>1 DEF TerminalEntry, OwnEntries
    <2>4. /\ journal \in Seq(OwnEntries) /\ Ordinary(journal)
          /\ stored \in Seq(OwnEntries) /\ Ordinary(stored) /\ batches \in Nat
      BY <2>1 DEF JInv
    <2>5. /\ journal' = Append(journal, TerminalEntry) /\ stored' \in {stored, journal'}
          /\ journal' \in Seq(OwnEntries)
      BY <2>1, <2>3, <2>4, AppendProperties DEF Record
    <2>6. Ordinary(stored)' \/ Terminated(stored)'
      <3>1. CASE stored' = stored
        BY <2>4, <3>1 DEF Ordinary
      <3>2. CASE stored' = journal'
        BY <2>2, <2>4, <2>5, <3>2 DEF Terminated, Ordinary
      <3>. QED
        BY <2>5, <3>1, <3>2
    <2>7. Terminated(journal)'
      BY <2>2, <2>4, <2>5 DEF Terminated
    <2>. QED
      BY <2>1, <2>2, <2>4, <2>5, <2>6, <2>7 DEF JInv
  <1>8. CASE UNCHANGED jvars
    <2>1. UNCHANGED <<rpc, journal, stored, batches, ppc, wpc, counts, commit, commit_failure>>
      BY <1>8 DEF jvars, vars, run, producer, writer
    <2>. QED
      BY <2>1 DEF JInv, Ordinary, Terminated, TerminalEntry, Finished
  <1>9. CASE JReturned
    BY <1>8, <1>9 DEF JReturned
  <1>. QED
    BY <1>1, <1>2, <1>3, <1>4, <1>5, <1>6, <1>7, <1>8, <1>9 DEF JNext

(* A journal that no later run would reconcile is true: the bytes in the    *)
(* bucket, at any moment a kill may strike, with any of the saves lost.     *)
THEOREM AJournalNotOpenIsTrue ==
    ASSUME HasCommitter
    PROVE  JSpec => []ClosedJournalIsTrue
  <1>1. JInit => JInv
    BY InitJInv
  <1>2. JInv /\ IInv /\ [JNext]_jvars => JInv'
    BY NextJInv
  <1>3. ASSUME JInv, NoSilentLoss, IInv
        PROVE  ClosedJournalIsTrue
    <2>. SUFFICES ASSUME stored # <<>>, ~IsOpen(stored)
                  PROVE  /\ Finished /\ catalog = produced
                         /\ counts.observed + counts.unchanged + counts.errors = NumFiles
                         /\ Outcome(stored) = "completed" <=> counts.errors = 0
      BY DEF ClosedJournalIsTrue
    <2>1. stored \in Seq(OwnEntries) /\ ~Ordinary(stored)
      BY <1>3, OrdinaryIsOpen DEF JInv
    <2>2. Finished /\ Terminated(stored)
      BY <1>3, <2>1 DEF JInv
    <2>3. PICK g \in Seq(OwnEntries) : Ordinary(g) /\ stored = Append(g, TerminalEntry)
      BY <2>2 DEF Terminated
    <2>4. TerminalEntry \in OwnEntries /\ ~IsClosure(TerminalEntry)
      <3>1. counts.errors \in Nat /\ commit.batches_committed \in Nat
        BY <1>3 DEF IInv, CInv, TypeOK, CountersOK
      <3>. QED
        BY <3>1 DEF TerminalEntry, OwnEntries, IsClosure, Completed, Incomplete, CommitFailed
    <2>5. LastOwn(stored) = TerminalEntry /\ ~IsClosed(stored)
      BY <2>3, <2>4, TerminalSpeaks
    <2>6. ~commit_failure
      BY <2>5 DEF IsOpen, Outcome, TerminalEntry, CommitFailed
    <2>7. Outcome(stored) = "completed" <=> counts.errors = 0
      BY <2>5, <2>6 DEF Outcome, TerminalEntry, Completed, Incomplete
    <2>. QED
      BY <1>3, <2>2, <2>6, <2>7 DEF NoSilentLoss
  <1>. QED
    BY <1>1, <1>2, <1>3, JournaledRunIsAPipeline, JournaledRunKeepsIInv, NothingLostSilently,
       PTL DEF JSpec

(* The invariant of the journaled run holds in every state of it.           *)
LEMMA JournalInvariant == JSpec => [](JInv /\ IInv)
  <1>. QED
    BY InitJInv, NextJInv, JournaledRunKeepsIInv, PTL DEF JSpec

-----------------------------------------------------------------------------
(* The three sets of books *)

Attempts == {i \in DOMAIN journal : journal[i].state = "committing"}

AwaitsCommitter == wpc \in {"commit", "tail"}

(* The rows of a batch that the journal acknowledges before the writer.     *)
AckedRows == IF acked THEN Len(writing) ELSE 0

(* What the journal says of the commits is what the writer counted, and the *)
(* batch whose acknowledgement is being saved; the last attempt recorded is *)
(* the one the committer counted last; and what is stored acknowledges      *)
(* nothing the journal does not.                                            *)
Tallies ==
    /\ acked \in BOOLEAN /\ (acked => landed)
    /\ RowsCommitted(journal) = commit.committed + AckedRows
    /\ BatchesCommitted(journal) = commit.batches_committed + One(acked)
    /\ batches = commit.batches_committed + commit.batches_failed + One(AwaitsCommitter)

Marks ==
    /\ RowsAreNumbers(journal)
    /\ \A i \in Acks(journal) :
         journal[i].batch \in 1 .. commit.batches_committed + One(acked)
    /\ batches > 0 =>
         \E i \in Attempts : journal[i].batch = batches /\ \A j \in Attempts : j <= i
    /\ rpc = "idle" => journal = <<>>
    /\ Acks(stored) \subseteq Acks(journal)
    /\ \A i \in Acks(stored) : stored[i] = journal[i]

Books == Tallies /\ Marks

(* Before the run starts all counters are zero.                             *)
LEMMA InitBooks == ASSUME JInit PROVE Books
  <1>1. <<>> \in Seq(OwnEntries) /\ DOMAIN <<>> = {}
    BY EmptySeq
  <1>2. Acks(journal) = {} /\ RowsAreNumbers(journal)
    BY <1>1 DEF JInit, Acks, RowsAreNumbers
  <1>3. RowsCommitted(journal) = 0 /\ BatchesCommitted(journal) = 0
    BY <1>1, <1>2, NoAcksNoRows DEF JInit
  <1>5. AckedRows = 0 /\ One(acked) = 0 /\ acked \in BOOLEAN /\ (acked => landed)
    BY DEF JInit, AckedRows, One
  <1>4. ~AwaitsCommitter
    BY DEF JInit, Init, AwaitsCommitter
  <1>. QED
    <2>1. /\ journal = <<>> /\ stored = <<>> /\ batches = 0 /\ commit.committed = 0
          /\ commit.batches_committed = 0 /\ commit.batches_failed = 0
      BY DEF JInit, Init
    <2>2. One(AwaitsCommitter) = 0
      BY <1>4 DEF One
    <2>3. Acks(stored) = {}
      BY <1>2, <2>1 DEF JInit
    <2>4. Tallies
      BY <1>3, <1>5, <2>1, <2>2 DEF Tallies
    <2>5. Marks
      BY <1>2, <2>1, <2>3 DEF Marks
    <2>. QED
      BY <2>4, <2>5 DEF Books

(* What a recorded entry changes of what the journal says.                  *)
LEMMA RecordedCounts ==
    ASSUME JInv, Books, NEW e \in OwnEntries, Record(e)
    PROVE  /\ RowsAreNumbers(journal')
           /\ RowsCommitted(journal') = RowsCommitted(journal) + (IF IsAck(e) THEN e.rows ELSE 0)
           /\ BatchesCommitted(journal') = BatchesCommitted(journal) + (IF IsAck(e) THEN 1 ELSE 0)
           /\ \A i \in Acks(journal') : i \in Acks(journal) \/ (IsAck(e) /\ journal'[i] = e)
           /\ \A i \in Acks(journal) : i \in Acks(journal') /\ journal'[i] = journal[i]
           /\ e.state = "committing" =>
                \E i \in Attempts' : journal'[i].batch = e.batch /\ \A j \in Attempts' : j <= i
           /\ e.state # "committing" =>
                Attempts' = Attempts /\ \A i \in Attempts : journal'[i] = journal[i]
           /\ Acks(stored') \subseteq Acks(journal')
           /\ \A i \in Acks(stored') : stored'[i] = journal'[i]
  <1>1. journal \in Seq(OwnEntries) /\ stored \in Seq(OwnEntries) /\ RowsAreNumbers(journal)
    BY DEF JInv, Books, Tallies, Marks
  <1>2. journal' = Append(journal, e) /\ stored' \in {stored, journal'}
    BY DEF Record
  <1>3. IsAck(e) => e.rows \in Nat
    BY DEF IsAck, OwnEntries, Started, Completed, Committing, BatchCommitted, Incomplete,
           CommitFailed
  <1>4. /\ Acks(journal') = Acks(journal) \cup (IF IsAck(e) THEN {Len(journal) + 1} ELSE {})
        /\ RowsAreNumbers(journal')
        /\ RowsCommitted(journal') = RowsCommitted(journal) + (IF IsAck(e) THEN e.rows ELSE 0)
        /\ BatchesCommitted(journal') = BatchesCommitted(journal) + (IF IsAck(e) THEN 1 ELSE 0)
    BY <1>1, <1>2, <1>3, AppendCounts
  <1>5. /\ Len(journal) \in Nat /\ DOMAIN journal = 1 .. Len(journal)
        /\ DOMAIN journal' = 1 .. Len(journal) + 1
        /\ \A i \in 1 .. Len(journal) : journal'[i] = journal[i]
        /\ journal'[Len(journal) + 1] = e
    <2>1. journal' \in Seq(OwnEntries) /\ Len(journal') = Len(journal) + 1
      BY <1>1, <1>2, AppendProperties
    <2>. QED
      BY <1>1, <1>2, <2>1, AppendProperties, LenProperties
  <1>6. Acks(journal) \subseteq 1 .. Len(journal)
    BY <1>5 DEF Acks
  <1>7. /\ \A i \in Acks(journal') : i \in Acks(journal) \/ (IsAck(e) /\ journal'[i] = e)
        /\ \A i \in Acks(journal) : i \in Acks(journal') /\ journal'[i] = journal[i]
    BY <1>4, <1>5, <1>6
  <1>8. Attempts' = Attempts \cup (IF e.state = "committing" THEN {Len(journal) + 1} ELSE {})
    BY <1>5 DEF Attempts
  <1>9. /\ \A i \in Attempts : i <= Len(journal) + 1
        /\ \A i \in Attempts : journal'[i] = journal[i]
    BY <1>5 DEF Attempts
  <1>10. /\ e.state = "committing" =>
              \E i \in Attempts' : journal'[i].batch = e.batch /\ \A j \in Attempts' : j <= i
         /\ e.state # "committing" =>
              Attempts' = Attempts /\ \A i \in Attempts : journal'[i] = journal[i]
    <2>1. Len(journal) + 1 <= Len(journal) + 1
      BY <1>5
    <2>. QED
      BY <1>5, <1>8, <1>9, <2>1
  <1>11. /\ Acks(stored') \subseteq Acks(journal')
         /\ \A i \in Acks(stored') : stored'[i] = journal'[i]
    <2>1. CASE stored' = stored
      BY <1>7, <2>1 DEF Books, Tallies, Marks
    <2>2. CASE stored' = journal'
      BY <2>2
    <2>. QED
      BY <1>2, <2>1, <2>2
  <1>. QED
    BY <1>4, <1>7, <1>10, <1>11

(* A step that records nothing and leaves the writer's counters alone.      *)
LEMMA NothingRecorded ==
    ASSUME Books, UNCHANGED <<journal, stored, batches, commit, acked>>,
           acked => UNCHANGED <<writing, landed>>,
           AwaitsCommitter' = AwaitsCommitter, rpc' = "idle" => rpc = "idle"
    PROVE  Books'
  BY DEF Books, Tallies, Marks, AckedRows, Attempts

(* Attempt, acknowledgement and failure each change all three books alike.  *)
LEMMA NextBooks == ASSUME JInv, IInv, Books, [JNext]_jvars PROVE Books'
  <1>1. /\ commit \in [committed : Nat, batches_committed : Nat, batches_failed : Nat]
        /\ batches \in Nat /\ wpc \in {"recv", "commit", "tail", "done"}
        /\ commit.batches_failed = IF commit_failure THEN 1 ELSE 0
        /\ commit_failure => wpc = "done"
        /\ landed => wpc \in {"commit", "tail"}
        /\ acked \in BOOLEAN /\ (acked => landed)
        /\ Len(writing) \in Nat /\ AckedRows \in Nat
    BY LenProperties
    DEF JInv, IInv, CInv, TypeOK, StageOK, RowsOK, CountersOK, StagesAgree, Books,
        Tallies, Marks, AckedRows
  <1>2. CASE StartRefused
    <2>1. /\ journal' = journal /\ batches' = batches /\ commit' = commit /\ wpc' = wpc
          /\ rpc' = "refused" /\ stored' \in {<<>>, <<Started>>}
          /\ UNCHANGED <<acked, landed, writing>>
      BY <1>2 DEF StartRefused, vars, writer
    <2>2. Acks(stored') = {}
      BY <2>1 DEF Acks, IsAck, Started
    <2>. QED
      BY <2>1, <2>2 DEF Books, Tallies, Marks, AckedRows, AwaitsCommitter, Attempts
  <1>3. CASE Start
    <2>1. /\ journal = <<>> /\ journal' = <<Started>> /\ stored' = journal'
          /\ rpc' = "running" /\ batches' = batches /\ commit' = commit /\ wpc' = wpc
          /\ UNCHANGED <<acked, landed, writing>>
      BY <1>3 DEF Start, vars, writer, Books, Tallies, Marks
    <2>2. Started \in OwnEntries /\ Started.state = "started" /\ ~IsAck(Started)
      BY DEF OwnEntries, Started, IsAck
    <2>3. Record(Started)
      BY <2>1 DEF Record
    <2>4. /\ RowsAreNumbers(journal')
          /\ RowsCommitted(journal') = RowsCommitted(journal) + 0
          /\ BatchesCommitted(journal') = BatchesCommitted(journal) + 0
          /\ \A i \in Acks(journal') : i \in Acks(journal) /\ journal'[i] = journal[i]
          /\ Attempts' = Attempts /\ \A i \in Attempts : journal'[i] = journal[i]
      BY <2>2, <2>3, RecordedCounts
    <2>5. AckedRows' = AckedRows /\ One(acked)' = One(acked)
          /\ One(AwaitsCommitter)' = One(AwaitsCommitter)
          /\ acked' \in BOOLEAN /\ (acked' => landed')
      BY <1>1, <2>1 DEF AckedRows, AwaitsCommitter
    <2>6. One(acked) \in Nat /\ RowsCommitted(journal) \in Nat /\ BatchesCommitted(journal) \in Nat
      BY <1>1 DEF Books, Tallies, Marks, One
    <2>20. Tallies'
      BY <1>1, <2>1, <2>4, <2>5, <2>6 DEF Books, Tallies
    <2>21. Marks'
      BY <1>1, <2>1, <2>4, <2>5 DEF Books, Marks
    <2>. QED
      BY <2>20, <2>21 DEF Books
  <1>4. CASE JProduce
    <2>1. UNCHANGED <<rpc, journal, stored, batches, commit, wpc, acked, landed, writing>>
      BY <1>4 DEF JProduce, run, Producer, Join, ProducerStart, JoinRow, JoinNoRow, SendRow,
                  SendFails, ProducerDone, WorkerReturns, writer
    <2>. QED
      BY <2>1, NothingRecorded DEF AwaitsCommitter
  <1>5. CASE JReceive
    <2>1. commit' = commit /\ wpc = "recv" /\ wpc' \in {"recv", "commit", "tail", "done"}
      BY <1>5 DEF JReceive, RecvRow, RecvClosed
    <2>4. ~acked /\ acked' = acked
      BY <1>1, <1>5, <2>1 DEF JReceive, BeginCommit, run
    <2>2. CASE wpc' = "recv" \/ wpc' = "done"
      <3>1. UNCHANGED <<rpc, journal, stored, batches>>
        BY <1>5, <2>2 DEF JReceive, run
      <3>. QED
        BY <2>1, <2>2, <2>4, <3>1, NothingRecorded DEF AwaitsCommitter
    <2>3. CASE BeginCommit
      <3>1. /\ wpc' \in {"commit", "tail"} /\ batches' = batches + 1 /\ rpc' = rpc
            /\ Record(Committing(batches'))
        BY <2>3 DEF BeginCommit
      <3>2. /\ Committing(batches') \in OwnEntries /\ ~IsAck(Committing(batches'))
            /\ Committing(batches').state = "committing"
            /\ Committing(batches').batch = batches'
        BY <1>1, <3>1 DEF OwnEntries, Committing, IsAck
      <3>3. /\ RowsAreNumbers(journal')
            /\ RowsCommitted(journal') = RowsCommitted(journal) + 0
            /\ BatchesCommitted(journal') = BatchesCommitted(journal) + 0
            /\ \A i \in Acks(journal') : i \in Acks(journal)
            /\ \A i \in Acks(journal) : journal'[i] = journal[i]
            /\ \E i \in Attempts' : journal'[i].batch = batches' /\ \A j \in Attempts' : j <= i
            /\ Acks(stored') \subseteq Acks(journal')
            /\ \A i \in Acks(stored') : stored'[i] = journal'[i]
        BY <3>1, <3>2, RecordedCounts
      <3>4. rpc' # "idle"
        BY <1>5, <3>1 DEF JReceive
      <3>5. /\ AckedRows = 0 /\ AckedRows' = 0
            /\ One(acked) = 0 /\ One(acked)' = 0
            /\ One(AwaitsCommitter) = 0 /\ One(AwaitsCommitter)' = 1
            /\ acked' \in BOOLEAN /\ (acked' => landed')
        BY <1>1, <2>1, <2>4, <3>1 DEF AckedRows, AwaitsCommitter, One
      <3>20. Tallies'
        BY <1>1, <2>1, <3>1, <3>3, <3>5 DEF Books, Tallies
      <3>21. Marks'
        BY <1>1, <2>1, <3>1, <3>3, <3>4, <3>5 DEF Books, Marks
      <3>. QED
        BY <3>20, <3>21 DEF Books
    <2>. QED
      BY <1>5, <2>2, <2>3 DEF JReceive
  <1>6. CASE Acknowledge
    <2>1. /\ rpc = "running" /\ rpc' = rpc /\ batches' = batches
          /\ wpc \in {"commit", "tail"} /\ wpc' = wpc
          /\ landed /\ ~acked /\ acked'
          /\ UNCHANGED <<commit, writing, landed>>
          /\ Record(BatchCommitted(batches, Len(writing)))
      BY <1>1, <1>6 DEF Acknowledge, vars, writer
    <2>2. Len(writing) \in Nat
      BY LenProperties DEF IInv, CInv, TypeOK, RowsOK
    <2>3. batches = commit.batches_committed + 1
      BY <1>1, <2>1 DEF Books, Tallies, Marks, AwaitsCommitter, One
    <2> DEFINE e == BatchCommitted(batches, Len(writing))
    <2>4. /\ e \in OwnEntries /\ IsAck(e) /\ e.state = "batch_committed"
          /\ e.rows = Len(writing) /\ e.batch = batches
      BY <1>1, <2>2 DEF OwnEntries, BatchCommitted, IsAck
    <2> HIDE DEF e
    <2>5. /\ RowsAreNumbers(journal')
          /\ RowsCommitted(journal') = RowsCommitted(journal) + Len(writing)
          /\ BatchesCommitted(journal') = BatchesCommitted(journal) + 1
          /\ \A i \in Acks(journal') : i \in Acks(journal) \/ journal'[i] = e
          /\ \A i \in Acks(journal) : journal'[i] = journal[i]
          /\ Attempts' = Attempts /\ \A i \in Attempts : journal'[i] = journal[i]
          /\ Acks(stored') \subseteq Acks(journal')
          /\ \A i \in Acks(stored') : stored'[i] = journal'[i]
      <3>1. Record(e) /\ e.state # "committing"
        BY <2>1, <2>4 DEF e
      <3>. QED
        BY <2>4, <3>1, RecordedCounts
    <2>6. \A i \in Acks(journal') : journal'[i].batch \in 1 .. commit.batches_committed + 1
      <3>1. \A i \in Acks(journal) :
              journal'[i] = journal[i] /\ journal[i].batch \in 1 .. commit.batches_committed + 0
        BY <2>1, <2>5 DEF Books, Tallies, Marks, One
      <3>2. commit.batches_committed \in Nat
        BY <1>1
      <3>3. ASSUME NEW i \in Acks(journal')
            PROVE  journal'[i].batch \in 1 .. commit.batches_committed + 1
        <4>1. CASE i \in Acks(journal)
          BY <3>1, <3>2, <4>1
        <4>2. CASE journal'[i] = e
          BY <2>3, <2>4, <3>2, <4>2
        <4>. QED
          BY <2>5, <4>1, <4>2
      <3>. QED
        BY <3>3
    <2>7. /\ AckedRows = 0 /\ AckedRows' = Len(writing)
          /\ One(acked) = 0 /\ One(acked)' = 1
          /\ One(AwaitsCommitter)' = One(AwaitsCommitter)
          /\ acked' \in BOOLEAN /\ (acked' => landed')
      BY <1>6, <2>1 DEF AckedRows, One, AwaitsCommitter, Acknowledge
    <2>20. Tallies'
      <3>1. /\ RowsCommitted(journal) = commit.committed + 0
            /\ BatchesCommitted(journal) = commit.batches_committed + 0
            /\ batches = commit.batches_committed + commit.batches_failed + One(AwaitsCommitter)
        BY <2>7 DEF Books, Tallies
      <3>2. commit' = commit /\ batches' = batches
        BY <2>1
      <3>3. /\ RowsCommitted(journal') = commit.committed + Len(writing)
            /\ BatchesCommitted(journal') = commit.batches_committed + 1
        BY <1>1, <2>5, <3>1
      <3>. QED
        BY <2>7, <3>1, <3>2, <3>3 DEF Tallies
    <2>21. Marks'
      BY <1>1, <2>1, <2>2, <2>3, <2>5, <2>6, <2>7 DEF Books, Marks
    <2>. QED
      BY <2>20, <2>21 DEF Books
  <1>10. CASE JCommitOk
    <2>1. /\ UNCHANGED <<rpc, journal, stored, batches>> /\ rpc = "running"
          /\ wpc \in {"commit", "tail"} /\ wpc' \in {"recv", "done"}
          /\ commit' = [committed |-> commit.committed + Len(writing),
                        batches_committed |-> commit.batches_committed + 1,
                        batches_failed |-> commit.batches_failed]
          /\ acked /\ ~acked' /\ acked' \in BOOLEAN
      BY <1>10 DEF JCommitOk, CommitOk, CountAck
    <2>2. /\ AckedRows = Len(writing) /\ AckedRows' = 0
          /\ One(acked) = 1 /\ One(acked') = 0
      BY <2>1 DEF AckedRows, One
    <2>3. Len(writing) \in Nat
      BY <1>1
    <2>. QED
      BY <1>1, <2>1, <2>2, <2>3 DEF Books, Tallies, Marks, AwaitsCommitter, One, Attempts
  <1>11. CASE JLands
    <2>1. /\ UNCHANGED <<rpc, journal, stored, batches, commit, wpc, acked, writing>> /\ ~landed
      BY <1>11 DEF JLands, Lands, run
    <2>. QED
      BY <1>1, <2>1, NothingRecorded DEF AwaitsCommitter
  <1>7. CASE JCommitErr
    <2>1. /\ UNCHANGED <<rpc, journal, stored, batches>> /\ rpc = "running"
          /\ wpc \in {"commit", "tail"} /\ wpc' = "done"
          /\ commit' = [commit EXCEPT !.batches_failed = @ + 1]
          /\ ~acked /\ acked' = acked
      BY <1>7 DEF JCommitErr, CommitErr, run
    <2>2. AckedRows = 0 /\ AckedRows' = 0
      BY <2>1 DEF AckedRows
    <2>. QED
      BY <1>1, <2>1, <2>2 DEF Books, Tallies, Marks, AwaitsCommitter, One, Attempts
  <1>8. CASE End
    <2>1. /\ rpc' = "ended" /\ batches' = batches /\ commit' = commit /\ wpc' = wpc
          /\ Record(TerminalEntry) /\ UNCHANGED <<acked, landed, writing>>
      BY <1>8 DEF End, vars, writer
    <2>2. TerminalEntry \in OwnEntries /\ ~IsAck(TerminalEntry)
          /\ TerminalEntry.state # "committing"
      <3>1. counts.errors \in Nat /\ commit.batches_committed \in Nat
        BY DEF IInv, CInv, TypeOK, CountersOK
      <3>. QED
        BY <3>1 DEF TerminalEntry, OwnEntries, Completed, Incomplete, CommitFailed, IsAck
    <2>3. /\ RowsAreNumbers(journal')
          /\ RowsCommitted(journal') = RowsCommitted(journal) + 0
          /\ BatchesCommitted(journal') = BatchesCommitted(journal) + 0
          /\ \A i \in Acks(journal') : i \in Acks(journal)
          /\ \A i \in Acks(journal) : journal'[i] = journal[i]
          /\ Attempts' = Attempts /\ \A i \in Attempts : journal'[i] = journal[i]
          /\ Acks(stored') \subseteq Acks(journal')
          /\ \A i \in Acks(stored') : stored'[i] = journal'[i]
      BY <2>1, <2>2, RecordedCounts
    <2>4. AckedRows' = AckedRows /\ One(acked)' = One(acked)
          /\ One(AwaitsCommitter)' = One(AwaitsCommitter)
          /\ acked' \in BOOLEAN /\ (acked' => landed')
      BY <1>1, <2>1 DEF AckedRows, AwaitsCommitter
    <2>5. One(acked) \in Nat
      BY <1>1 DEF One
    <2>20. Tallies'
      BY <1>1, <2>1, <2>3, <2>4, <2>5 DEF Books, Tallies
    <2>21. Marks'
      BY <1>1, <2>1, <2>3, <2>4, <2>5 DEF Books, Marks
    <2>. QED
      BY <2>20, <2>21 DEF Books
  <1>9. CASE JReturned \/ UNCHANGED jvars
    <2>1. UNCHANGED <<rpc, journal, stored, batches, commit, wpc, acked, landed, writing>>
      BY <1>9 DEF JReturned, jvars, vars, run, writer
    <2>. QED
      BY <2>1, NothingRecorded DEF AwaitsCommitter
  <1>. QED
    BY <1>2, <1>3, <1>4, <1>5, <1>6, <1>7, <1>8, <1>9, <1>10, <1>11 DEF JNext

(* The books agree in every state of the run, besides what JInv says.       *)
LEMMA BooksInvariant == JSpec => [](JInv /\ IInv /\ Books)
  <1>. QED
    BY InitBooks, NextBooks, JournalInvariant, PTL DEF JSpec

(* The journal, the committer and the writer count the same batches and     *)
(* rows at every await but the save of an acknowledgement, where the        *)
(* journal is ahead by the batch that has just landed; and a terminal       *)
(* commit_failed carries the number of the attempt recorded last, which no  *)
(* acknowledgement has.                                                     *)
THEOREM TheBooksAgree == JSpec => []BooksAgree
  <1>1. ASSUME JInv, IInv, Books PROVE BooksAgree
    <2>1. /\ commit.batches_committed \in Nat /\ batches \in Nat
          /\ commit.batches_failed = IF commit_failure THEN 1 ELSE 0
          /\ commit_failure => wpc = "done" /\ ~acked
      BY <1>1 DEF JInv, IInv, CInv, TypeOK, StageOK, CountersOK, StagesAgree, Books, Tallies, Marks
    <2>2. SUFFICES ASSUME journal # <<>>, LastOwn(journal).state = "commit_failed"
                   PROVE  /\ Attempts # {}
                          /\ journal[Max(Attempts)].batch = LastOwn(journal).batch
                          /\ \A i \in Acks(journal) : journal[i].batch < LastOwn(journal).batch
      BY <1>1 DEF BooksAgree, Books, Tallies, Marks, AckedRows, AwaitsCommitter, Attempts, Acks
    <2>3. rpc = "ended" /\ Terminated(journal)
      BY <1>1, <2>2, OrdinaryIsOpen DEF JInv
    <2>4. LastOwn(journal) = TerminalEntry
      <3>1. PICK g \in Seq(OwnEntries) : Ordinary(g) /\ journal = Append(g, TerminalEntry)
        BY <2>3 DEF Terminated
      <3>2. TerminalEntry \in OwnEntries /\ ~IsClosure(TerminalEntry)
        <4>1. counts.errors \in Nat
          BY <1>1 DEF IInv, CInv, TypeOK, CountersOK
        <4>. QED
          BY <2>1, <4>1 DEF TerminalEntry, OwnEntries, IsClosure, Completed, Incomplete, CommitFailed
      <3>. QED
        BY <3>1, <3>2, TerminalSpeaks
    <2>5. commit_failure /\ LastOwn(journal).batch = commit.batches_committed + 1
      BY <2>2, <2>4 DEF TerminalEntry, Completed, Incomplete, CommitFailed
    <2>6. batches = LastOwn(journal).batch /\ batches > 0
      BY <1>1, <2>1, <2>5 DEF Books, Tallies, Marks, AwaitsCommitter, One
    <2>7. PICK i \in Attempts : journal[i].batch = batches /\ \A j \in Attempts : j <= i
      BY <1>1, <2>6 DEF Books, Tallies, Marks
    <2>8. Max(Attempts) = i
      <3>1. Attempts \subseteq Nat
        BY <1>1, LenProperties DEF JInv, Attempts
      <3>. QED
        BY <2>7, <3>1, Greatest
    <2>9. \A k \in Acks(journal) : journal[k].batch < LastOwn(journal).batch
      BY <1>1, <2>1, <2>5 DEF Books, Tallies, Marks, One
    <2>. QED
      BY <2>6, <2>7, <2>8, <2>9
  <1>. QED
    BY <1>1, BooksInvariant, PTL

(* Whatever a kill leaves in the bucket, with any of the saves lost, claims *)
(* no more rows than the catalog holds.                                     *)
THEOREM StoredUnderReports == JSpec => []JournalUnderReports
  <1>1. ASSUME JInv, IInv, Books PROVE JournalUnderReports
    <2>1. /\ journal \in Seq(OwnEntries) /\ stored \in Seq(OwnEntries)
          /\ RowsCommitted(journal) <= Len(catalog) /\ Len(catalog) \in Nat
      <3>1. /\ commit.committed \in Nat /\ Len(catalog) \in Nat /\ Len(writing) \in Nat
            /\ landed => ~commit_failure
        BY <1>1, LenProperties
        DEF IInv, CInv, TypeOK, CountersOK, RowsOK, StagesAgree
      <3>2. commit.committed + AckedRows <= Len(catalog)
        BY <1>1, <3>1 DEF IInv, Books, Tallies, Marks, AckedRows, MissingRowsBounded
      <3>. QED
        BY <1>1, <3>1, <3>2 DEF JInv, Books, Tallies, Marks
    <2>2. RowsCommitted(stored) <= RowsCommitted(journal) /\ RowsCommitted(stored) \in Nat
      BY <1>1, <2>1, FewerAcksCountLess, CountsAreNumbers DEF Books, Tallies, Marks
    <2>3. RowsCommitted(journal) \in Nat
      BY <1>1, <2>1, CountsAreNumbers DEF Books, Tallies, Marks
    <2>. QED
      BY <2>1, <2>2, <2>3 DEF JournalUnderReports
  <1>. QED
    BY <1>1, BooksInvariant, PTL

-----------------------------------------------------------------------------
(* The report of a run *)

(* Until a batch is acknowledged, fails or waits for its answer, the        *)
(* catalog has no row.                                                      *)
RowsComeWithAnAck ==
    commit_failure \/ landed \/ commit.batches_committed > 0 \/ catalog = <<>>

(* The invariant of the report.                                             *)
RInv == IInv /\ RowsComeWithAnAck

(* Only the end of a commit changes what RowsComeWithAnAck speaks of.       *)
LEMMA NextRowsComeWithAnAck ==
    ASSUME IInv, RowsComeWithAnAck, [Next]_vars PROVE RowsComeWithAnAck'
  <1>1. CASE CommitOk
    <2>1. commit.batches_committed \in Nat
      BY DEF IInv, CInv, TypeOK, CountersOK
    <2>2. commit'.batches_committed = commit.batches_committed + 1
      BY <1>1 DEF CommitOk, CountAck
    <2>. QED
      BY <2>1, <2>2 DEF RowsComeWithAnAck
  <1>2. CASE Lands \/ CommitErr
    BY <1>2 DEF Lands, CommitErr, RowsComeWithAnAck
  <1>3. CASE RecvRow \/ RecvClosed \/ Producer \/ (\E f \in Files : WorkerReturns(f))
             \/ Returned \/ UNCHANGED vars
    <2>1. UNCHANGED <<commit, commit_failure, landed, catalog>>
      BY <1>3 DEF RecvRow, RecvClosed, Producer, Join, ProducerStart, JoinRow, JoinNoRow,
                  SendRow, SendFails, ProducerDone, WorkerReturns, Returned, vars, writer
    <2>. QED
      BY <2>1 DEF RowsComeWithAnAck
  <1>. QED
    BY <1>1, <1>2, <1>3 DEF Next, Writer, Commit

(* The invariant of the report holds in every state of a run.               *)
THEOREM ReportInvariance == Spec => []RInv
  <1>1. Init => RowsComeWithAnAck
    BY DEF Init, RowsComeWithAnAck
  <1>2. IInv /\ RowsComeWithAnAck /\ [Next]_vars => RowsComeWithAnAck'
    BY NextRowsComeWithAnAck
  <1>. QED
    BY <1>1, <1>2, Invariance, PTL DEF Spec, RInv

(* Counter and error agree on whether a commit failed.                      *)
LEMMA FailureIsCounted ==
    ASSUME IInv PROVE CatalogCommit = "failed" <=> commit_failure
  <1>1. commit.batches_failed = IF commit_failure THEN 1 ELSE 0
    BY DEF IInv, CInv, StagesAgree
  <1>. QED
    BY <1>1 DEF CatalogCommit

(* What the closing line of the human report was printed from.              *)
LEMMA FailureHeadlines ==
    ASSUME IInv
    PROVE  /\ Headline = "run_again" => Status = "commit_failed"
           /\ Headline = "ingested" => Status = "success" /\ HasCommitter
  <1>1. NumFiles \in Nat
    BY PipelineAssumption
  <1>2. CASE NumFiles = 0
    <2>1. Headline = "nothing_to_ingest"
      BY <1>2 DEF Headline
    <2>. QED
      BY <2>1
  <1>3. CASE NumFiles > 0
    <2>1. NumFiles # 0
      BY <1>3
    <2>. QED
      BY <1>3, <2>1 DEF Headline, Status
  <1>. QED
    BY <1>1, <1>2, <1>3

(* When the run returned, what the summary and the exit status say of it is *)
(* true of the candidates and of the catalog (output.rs).                   *)
THEOREM ReportsAreTrue == Spec => []ReportIsTrue
  <1>1. ASSUME RInv, NoSilentLoss, Finished PROVE ReportIsTrue
    <2>. USE <1>1 DEF RInv
    <2>1. /\ counts.observed \in Nat /\ counts.unchanged \in Nat /\ counts.errors \in Nat
          /\ commit.committed \in Nat /\ commit.batches_committed \in Nat
          /\ Len(catalog) \in Nat
      BY LenProperties DEF IInv, CInv, TypeOK, CountersOK, RowsOK
    <2>2. /\ counts.observed + counts.unchanged + counts.errors + 0 = taken
          /\ counts.observed = Len(produced)
      BY FS_EmptySet DEF IInv, Accounting, Finished
    <2>3. commit.committed <= Len(catalog) /\ ~landed
      <3>1. ~landed
        BY DEF IInv, CInv, StagesAgree, Finished
      <3>. QED
        BY <2>1, <3>1 DEF IInv, MissingRowsBounded
    <2>4. /\ Status = "success" <=> ExitStatus = "ok"
          /\ Status = "commit_failed" <=> ExitStatus = "commit_failed"
      BY FailureIsCounted DEF Status, ExitStatus
    <2>5. ASSUME ExitStatus = "ok"
          PROVE  /\ counts.observed + counts.unchanged = NumFiles
                 /\ HasCommitter => catalog = produced
      <3>1. ~commit_failure /\ counts.errors = 0
        BY <2>1, <2>5 DEF ExitStatus
      <3>2. taken = NumFiles
        BY <3>1 DEF IInv, CInv, StagesAgree, Finished
      <3>. QED
        BY <2>1, <2>2, <3>1, <3>2, WellEnded
    <2>6. ASSUME CatalogCommit = "not_attempted" PROVE catalog = <<>>
      <3>1. ~commit_failure /\ commit.batches_committed = 0
        BY <2>1, <2>6, FailureIsCounted DEF CatalogCommit
      <3>. QED
        BY <2>3, <3>1 DEF RowsComeWithAnAck
    <2>7. Len(produced) - Len(catalog) <= UncommittedRows
      BY <2>1, <2>2, <2>3 DEF UncommittedRows
    <2>8. ASSUME HasCommitter, CatalogCommit # "failed" PROVE UncommittedRows = 0
      <3>1. ~commit_failure
        BY <2>8, FailureIsCounted
      <3>2. catalog = produced
        BY <2>8, <3>1, WellEnded
      <3>3. Len(catalog) = commit.committed + 0
        BY <2>3, <3>1 DEF IInv, MissingRowsBounded
      <3>. QED
        BY <2>1, <2>2, <3>2, <3>3 DEF UncommittedRows
    <2>9. CommitLine = "FAILED" <=> Status = "commit_failed"
      <3>1. commit.batches_failed = IF commit_failure THEN 1 ELSE 0
        BY DEF IInv, CInv, StagesAgree
      <3>2. CommitLine = "FAILED" <=> commit_failure
        BY <2>1, <3>1 DEF CommitLine
      <3>3. Status = "commit_failed" <=> commit_failure
        BY FailureIsCounted DEF Status
      <3>. QED
        BY <3>2, <3>3
    <2>10. ASSUME CommitLine = "none" PROVE catalog = <<>>
      <3>1. commit.batches_failed = IF commit_failure THEN 1 ELSE 0
        BY DEF IInv, CInv, StagesAgree
      <3>2. ~commit_failure /\ commit.batches_committed = 0
        BY <2>1, <2>10, <3>1 DEF CommitLine
      <3>. QED
        BY <2>3, <3>2 DEF RowsComeWithAnAck
    <2>11. /\ Headline = "run_again" => commit_failure
           /\ Headline = "ingested" => ExitStatus = "ok" /\ catalog = produced
      BY FailureHeadlines, FailureIsCounted, <2>4, <2>5 DEF Status
    <2>12. ASSUME counts.skipped > 0 PROVE Headline = "run_again"
      <3>1. /\ taken + counts.skipped = NumFiles /\ taken \in 0 .. NumFiles
            /\ counts.skipped \in Nat
        BY DEF IInv, CInv, Accounting, Finished, TypeOK, PoolOK, CountersOK
      <3>2. NumFiles \in Nat /\ NumFiles > 0 /\ taken # NumFiles
        BY <2>12, <3>1, PipelineAssumption
      <3>3. commit_failure
        BY <3>2 DEF IInv, CInv, StagesAgree, Finished
      <3>. QED
        BY <3>2, <3>3, FailureIsCounted DEF Headline, Status
    <2>. QED
      BY <2>4, <2>5, <2>6, <2>7, <2>8, <2>9, <2>10, <2>11, <2>12 DEF ReportIsTrue
  <1>2. RInv /\ NoSilentLoss => ReportIsTrue
    BY <1>1 DEF ReportIsTrue
  <1>. QED
    BY <1>2, ReportInvariance, NothingLostSilently, PTL
=============================================================================
