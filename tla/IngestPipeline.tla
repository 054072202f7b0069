--------------------------- MODULE IngestPipeline ---------------------------
(***************************************************************************)
(* The bounded two-stage pipeline of one ingest run (ingest/pipeline.rs).  *)
(*                                                                         *)
(*   files --> JoinSet of worker tasks --> channel --> writer --> catalog  *)
(*                                                                         *)
(* Producer and writer are two futures of one task (tokio::join!): they    *)
(* interleave at their awaits, so an action is the code between two        *)
(* awaits.  The workers are tasks of their own and may return at any time. *)
(*                                                                         *)
(* A file is its position in the candidate list, and an observation row is *)
(* the file it describes.  What a worker does to a file is the subject of  *)
(* CasUpload; here it returns one of Results.  The committer is generic,   *)
(* as in the code: a call returns Ok, or Err with the rows in the catalog  *)
(* or not (an unacknowledged commit).                                      *)
(***************************************************************************)
EXTENDS Naturals, Sequences, FiniteSets

CONSTANTS
    NumFiles,      \* candidates selected by collect_files
    Concurrency,   \* --concurrency
    BatchSize,     \* --batch-size: rows per commit, and channel capacity
    HasCommitter   \* ingest mode; FALSE in the preview modes

ASSUME PipelineAssumption ==
    /\ NumFiles \in Nat
    /\ Concurrency \in Nat \ {0}
    /\ BatchSize \in Nat \ {0}
    /\ HasCommitter \in BOOLEAN

Files == 1 .. NumFiles
NoRow == 0

(* What a worker task hands back through the JoinSet: an IngestOutcome, a   *)
(* per-file error, or a JoinError after a panic.                            *)
Results == [kind : {"observed", "unchanged"}, blob : {"uploaded", "existing"}]
             \cup [kind : {"error", "panic"}, blob : {"none"}]
NoResult == [kind |-> "none", blob |-> "none"]

VARIABLES
    taken,     \* files handed to the pool: `pending` is what follows
    inSet,     \* files whose task is in the JoinSet
    result,    \* result of a finished task that was not joined yet
    ppc,       \* where the producer awaits: "start", "join", "send", "done"
    hand,      \* the row the producer is sending
    channel,   \* rows in the mpsc channel
    txOpen,    \* the producer still holds the sender
    rxOpen,    \* the writer still holds the receiver
    wpc,       \* the writer: "recv", "commit", "tail" (last commit), "done"
    batch,     \* rows accumulated by the writer
    writing,   \* rows of the commit in flight
    landed,    \* the catalog has them, the writer has no answer yet
    stop,      \* the flag the writer raises
    counts,    \* IngestCounts and the length of `errors`
    commit,    \* CommitCounts
    commit_failure,
    produced,  \* history: the rows tally returned, in that order
    catalog    \* rows of this run the catalog table holds, in append order

pool     == <<taken, inSet, result>>
producer == <<ppc, hand, txOpen, produced>>
writer   == <<wpc, rxOpen, batch, writing, landed, stop, commit, commit_failure, catalog>>
vars     == <<pool, producer, writer, channel, counts>>

-----------------------------------------------------------------------------
(* Start and end of a run *)

Init ==
    /\ taken = 0 /\ inSet = {} /\ result = [f \in Files |-> NoResult]
    /\ ppc = "start" /\ hand = NoRow
    /\ channel = <<>> /\ txOpen = HasCommitter /\ rxOpen = HasCommitter
    /\ wpc = IF HasCommitter THEN "recv" ELSE "done"
    /\ batch = <<>> /\ writing = <<>> /\ landed = FALSE /\ stop = FALSE
    /\ counts = [observed |-> 0, unchanged |-> 0, uploaded |-> 0,
                 already_exists |-> 0, errors |-> 0, skipped |-> 0]
    /\ commit = [committed |-> 0, batches_committed |-> 0, batches_failed |-> 0]
    /\ commit_failure = FALSE
    /\ produced = <<>> /\ catalog = <<>>

Finished == ppc = "done" /\ wpc = "done"

(* Both futures of the join! are done: run_pipeline returned its report.    *)
Returned == Finished /\ UNCHANGED vars

-----------------------------------------------------------------------------
(* The producer *)

Least(m, n) == IF m < n THEN m ELSE n

RoomIgnoringStop(set) == Least(Concurrency - Cardinality(set), NumFiles - taken)

(* How many files the spawn loop starts when `set` is in the JoinSet.       *)
Room(set) ==
    IF stop THEN 0 ELSE Least(Concurrency - Cardinality(set), NumFiles - taken)

(* One pass of the loop ends: spawn, then wait for the next joined task.    *)
Refill(set) ==
    /\ inSet' = set \cup (taken + 1 .. taken + Room(set))
    /\ taken' = taken + Room(set)
    /\ ppc' = "join"

ProducerStart ==
    /\ ppc = "start"
    /\ Refill(inSet)
    /\ UNCHANGED <<result, hand, txOpen, produced, writer, channel, counts>>

WorkerReturns(f) ==
    /\ f \in inSet /\ result[f] = NoResult
    /\ \E r \in Results : result' = [result EXCEPT ![f] = r]
    /\ UNCHANGED <<taken, inSet, producer, writer, channel, counts>>

One(condition) == IF condition THEN 1 ELSE 0

(* tally, and the two ways a joined task becomes an entry of `errors`.      *)
Tally(r) ==
    [observed  |-> counts.observed + One(r.kind = "observed"),
     unchanged |-> counts.unchanged + One(r.kind = "unchanged"),
     uploaded  |-> counts.uploaded + One(r.blob = "uploaded"),
     already_exists |-> counts.already_exists + One(r.blob = "existing"),
     errors    |-> counts.errors + One(r.kind \in {"error", "panic"}),
     skipped   |-> counts.skipped]

(* join_next yields a task that produced a row: the producer goes on to     *)
(* `tx.send(row).await`.  Without a committer there is no channel and the   *)
(* row is counted and dropped.                                              *)
JoinRow(f) ==
    /\ ppc = "join" /\ f \in inSet /\ result[f].kind = "observed"
    /\ counts' = Tally(result[f])
    /\ produced' = Append(produced, f)
    /\ result' = [result EXCEPT ![f] = NoResult]
    /\ IF HasCommitter
         THEN /\ ppc' = "send" /\ hand' = f
              /\ inSet' = inSet \ {f} /\ taken' = taken
         ELSE /\ Refill(inSet \ {f}) /\ hand' = hand
    /\ UNCHANGED <<txOpen, writer, channel>>

(* ... or one without a row: unchanged, failed or panicked.                 *)
JoinNoRow(f) ==
    /\ ppc = "join" /\ f \in inSet /\ result[f] # NoResult
    /\ result[f].kind # "observed"
    /\ counts' = Tally(result[f])
    /\ result' = [result EXCEPT ![f] = NoResult]
    /\ Refill(inSet \ {f})
    /\ UNCHANGED <<hand, txOpen, produced, writer, channel>>

(* The capacity of the channel: `send` waits while it is full.              *)
ChannelHasRoom == Len(channel) < BatchSize

SendRowOrDrop ==
    /\ ppc = "send" /\ rxOpen
    /\ channel' = IF ChannelHasRoom THEN Append(channel, hand) ELSE channel
    /\ hand' = NoRow
    /\ Refill(inSet)
    /\ UNCHANGED <<result, txOpen, produced, writer, counts>>

SendRow ==
    /\ ppc = "send" /\ rxOpen /\ ChannelHasRoom
    /\ channel' = Append(channel, hand) /\ hand' = NoRow
    /\ Refill(inSet)
    /\ UNCHANGED <<result, txOpen, produced, writer, counts>>

SendWaitsForever == ppc = "send" /\ ~rxOpen /\ UNCHANGED vars

(* The receiver is gone: send fails, the error is ignored, the row stays    *)
(* one of the `observed - committed`.                                       *)
SendFails ==
    /\ ppc = "send" /\ ~rxOpen
    /\ hand' = NoRow
    /\ Refill(inSet)
    /\ UNCHANGED <<result, txOpen, produced, writer, channel, counts>>

SkippedMisses == 0

(* `pending.count()` when join_next found the set empty.                    *)
Skipped == NumFiles - taken

ProducerDone ==
    /\ ppc = "join" /\ inSet = {}
    /\ counts' = [counts EXCEPT !.skipped = Skipped]
    /\ txOpen' = FALSE /\ ppc' = "done"
    /\ UNCHANGED <<pool, hand, produced, writer, channel>>

-----------------------------------------------------------------------------
(* The writer *)

BatchIsFull(rows) == Len(rows) >= BatchSize

(* recv, push, and when the batch is full the call of `flush`, which takes  *)
(* the batch and awaits the committer.                                      *)
RecvRow ==
    /\ wpc = "recv" /\ channel # <<>>
    /\ channel' = Tail(channel)
    /\ LET rows == Append(batch, Head(channel)) IN
         IF BatchIsFull(rows)
           THEN wpc' = "commit" /\ writing' = rows /\ batch' = <<>>
           ELSE wpc' = "recv" /\ writing' = writing /\ batch' = rows
    /\ UNCHANGED <<pool, producer, rxOpen, landed, stop, commit, commit_failure, catalog, counts>>

RecvClosedDropsTail ==
    /\ wpc = "recv" /\ channel = <<>> /\ ~txOpen
    /\ wpc' = "done" /\ rxOpen' = FALSE
    /\ UNCHANGED <<pool, producer, batch, writing, landed, stop, commit, commit_failure,
                   catalog, channel, counts>>

(* The channel is empty and closed: flush the tail, or return.              *)
RecvClosed ==
    /\ wpc = "recv" /\ channel = <<>> /\ ~txOpen
    /\ IF batch # <<>>
         THEN wpc' = "tail" /\ writing' = batch /\ batch' = <<>> /\ rxOpen' = rxOpen
         ELSE wpc' = "done" /\ UNCHANGED <<writing, batch>> /\ rxOpen' = FALSE
    /\ UNCHANGED <<pool, producer, landed, stop, commit, commit_failure, catalog, channel, counts>>

(* The catalog appends the rows, all or none, before it has answered.       *)
Lands ==
    /\ wpc \in {"commit", "tail"} /\ ~landed
    /\ landed' = TRUE /\ catalog' = catalog \o writing
    /\ UNCHANGED <<pool, producer, wpc, rxOpen, batch, writing, stop, commit, commit_failure,
                   channel, counts>>

AckOffByOne ==
    commit' = [committed |-> commit.committed + BatchSize,
               batches_committed |-> commit.batches_committed + 1,
               batches_failed |-> commit.batches_failed]

(* What flush counts when the committer returns Ok.                         *)
CountAck ==
    commit' = [committed |-> commit.committed + Len(writing),
               batches_committed |-> commit.batches_committed + 1,
               batches_failed |-> commit.batches_failed]

CommitOk ==
    /\ wpc \in {"commit", "tail"} /\ landed
    /\ writing' = <<>> /\ landed' = FALSE
    /\ CountAck
    /\ IF wpc = "tail" THEN wpc' = "done" /\ rxOpen' = FALSE
                       ELSE wpc' = "recv" /\ rxOpen' = rxOpen
    /\ UNCHANGED <<pool, producer, batch, stop, commit_failure, catalog, channel, counts>>

NoStopFlag == stop' = stop /\ rxOpen' = FALSE /\ channel' = <<>>

(* writer_stage returns on the first error: stop is raised and the receiver *)
(* dropped, with the rows still in the channel.                             *)
StopRun == stop' = TRUE /\ rxOpen' = FALSE /\ channel' = <<>>

(* The committer returns Err, whether the rows have landed or not.          *)
CommitErr ==
    /\ wpc \in {"commit", "tail"}
    /\ writing' = <<>> /\ landed' = FALSE
    /\ commit' = [commit EXCEPT !.batches_failed = @ + 1]
    /\ commit_failure' = TRUE
    /\ StopRun
    /\ wpc' = "done"
    /\ UNCHANGED <<pool, producer, batch, catalog, counts>>

-----------------------------------------------------------------------------

Join     == \E f \in Files : JoinRow(f) \/ JoinNoRow(f)
Producer == ProducerStart \/ Join \/ SendRow \/ SendFails \/ ProducerDone
Commit   == Lands \/ CommitOk \/ CommitErr
Writer   == RecvRow \/ RecvClosed \/ Commit

Next == Producer \/ (\E f \in Files : WorkerReturns(f)) \/ Writer \/ Returned

Spec == Init /\ [][Next]_vars
-----------------------------------------------------------------------------
(* Properties *)

Opt(row) == IF row = NoRow THEN <<>> ELSE <<row>>

Unstored == IF landed THEN <<>> ELSE writing

(* Rows that tally returned and the catalog does not have, oldest first.    *)
InFlight == Unstored \o batch \o channel \o Opt(hand)

(* At most Concurrency tasks, all of them files already taken.              *)
PoolOK ==
    /\ taken \in 0 .. NumFiles
    /\ inSet \subseteq 1 .. taken /\ Cardinality(inSet) <= Concurrency
    /\ result \in [Files -> Results \cup {NoResult}]
    /\ \A f \in Files : f \notin inSet => result[f] = NoResult

StageOK ==
    /\ ppc \in {"start", "join", "send", "done"}
    /\ wpc \in {"recv", "commit", "tail", "done"}
    /\ txOpen \in BOOLEAN /\ rxOpen \in BOOLEAN /\ landed \in BOOLEAN
    /\ stop \in BOOLEAN /\ commit_failure \in BOOLEAN

(* A channel of BatchSize rows, and a batch that never reaches BatchSize.   *)
RowsOK ==
    /\ hand \in Files \cup {NoRow} /\ (ppc = "send" <=> hand # NoRow)
    /\ channel \in Seq(Files) /\ Len(channel) <= BatchSize
    /\ batch \in Seq(Files) /\ Len(batch) < BatchSize
    /\ writing \in Seq(Files) /\ Len(writing) <= BatchSize
    /\ produced \in Seq(Files) /\ catalog \in Seq(Files)

CountersOK ==
    /\ counts \in [observed : Nat, unchanged : Nat, uploaded : Nat,
                   already_exists : Nat, errors : Nat, skipped : Nat]
    /\ commit \in [committed : Nat, batches_committed : Nat, batches_failed : Nat]

(* Shape of the state, with the bounds the pool and the backpressure keep.  *)
TypeOK == PoolOK /\ StageOK /\ RowsOK /\ CountersOK

(* No candidate is lost or counted twice, at any moment of any              *)
(* interleaving: every file handed to the pool is in the JoinSet or in      *)
(* exactly one of observed, unchanged and errors, panics included; the blob *)
(* axis adds up to the same number; and a report's `skipped` is exactly the *)
(* files that were never started.                                           *)
Accounting ==
    /\ counts.observed + counts.unchanged + counts.errors + Cardinality(inSet) = taken
    /\ counts.uploaded + counts.already_exists = counts.observed + counts.unchanged
    /\ counts.observed = Len(produced)
    /\ ppc = "done" => inSet = {} /\ taken + counts.skipped = NumFiles

(* What the two futures may conclude from each other's position.  The       *)
(* sender lives until the producer is done, the receiver until the writer   *)
(* is; `stop` is raised exactly by a failed commit; the writer ends well    *)
(* only after the producer, with nothing left behind; and while `stop` is   *)
(* down the pool is full or every file has been started, so that a producer *)
(* that finds the JoinSet empty has no file left to skip.                   *)
StagesAgree ==
    /\ txOpen <=> HasCommitter /\ ppc # "done"
    /\ rxOpen <=> wpc # "done"
    /\ stop <=> commit_failure
    /\ commit.batches_failed = IF commit_failure THEN 1 ELSE 0
    /\ commit_failure => wpc = "done"
    /\ wpc \in {"commit", "tail"} <=> writing # <<>>
    /\ wpc \in {"commit", "tail"} => batch = <<>>
    /\ landed => wpc \in {"commit", "tail"}
    /\ wpc = "tail" => ppc = "done" /\ channel = <<>>
    /\ wpc = "done" => channel = <<>>
    /\ wpc = "done" /\ HasCommitter /\ ~commit_failure => ppc = "done" /\ batch = <<>>
    /\ ~HasCommitter => wpc = "done" /\ hand = NoRow
    /\ ppc = "join" /\ ~stop => Cardinality(inSet) = Concurrency \/ taken = NumFiles
    /\ ppc = "done" /\ ~stop => taken = NumFiles

(* Until a commit fails, the rows produced are the rows in the catalog, in  *)
(* the writer, in the channel and in the producer's hand, in that order:    *)
(* the stages neither lose, duplicate nor reorder a row.                    *)
RowsConserved ==
    HasCommitter /\ ~commit_failure => produced = catalog \o InFlight

(* No file is described by two rows of one run, and a file whose task is    *)
(* still in the pool by none.                                               *)
OneRowPerFile ==
    /\ \A i, j \in DOMAIN produced : i # j => produced[i] # produced[j]
    /\ \A i \in DOMAIN produced : produced[i] \in 1 .. taken \ inSet

(* A run that returns without a commit failure has every candidate          *)
(* accounted for and every row it produced acknowledged and in the catalog. *)
(* This is what lets the run write `completed`.                             *)
NoSilentLoss ==
    Finished /\ HasCommitter /\ ~commit_failure =>
        /\ catalog = produced
        /\ commit.committed = counts.observed
        /\ counts.skipped = 0
        /\ counts.observed + counts.unchanged + counts.errors = NumFiles

(* CommitCounts: acknowledged rows are in the catalog, the catalog exceeds  *)
(* them by at most one batch, the one that failed or whose answer is on its *)
(* way, and what it holds is the beginning of what was produced;            *)
(* `observed - committed` bounds the missing rows.                          *)
MissingRowsBounded ==
    /\ IF commit_failure
         THEN Len(catalog) - commit.committed \in 0 .. BatchSize
         ELSE Len(catalog) = commit.committed + (IF landed THEN Len(writing) ELSE 0)
    /\ Len(catalog) <= Len(produced)
    /\ catalog = SubSeq(produced, 1, Len(catalog))

(* Memory stays bounded: the rows of a batch being written or accumulated,  *)
(* of a full channel, in the producer's hand and in finished tasks that     *)
(* nobody has joined are at most two batches and one row for each task the  *)
(* pool may hold; the row in the producer's hand keeps a task's place.      *)
BufferedRowsBounded ==
    Len(writing) + Len(batch) + Len(channel) + One(hand # NoRow)
      + Cardinality({f \in inSet : result[f].kind = "observed"})
    <= 2 * BatchSize + Concurrency

(* The first commit error ends the run's effects: no further row reaches    *)
(* the catalog and no further file is started.                              *)
FailureIsFinal ==
    [][commit_failure => UNCHANGED <<catalog, commit, taken>>]_vars

(* The pipeline implements RowLedger.                                       *)
Ledger == INSTANCE RowLedger WITH
    Rows <- Files, MaxBatch <- BatchSize,
    rows <- produced, stored <- catalog,
    status <- IF commit_failure THEN "failed"
              ELSE IF Finished THEN "finished" ELSE "running"

(* Every step of the pipeline is a step RowLedger allows (or none of its    *)
(* business): rows reach the catalog once, in order and in batches, and the *)
(* run finishes only with all of them there.                                *)
ImplementsLedger == Ledger!Spec
=============================================================================
