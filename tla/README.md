# anti_entropator in TLA+

TLA+ models of `anti_entropator` (ingest and its journals, bootstrap, the checks of `doctor` and `up`, scan, profile
and the `runs` view), the TLC runs that check them on small instances, and TLAPS proofs of the results that matter most. The models are
translated from the Rust source; the line ranges each definition stands for are in
`PROJECT.json` under `map`. Paths in this file are relative to the repository root.

## 1. The system

`anti_entropator` catalogues files. `ingest` walks a source directory, hashes each
file, uploads its bytes to a content-addressed (CAS) bucket and appends one
*observation row* for each new or changed file to an Iceberg table. A repeated ingest
of an unchanged tree appends nothing. A per-run *journal* object in the bucket
says what became of a run, so that a rerun can tell a completed predecessor from an
interrupted one.

| Component (code) | State it keeps | Operations | Where it is hard |
|---|---|---|---|
| Pipeline, `src/ingest/pipeline.rs` | candidate iterator, JoinSet, bounded channel, batch, stop flag, counters | fill the pool, join a task, tally, send, receive, flush, stop | two futures of one task plus worker tasks; a failed commit while the producer is sending; panics; end of input |
| Per-file work, `src/ingest/mod.rs` `process_file`, `src/ingest/upload.rs` | one file's scan result; CAS objects | stat, hash, decide, verify, conditional upload, rescan | files change between and during every read; two workers race for one key |
| Run journal, `src/ingest/journal.rs` | history of a run, in memory and as an object | start, record, close; `outcome`, `is_open`, `rows_committed` | any save may be lost, the process may be killed anywhere |
| Committer, `src/ingest/mod.rs` `JournaledCommitter` | batch counter | journal entry, commit, journal entry | unacknowledged commits |
| Catalog state, `src/ingest/state.rs` | none: reads the table | latest row of each path, rows of a run, decide | read once per run; ordered by a wall clock |
| Recovery, `src/ingest/mod.rs` `run`, `report_open_runs`, `supersede_open_runs` | open runs it found | reconcile, run, supersede | kill or failure at each step, commits that land late |
| Iceberg writer, `src/lakehouse/writer.rs` | none | Parquet file, append transaction | an append is atomic but its answer may be lost |
| Bootstrap, `src/lakehouse/mod.rs` `init` | state file with the project id | look up and create bucket, project, warehouse, namespace, table; check the schema | killed between steps, answers lost, two at once, stack reset under a kept state file |
| Candidates, `src/ingest/mod.rs` `collect_files` | list of candidates | walk, filter, limit | order of filters, limit and failures |
| Report, `src/ingest/output.rs` | none | summary, status, exit code, human report | the fate of the commits is told four times, from the counters and from the error |
| Scan, `src/scan/mod.rs`, `src/scan/enrichers.rs` | one pass's list and failures; one file's metadata | stat, type, two hashes, an external tool | separate reads of a file that changes; tools that hang |
| Rows, `src/domain/file_info.rs`, `src/domain/observation.rs`, `src/lakehouse/schema.rs` | none | identity, columns, decision | columns meet the schema by position only |
| Profile, `src/profile/scanner.rs`, `src/domain/stats.rs` | counters and group statistics of one pass | walk, aggregate, hash | boundaries of caps and limits |
| Runs, `src/runs/mod.rs` | none: reads the journals | list, show, advise | what it says must be true at any time |
| Doctor, `src/doctor/mod.rs`, and `up`, `check_up` in `src/lakehouse/mod.rs` | none: ask the stack | checks and verdicts | three codes for one question; addresses from the configuration |
| Query, CLI, storage operator | none | read-only command, declarations | I/O |

Interactions. `run` loads the catalog state, reads and reconciles open journals, starts
its own, drives the pipeline, writes the terminal entry and closes what it supersedes.
The pipeline calls `process_file` in tasks and hands rows through the channel to the
writer, which calls the `JournaledCommitter`, which writes the journal before
and after it calls the Iceberg writer. `runs` reads the same journals. All commands find the catalog by the project id
`init` has saved, and all but `doctor` find the services through `LakehouseConfig`.

## 2. Modules

| Module | Models | Kind |
|---|---|---|
| `RowLedger` | what a run promises of its rows: once, in order, all of them or a reported failure | abstract specification |
| `IngestPipeline` | `run_pipeline`, `tally`, `writer_stage`, `flush` | component; implements `RowLedger` |
| `RunJournal` | entries of a journal, the operators that read one, and the `runs` command's view of them | operators |
| `JournaledRun` | pipeline, committer, journal writer and terminal entry of one run | composition of the two above |
| `CasUpload` | `process_file` of all workers over changing files and a shared bucket | component |
| `IngestRecovery` | successive runs over catalog and journals; inside a run the ledger stands for the pipeline | component, uses `RunJournal` |
| `OverlappingIngests` | two ingest processes at once over one catalog and bucket | composition of two instances of `IngestRecovery` |
| `Bootstrap` | `init` and the resolution of the project id | component |
| `Preflight` | the checks of `doctor`, `up` and `init` and their verdicts | component |
| `RunReport` | summary, exit status and human report of a run | operators over a state of `IngestPipeline` |
| `TreeWalk` | `collect_files`, the loop of `scan`, and the profiler, over one walk | component |
| `Observation` | how one file becomes a row: `scan_file`, `prepare_file`, the decision, columns and schema, the state read back | component, uses `Enrichers` |
| `Enrichers` | what the answers of exiftool, ffprobe and pdfinfo become | operators |
| `JournaledRunProofs` | theorems about one run: `IngestPipeline`, `JournaledRun`, `RunReport` | proofs |
| `RunJournalProofs` | lemmas on journals, sums and finite sets | proofs |
| `CasUploadProofs`, `IngestRecoveryProofs`, `OverlappingIngestsProofs`, `ObservationProofs`, `TreeWalkProofs` | theorems about the module of that name | proofs |
| `BootstrapProofs` | theorems about `Bootstrap` and `Preflight` | proofs |
| `MC*` | instances for TLC | |

### IngestPipeline

A file is its position in the candidate list, a row is the file it describes. `ppc`
and `wpc` are where the producer and the writer future wait; an action is the code
between two awaits, so `SendRow`, `JoinRow`, `RecvRow`, `RecvClosed`, `CommitOk`,
`CommitErr` and `ProducerDone` are complete handlers with their tally, refill and flush. `WorkerReturns`
lets any task end at any time with any outcome, a panic included. Dropping
the receiver (`rxOpen`) and the sender (`txOpen`) is part of the action
whose return drops it. The rows of a commit are in the catalog (`Lands`) before the committer answers: Ok
(`CommitOk`), or Err although they have landed, or Err because they have not (`CommitErr`).

Left out: the byte counter and the progress callback, which nothing reads back.

### JournaledRun and RunJournal

`JournaledRun` adds to each pipeline action what `JournaledCommitter` and `run` do at
that point: `BeginCommit` with the action that calls `commit`, the terminal entry in `End`. The committer awaits
twice after a batch has landed, and these are two steps: `Acknowledge` is the catalog's Ok and the `batch_committed` entry, pushed
before its save is awaited; `JCommitOk` is the return from that save, on which `flush` counts the batch. In between (`acked`)
the journal is ahead of the writer. `stored` is the journal object: each save writes
the whole history or is lost. A kill needs no action here: every reachable
pair of `stored` and `catalog` is what a kill in that state leaves. Each of its steps is one of `IngestPipeline` or
leaves that module's variables alone, so its run also checks the properties of the pipeline and of the report.

### CasUpload

Content stands for its hash. A read that overlaps a rewrite (`dirty`) may return any
content. `Stat`, `HashFile`, `VerifyExisting`, `OpenUpload`, `Stream` and `Close` are the reads and
requests of one attempt; `SourceChanged` is the bounded rescan. The decision (`Decide`) is made once for each attempt, with the hash and
before the first request, and kept in `decision` until `Accept` uses it. `PutIfAbsent`
is the conditional write; the bucket may already hold good objects, objects without
checksum metadata and foreign ones. The storage operator is a bare one, without a layer that retries or times
out (`storage/mod.rs:25`): a call succeeds, fails, loses against another writer, or stays unanswered.

### IngestRecovery

One run at a time, as the code assumes (`src/ingest/mod.rs:384`). What survives a run
is `catalog` and `journals`, and a commit without an answer (`inflight`).
Inside a run, rows are committed in batches in order until the first failure: the
promise `IngestPipeline` is proved to keep. `Quit` is a kill or an error at any
step. Candidates are an arbitrary subset of the paths. An unanswered commit is applied or lost at once in
`Spec`; `LateSpec` adds `LateCommit`, which with `LateLanding` applies or loses it at any later time. With
`ClockStepsBack` the wall clock may be set back between two runs.

`ListingIsTrue` reads the journals as the `runs` command does, in every state of the system.

### OverlappingIngests

Two processes take the steps of `IngestRecovery`, the second one over memory of its own, over one tree, clock,
catalog and bucket. Either takes the other's open journal for an interrupted run. `LoneRunIsSound` is about a run
that is alone from its load to its end (`undisturbed`), after any overlaps. It speaks of the observation *made* last before a
row (by its stamp), not of the row *recorded* last: of two overlapping runs the later observation may be committed
first, and the lone run then rightly records again what an older row at the end of the catalog says. Three bounds shape the
schedule: the last of the runs is the first process's and starts when the second has ended, without which that
property's premise would need another run; it starts when all edits are made (a run reads a path once, so an edit during it is as
good as one before or after it); and only a run of the second process sets the clock back.

### Bootstrap

Each request of `init`, and the two halves of writing the state file (truncate, write), is
an action of each process. Without the two keys in the environment a command is refused before its first request. A request
ends with its answer, or fails; a failed creation may have been applied. What the server holds at first, nothing, a
lakehouse or one with a table from before v0.3.0, is a constant (`Stacks`). `Reset` empties the stack and keeps the state file,
as recreating the containers does. `Resolve` is what all other commands use. `check_up` is in `Preflight`. Left out: the S3
signature, request bodies. The columns of the schema are reduced to *old* or *current*.

### Preflight

`doctor`, `up` and `init` run their checks in order, one at a time, while services start and stop. A service may listen
locally or elsewhere, the environment says where to look, and `doctor` reads one variable more than the others.
A port is busy when a service of the stack listens on it. A verdict is remembered while nothing has changed
since its command began, so that verdicts compared are about one stack. The results are kept as a set: only whether there was a
warning or an error counts.

### RunReport

`CatalogCommit`, `Status`, `UncommittedRows` and `ExitStatus` are what `output.rs` computes from
the counters and the error the pipeline returns, `CommitLine` and `Headline` what `run` and the human report
say; `ReportIsTrue` compares them with each other and with the rows the catalog really holds.

### TreeWalk

Three commands loop over the same iterator, so one action, `Visit`, hands the next entry to all
three. A file is its position in the walk; the filters on the name are a set of extensions; of a
content its size and its first block matter. After the walk the profiler hashes
groups of equal size in any order (they come out of a hash map), with any failure. `collect_files` walks once for each
`--max-size` the instance names, its absence included: without it no metadata is read, and a file whose metadata
cannot be read is a candidate instead of a failure. `--limit` and `--max-hash-files` are always given and
duplicates are looked for; the absence of one of these two does what a limit does that the walk does not reach. Left
out: `by_category` and `by_mime`, which are filled like `by_extension`; the median; patterns of names.

### Observation and Enrichers

One file is read up to five times by path and may be rewritten between any two reads; metadata may be absent and any
read may fail. An external tool prints an answer, fails, or hangs until the timeout drops its process. `Columns` is the
positional row of `writer.rs`, `Schema` the named one of `schema.rs`, and `LastKnown` the query the next run
decides by, over two sources in one table. A content stands for its hash and a path for its normal form; UUIDv5 is
the tuple of its fields. Where the file is, its path, its name and its parent are four values, and the clock is read three
times in a run, so that two columns of one type differ wherever the code fills them differently; `duplicate_of` and
`group_id` it never fills. In `Enrichers` an answer is a sequence of lines, of which only what the parsers
ask is kept; a title has a length in bytes, which the code compares, and one in characters, which it cuts. Uploads and commits are in `CasUpload` and `IngestRecovery`.

## 3. What the runs check

| Run | Instance | Question |
|---|---|---|
| `journaled_run` | 5 files, pool 2, batch 2, fair | no candidate and no row lost, doubled, reordered; `RowLedger` implemented; the report true; the journal true or an under-report, whichever saves are lost; the run ends, or a service never answers it |
| `cas_upload` | 2 paths, 3 contents (two of equal length), ingest and both previews, fair | CAS integrity, each row has its blob and its length, one uploader for each, objects written once; what was decided before the upload is right after it; a file that changes for ever still ends |
| `recovery` | 2 paths, 2 contents, 3 runs, 1 edit | reruns never observe twice, never miss a change, close predecessors with facts; `runs` tells the truth |
| `overlapping_ingests` | 1 path, 2 contents, 3 runs, 2 edits, late commits, clock set back | two ingests at once: nothing read is lost, no journal overclaims, the next lone run is sound |
| `bootstrap` | 2 processes, 5 invocations, 2 resets | success means usable, the others find it, `init` can be repeated |
| `preflight` | every configuration, 3 answers, 1 tool, 1 change | where they look at the same addresses, `doctor`, `up` and `init` agree |
| `tree_walk` | 4 entries, 5 contents, 2 extensions, caps 1 to 3, with and without `--max-size` | what is selected, reported and aggregated is what a definition over the whole walk says |
| `observation` | 4 files, 4 contents, 2 sources, 2 runs, 1 edit, fair | every row fits the schema and is one observation; names fall back; a hanging tool ends |
| `mismatch_is_real`, `recovery_late_commit`, `bootstrap_rerun`, `doctor_is_ready` | minimal | disagreements of code and documentation (section 5) |

Why the bounds suffice. Five files with batches of two make two full batches and a
tail, with two tasks in the pool, two rows in the channel and
one in the producer's hand: every buffer is empty, partial and full in the
presence of every other, and the tail's commit can fail after two good ones. Two paths
are what a race for one key needs, and three contents
distinguish *same length, other bytes* from *other length*. In `recovery`
three runs are predecessor, rerun and the rerun's successor; a closed journal
is then read by a run that did not close it. In `bootstrap` five invocations
allow two overlapping ones after one that was killed and two resets in between. In `tree_walk` the list
of the largest files is cut back at the third file, the limits are reached at the second, the
hash cap of three falls between and inside groups, and four entries leave one to come after each. In `overlapping_ingests`
three runs are two that overlap and one that comes after; one path is where they collide, two edits let it take a
content and return to it, and batches of one let a late commit fall anywhere. In `observation` the contents lie on each side of the two size limits, an
edit falls between any two reads of either run, and the answers have each flaw a parser looks for, titles among them that have more bytes than
characters. In `preflight` the
answers are success, 403, and no listener; other codes and silence are rated like one of these or only make a
warning of it. The ports of the two containers without a check of their own are free there; busy, they only add a warning.
All other quantities (workers' outcomes, saves lost, answers lost, kills) are unbounded
choices at each step. Symmetry is used for the paths and contents of `IngestRecovery` and the processes of `Bootstrap`, in runs without liveness
properties.

`CHECK_DEADLOCK` is on everywhere. Models in which the system really ends have
an explicit stuttering action for its end (`Returned`, `Stopped` and the like), so
any other state without successor is reported.

Each property has a mutant of a mapped definition (`PROJECT.json`, `mutants`) that
violates it: a bound off by one, a dropped guard, a swapped order.

### Fairness

`journaled_run` (`RunEnds`), `cas_upload` (`EveryFileEnds`) and `observation` (`ScanEnds`) check liveness. Both stages are polled
by one `tokio::join!` (`pipeline.rs:147`), hence weak fairness of the producer and of
the writer's receive. Nothing in the code bounds an upload, a save of the journal or a commit, so that these are answered is
no property of the program. `RunEnds` does not assume it: the steps that wait for a service
are not fair, and a run either ends or comes to wait for one for ever (`AwaitsAService`), never for its own other stage. `EveryFileEnds` is about what
bounds the rescans, and holds under `RequestsAreAnswered`, an assumption on file system and bucket: each read
and request of a worker ends, in any way. Nothing is assumed of other processes that rewrite files. In `ScanEnds` the runtime
polls the scan and its timer, and the file system is assumed to answer reads; of the external tool nothing is assumed, not even that it ends,
and the commit that follows the scan is not part of the claim. `Bootstrap` and `IngestRecovery` state no liveness: a run
that is killed promises nothing but what the next one can do. `Preflight` and `TreeWalk` are finite sequences of checks and visits.

## 4. What is proved

All theorems hold for every value of the constants that satisfies the named
assumption of the module.

**IngestPipeline** (`PipelineAssumption`). `CInv` is the type invariant with `StagesAgree`; the two need each other,
because the capacity of the pool and of the channel holds only where the
stages are where they claim to be. `IInv` adds `Accounting`, `RowsConserved`,
`MissingRowsBounded` and `OneRowPerFile`. `RowsConserved` alone is not
inductive: that the tail's commit is the last one needs that the writer
reaches it with an empty channel and a finished producer. From `IInv` follow
`NoSilentLoss`, `BufferedRowsBounded` and `FailureIsFinal`, and, if there is a
committer, `ImplementsLedger`: initial states map to initial states, and each action to `Produce`,
`Store`, `Fail`, `Finish` or a stutter. No run lists the first two, nor `OneRowPerFile`: `NoSilentLoss` is checked as part
of `ReportIsTrue`, that no row comes twice as part of `ImplementsLedger`. `BufferedRowsBounded` is proved rather than run: the bounds of
batch and channel come from the type invariant, and rows of finished tasks and in the sender's hand share the places of the pool, because a
producer that sends has joined a task and started none instead (`SenderKeepsAPlace`).

**RunReport.** `ReportIsTrue`, from `IInv` and one more invariant, that rows come with the
acknowledgement of their batch (`RowsComeWithAnAck`): `IInv` relates rows to rows, and `not_attempted` is read off
the number of batches. The theorem holds with and without a committer, so it covers ingest and both previews.

**JournaledRun.** `JournaledRunIsAPipeline`: the composition implements the pipeline, so all
of the above holds of it. `JInv` says that until the run ends the journal holds only
`started`, `committing` and `batch_committed`, and after it that or the same with
the terminal entry that fits how the pipeline ended; hence `ClosedJournalIsTrue`. `TheBooksAgree` adds that the sum
over the acknowledgements in the journal, the committer's counter and the writer's counters name the same batches and
rows at every await but one: while an acknowledgement is saved the journal is ahead by that batch, whose rows have landed; `StoredUnderReports` follows because the acknowledgements stored are among those of that journal, and fewer of them sum to no more.

**RunJournal.** What makes statements about sums provable: the rows of a history are a sum over its acknowledgements, a
sum is the cardinality of a set of cells (`SumIsCells`), and an induction over subsets of a finite set, stated of a *set* of
good subsets (`FiniteSubsets`), takes the place of the induction theorems, whose operator parameter no prover here
instantiates. From these come `OneMoreColumn` and `OneMoreTerm`, which the other modules use too.

**CasUpload.** `UInv` says of every worker what its next step relies on: the hash it
works with names the content it read, an object it verified is in the store and
stays there. It follows that CAS objects are sound and written once, that
each accepted row has its blob and the blob's length (and that the blob is the content its hash names, unless it was found in the bucket without a checksum), that an object is counted as uploaded once
(`UploadsAreCountedOnce`: a successful conditional write found the key free, and no key becomes free again), and that
`unchanged` is said of the content that was accepted, however often the file was rescanned (`UnchangedMeansKnown`): a worker that requests
holds a decision about the hash it holds (`Says`).

**Bootstrap.** `BInv` says what each process takes for granted at each step. It is stable because between
two resets the server only grows, and a reset finds no process at work. `CommandsFindIt` assumes that no id is
configured and `CalmInitsSucceed` that the conflict names the project: without the latter
the run `bootstrap_rerun` shows the property false, without the former see the remarks of section 5.

**Preflight** (`PreflightAssumption`, in `BootstrapProofs`). `PreflightInv` says of a command under way in an unchanged world
that its results are findings of its own checks and miss only those still left (or, for `init`, those after an error); so a verdict
that stands is that of all its checks in the present world, and `ThreeCommandsAgree` compares the checks of the three.

**IngestRecovery** (`RecoveryAssumption`). The argument is about one sequence, the *log*: the
catalog, then the batch being written, then the rows not yet in one. A row joins it at its end, stamped by the clock;
a commit does not change it; a failure or a kill cuts it to a prefix. `HInv` says that the log is ordered by
its stamps and repeats nothing, and that `known` names the last row of each path the run has not decided yet, which is
why the new row differs from it. From it follow `NoDoubleObservation` and `CompletedIsCurrent`, under the premise that the clock
is not set back and for `Spec`, where no commit lands late: `recovery_late_commit` shows the premise is needed.
Without either premise a run that completes has still recorded what it read (`CompletedRunsAreRecorded`, from
`RInv`, which needs only that the catalog grows).

`GInv` says that the open journals a run holds in memory are the
stored ones until it writes them back, and that what is stored of its own is a prefix of what it holds; so a save of a
whole history drops nothing (`HistoriesOnlyGrow`, with late commits and any clock). `FInv` adds that the rows on their way to the
catalog are the running run's own, hence the count of a predecessor no longer changes (`ReconciledStaysTrue`). For
`ListingsAreTrue` the claim of a journal must be compared with the catalog wherever the journal is held: `Stored` says that
each stored journal *tells* (claims no more rows than the catalog has, and exactly them once it is final) and that every row, landed or
late, has a journal, not final while one is late; `OwnBooks` says the same of the journals a run has in memory.

**OverlappingIngests.** The step lemmas of `IngestRecoveryProofs` are used twice, the second time through
an instance (`P2`) in which the second process's memory takes the first's place; that both readings agree on the shared state, and that
a step of one is a harmless step of the world to the other, is what is added. `NeitherLosesARow` and `NothingIsOverclaimed` hold with late
commits and any clock. `ALoneRunIsSound` rests on an invariant of an undisturbed run alone: all other rows are older than any it will
write, nothing of another run is under way, and `known` names the newest row of each path it has not decided.

The attempt at the last one was a finding: the property had compared *neighbours in the catalog*, which is false once an edit is
undone between two overlapping runs (see section 2); the run had too few edits to show it. It is now
stated by the time of observation, and the run has two edits.

**Observation** (`ObservationAssumption`, `NoneAssumption`). Writer and schema agree on positions only, so `ColumnByName` goes from
the position of each column to its name and back, once for all, and the rest is said of fields. `NoneAssumption` says that
`None` is no value of a column's type, as `Option` guarantees. `RowsAreWritable` then needs the type of every field at the moment of the commit,
`RowIsOneObservation` that identity and object are computed from the hash that is stored, `EachSourceIsCurrent` that what a run has
loaded is the last row of its source until it commits, and `SuggestionsFallBack` the shape of what each parser may return, where a title's
bytes are bounded by its characters (`IsTitle`, assumed of what `pdfinfo` prints, as of any UTF-8).

**TreeWalk** (`WalkAssumption`). A set of positions has exactly one increasing list (`ListIsUnique`, `ListExists`), which grows at its
end when the walk does; `CandidatesAreExact`, for each `--max-size` and for none, and `ScanStopsAtTheLimit` follow entry by entry. For `GroupsDescribeTheWalk`, `Describes`
relates the statistics of a group to the sizes of its members, and adding a file to both keeps them related. For the list of the largest, each file
has a *place*, the number of files larger, or as large and earlier; sorting puts a file at its place, and a file that was cut
has `MAX_LARGEST` files before it and keeps them, so it is never among the first `TOP_LARGEST` (`NothingLargeIsForgotten`).
For the estimate, what a partition into classes gives back is the number of bytes of the files that are not first in their
class; a finer partition of fewer files has fewer of these (`FinerGainsLess`), and equal contents refine equal blocks, which refine
equal sizes. The accounting of the candidates is an invariant: hashed, failed, queued and untouched files add up.

`InWalkOrder`, `SumOver` and `FirstOf` are defined by what they yield (the increasing list of a set, the sum of a function, the first
stem found) rather than with operators that take an operator, about which nothing could be proved here; TLC evaluates the same definitions.

**Only model-checked.** The liveness properties `RunEnds`, `EveryFileEnds` and `ScanEnds`, which are out of the
prover's reach. Every other property of a passing run is a theorem.

## 5. Disagreements of code and documentation

* `MismatchIsReal`: `verify_existing` compares an object with a size from before
  the file was hashed. A file rewritten in between is reported as an integrity mismatch of an object
  that equals it, and is not rescanned, unlike a change found by the upload.
* `NoDoubleObservation` with late commits: the catalog state is loaded before the open
  runs are counted and never again. A commit that lands after the load is observed again, although
  ADR-009 says a rerun observes exactly the paths that have no row.
* `ReadyMeansReady`: `doctor` falls back to `ANTI_ENTROPATOR_LAKEKEEPER_ENDPOINT`, which no other command
  reads. With it set, `doctor` reports that the stack is ready while `up` and `init` find no Lakekeeper.
* `CalmInitSucceeds` without an id in the conflict: after an `init` whose creation of the project was applied but not
  answered (or which was killed before it saved the id), every later `init` fails, with all its requests answered, although the comment
  beside the code speaks of listing the projects and the manual of idempotence.

Remarks that contradict no document:

* A failed save of the state file is only a warning, so a successful
  `init` that was not the last to write the file promises nothing about what others resolve (`CommandsWork` says so in its
  premise).
* An id configured in the environment comes before the state file (`resolve_project_id`). When the server does not know it,
  `init` creates and saves another project and reports success, and later commands still use the configured
  id. `CommandsWork` is therefore checked and proved for `ConfiguredId = NoId`.
* The latest row is chosen by a wall clock, as `state.rs` itself notes.
* `ingest --limit 0` still selects one file, as the limit is looked at after a push; `scan --limit 0`
  selects none. `scan` counts a file it cannot open as scanned, without a hash. A group of empty files has no `largest_path`.
* `doctor` warns where `up` and `init` report an error for an answer other than success. With the default addresses a
  running stack makes its own ports busy, which `doctor` warns of, so it then never prints that all checks passed.
* Two overlapping runs write journals back over each other: a closure of a live run is lost again, and a
  completed journal may be replaced by a reconciled one. Rows are at worst observed twice, never lost.
* For a file without extension `scan_file` keeps `(none)`, and the name suggested from the modification date ends in it; one suggested
  by a tool has no extension. A title is usable from four *bytes* on, so one character may do, and is cut at 100 *characters*, which may be 400 bytes.
* Nothing in `src/` sets a timeout on uploads, journal saves and commits; a service that never answers one may hold a run up for ever.
* `quick_sha256` hashes what one `read` returns, which need not fill the block; `is_duplicate`, `duplicate_of` and `group_id` are never set.

## 6. Not modelled

* Patterns of names, the maps `by_category` and `by_mime`, the layout of reports: classification and wording.
* `query`, the CLI, the construction of the storage operator: no state and no decisions of their own.
* SHA-256, UUIDv5, Parquet, Arrow, S3 signatures: contents, ids and rows are values.
* The container stack and the CI scripts.

## 7. Plan

Done: every component with decisions of its own, in the modules of section 2, and a theorem for each
property of a passing run that is not liveness.

1. `ObservationLog`: the abstract promise of `IngestRecovery` (each path's history
   has no repetition and ends with what was read), with a refinement from `HInv`.
2. Steps toward liveness that are safety: a measure that no step of the pipeline but an external one raises, so
   that only fairness is left to TLC.
3. Weaker premises: `NoDoubleObservation` of the runs whose predecessor has no commit under way, with late commits elsewhere.

New questions extend the instances of section 3 where these fit, rather than adding runs.
