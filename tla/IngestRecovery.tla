--------------------------- MODULE IngestRecovery ---------------------------
(***************************************************************************)
(* Successive ingest runs over one source: what each reads of the catalog  *)
(* and of its predecessors' journals, what it leaves behind when it ends,  *)
(* fails or is killed (run, report_open_runs, supersede_open_runs in       *)
(* ingest/mod.rs; ingest/state.rs; the storage half of ingest/journal.rs). *)
(*                                                                         *)
(* One process at a time, as the code assumes; OverlappingIngests has two. *)
(* What survives a run is the catalog and the journal objects; what is in  *)
(* `proc` dies with it.                                                    *)
(* Inside a run the pipeline is the RowLedger that IngestPipeline is       *)
(* proved to implement: rows are produced, then committed in order and in  *)
(* batches, until the first commit that fails.                             *)
(*                                                                         *)
(* The catalog is Iceberg: an append names the snapshot it is based on and *)
(* is refused if the table has moved on.  A request whose client was       *)
(* killed or timed out has been applied, is lost, or, with LateLanding, is *)
(* still on its way.                                                       *)
(***************************************************************************)
EXTENDS Naturals, FiniteSets, RunJournal

CONSTANTS
    Paths,          \* relative paths of the source
    Contents,       \* content hashes
    BatchSize,      \* --batch-size
    LateLanding,    \* an unanswered commit may be applied later
    ClockStepsBack, \* the wall clock may be set back between runs
    MaxRuns,        \* bound: runs started
    MaxEdits        \* bound: files rewritten, in total

ASSUME RecoveryAssumption ==
    /\ BatchSize \in Nat \ {0} /\ MaxRuns \in Nat /\ MaxEdits \in Nat
    /\ LateLanding \in BOOLEAN /\ ClockStepsBack \in BOOLEAN

Runs == 1 .. MaxRuns

VARIABLES
    disk, edits,  \* content of each file, and how often one was rewritten
    clock,        \* the next observed_at
    catalog,      \* observation rows in commit order
    inflight,     \* unanswered commits that may still be applied
    journals,     \* journal objects: run -> history
    started,      \* runs begun so far
    me,           \* the current, or the last, run of this process
    pc,           \* "idle", "loaded", "reconcile", "work", "supersede"
    known,        \* CurrentState: path -> content
    open_runs,    \* journals of open predecessors, as in memory
    counted,      \* <<run, rows>> answered by the catalog, not yet recorded
    todo,         \* candidates not processed yet
    seen,         \* history: what this run read of each processed path
    rows,         \* observed, not yet handed to the committer
    writing,      \* the batch of the commit in progress
    batches,      \* commits attempted
    failed,       \* the commit failure
    errors,       \* number of per-file errors
    journal       \* this run's history, as in memory

proc  == <<me, pc, known, open_runs, counted, todo, seen, rows, writing, batches,
           failed, errors, journal>>
world == <<disk, edits, started>>
vars  == <<world, clock, catalog, inflight, journals, proc>>

-----------------------------------------------------------------------------
(* The catalog *)

RowsOf(p) == {i \in DOMAIN catalog : catalog[i].path = p}

Oldest(p) ==
    {catalog[i].content : i \in {j \in RowsOf(p) :
                                   \A k \in RowsOf(p) : catalog[k].at >= catalog[j].at}}

(* reduce_latest: the rows of p with the greatest observed_at; of several   *)
(* the one the query returns first.                                         *)
Latest(p) ==
    {catalog[i].content : i \in {j \in RowsOf(p) :
                                   \A k \in RowsOf(p) : catalog[k].at <= catalog[j].at}}

CurrentStates ==
    LET paths == {p \in Paths : RowsOf(p) # {}}
    IN  {s \in [paths -> Contents] : \A p \in paths : s[p] \in Latest(p)}

CountForRun(r) == Cardinality({i \in DOMAIN catalog : catalog[i].run = r})

Appended(batch) == catalog' = catalog \o batch

(* A commit nobody waits for any more: applied, lost, or still on its way.  *)
Unanswered(batch) ==
    \/ Appended(batch) /\ inflight' = inflight
    \/ UNCHANGED <<catalog, inflight>>
    \/ /\ LateLanding
       /\ inflight' = inflight \cup {[batch |-> batch, base |-> Len(catalog)]}
       /\ catalog' = catalog

Land(request) ==
    /\ request.base = Len(catalog)
    /\ Appended(request.batch)
    /\ inflight' = inflight \ {request}
    /\ UNCHANGED <<world, clock, journals, proc>>

Lose(request) ==
    /\ inflight' = inflight \ {request}
    /\ UNCHANGED <<world, clock, catalog, journals, proc>>

-----------------------------------------------------------------------------
(* The process and its journal *)

Init ==
    /\ disk \in [Paths -> Contents] /\ edits = 0 /\ clock = 0
    /\ catalog = <<>> /\ inflight = {} /\ journals = <<>>
    /\ started = 0 /\ me = 0
    /\ pc = "idle" /\ known = <<>> /\ open_runs = <<>> /\ counted = <<>>
    /\ todo = {} /\ seen = <<>> /\ rows = <<>> /\ writing = <<>>
    /\ batches = 0 /\ failed = FALSE /\ errors = 0 /\ journal = <<>>

(* The process is gone, and its memory with it.                             *)
Exit ==
    /\ pc' = "idle" /\ known' = <<>> /\ open_runs' = <<>> /\ counted' = <<>>
    /\ todo' = {} /\ seen' = <<>> /\ rows' = <<>> /\ writing' = <<>>
    /\ batches' = 0 /\ failed' = FALSE /\ errors' = 0 /\ journal' = <<>>

(* save: the object now holds this history; a new object may appear.        *)
Save(r, history) ==
    journals' = [x \in DOMAIN journals \cup {r} |->
                   IF x = r THEN history ELSE journals[x]]

(* JournalWriter::record; a failed save is only logged.                     *)
Record(entry) ==
    /\ journal' = Append(journal, entry)
    /\ Save(me, journal') \/ journals' = journals

Edit(p, c) ==
    /\ edits < MaxEdits /\ disk[p] # c
    /\ edits' = edits + 1 /\ disk' = [disk EXCEPT ![p] = c]
    /\ UNCHANGED <<started, clock, catalog, inflight, journals, proc>>

-----------------------------------------------------------------------------
(* Start of a run: catalog state, then the predecessors' journals *)

LoadState ==
    /\ pc = "idle" /\ started < MaxRuns
    /\ started' = started + 1 /\ me' = started' /\ pc' = "loaded"
    /\ known' \in CurrentStates
    /\ clock' \in IF ClockStepsBack THEN 0 .. clock ELSE {clock}
    /\ UNCHANGED <<disk, edits, catalog, inflight, journals, open_runs, counted, todo,
                   seen, rows, writing, batches, failed, errors, journal>>

(* open_runs_for: unreadable journals are skipped.                          *)
ReadJournals ==
    /\ pc = "loaded" /\ pc' = "reconcile"
    /\ \E readable \in SUBSET {r \in DOMAIN journals : IsOpen(journals[r])} :
         open_runs' = [r \in readable |-> journals[r]]
    /\ UNCHANGED <<world, clock, catalog, inflight, journals, me, known, counted, todo,
                   seen, rows, writing, batches, failed, errors, journal>>

CountRows(r) ==
    /\ pc = "reconcile" /\ counted = <<>>
    /\ r \in DOMAIN open_runs /\ IsOpen(open_runs[r])
    /\ counted' = <<r, CountForRun(r)>>
    /\ UNCHANGED <<world, clock, catalog, inflight, journals, me, pc, known, open_runs,
                   todo, seen, rows, writing, batches, failed, errors, journal>>

TrustTheJournal(r) == Append(open_runs[r], Reconciled(RowsCommitted(open_runs[r])))

ReconciledHistory(r) == Append(open_runs[r], Reconciled(counted[2]))

(* close: the closure is appended in memory, then saved.                    *)
CloseReconciled ==
    /\ pc = "reconcile" /\ counted # <<>>
    /\ LET r == counted[1] IN
         /\ open_runs' = [open_runs EXCEPT ![r] = ReconciledHistory(r)]
         /\ Save(r, open_runs'[r])
    /\ counted' = <<>>
    /\ UNCHANGED <<world, clock, catalog, inflight, me, pc, known, todo, seen, rows,
                   writing, batches, failed, errors, journal>>

ReadyToStart ==
    pc = "reconcile" /\ counted = <<>>
      /\ \A r \in DOMAIN open_runs : ~IsOpen(open_runs[r])

StartUnrecorded ==
    /\ ReadyToStart
    /\ pc' = "work"
    /\ todo' \in SUBSET Paths \ {{}}
    /\ journal' = <<Started>> /\ (Save(me, journal') \/ journals' = journals)
    /\ UNCHANGED <<world, clock, catalog, inflight, me, known, open_runs, counted, seen,
                   rows, writing, batches, failed, errors>>

(* JournalWriter::start, with the candidates the filters leave.             *)
StartRun ==
    /\ ReadyToStart
    /\ pc' = "work"
    /\ todo' \in SUBSET Paths \ {{}}
    /\ journal' = <<Started>> /\ Save(me, journal')
    /\ UNCHANGED <<world, clock, catalog, inflight, me, known, open_runs, counted, seen,
                   rows, writing, batches, failed, errors>>

-----------------------------------------------------------------------------
(* The run: files, rows, batches *)

Working == pc = "work" /\ ~failed

DecideByPath(p) == p \in DOMAIN known

(* decide: the last observation already records this content.               *)
Unchanged(p) == p \in DOMAIN known /\ known[p] = disk[p]

(* A file is scanned; it becomes a row unless its path is unchanged.        *)
Process(p) ==
    /\ Working /\ p \in todo
    /\ todo' = todo \ {p}
    /\ seen' = [x \in DOMAIN seen \cup {p} |-> IF x = p THEN disk[p] ELSE seen[x]]
    /\ IF Unchanged(p)
         THEN UNCHANGED <<rows, clock>>
         ELSE /\ rows' = Append(rows, [path |-> p, content |-> disk[p],
                                       run |-> me, at |-> clock])
              /\ clock' = clock + 1
    /\ UNCHANGED <<world, catalog, inflight, journals, me, pc, known, open_runs,
                   counted, writing, batches, failed, errors, journal>>

FileFails(p) ==
    /\ Working /\ p \in todo
    /\ todo' = todo \ {p} /\ errors' = errors + 1
    /\ UNCHANGED <<world, clock, catalog, inflight, journals, me, pc, known, open_runs,
                   counted, seen, rows, writing, batches, failed, journal>>

BatchLength == Min({BatchSize, Len(rows)})

(* A full batch, or the tail.                                               *)
BeginCommit ==
    /\ Working /\ writing = <<>> /\ rows # <<>>
    /\ Len(rows) >= BatchSize \/ todo = {}
    /\ writing' = SubSeq(rows, 1, BatchLength)
    /\ rows' = SubSeq(rows, BatchLength + 1, Len(rows))
    /\ batches' = batches + 1
    /\ Record(Committing(batches'))
    /\ UNCHANGED <<world, clock, catalog, inflight, me, pc, known, open_runs, counted,
                   todo, seen, failed, errors>>

CommitOk ==
    /\ Working /\ writing # <<>>
    /\ Appended(writing) /\ writing' = <<>>
    /\ Record(BatchCommitted(batches, Len(writing)))
    /\ UNCHANGED <<world, clock, inflight, me, pc, known, open_runs, counted, todo, seen,
                   rows, batches, failed, errors>>

CommitErr ==
    /\ Working /\ writing # <<>>
    /\ Unanswered(writing) /\ writing' = <<>>
    /\ failed' = TRUE
    /\ UNCHANGED <<world, clock, journals, me, pc, known, open_runs, counted, todo, seen,
                   rows, batches, errors, journal>>

-----------------------------------------------------------------------------
(* The end of a run *)

AllSeenThrough == todo = {} /\ rows = <<>> /\ writing = <<>>

Terminal ==
    IF failed THEN CommitFailed(BatchesCommitted(journal) + 1)
    ELSE IF errors = 0 THEN Completed ELSE Incomplete(errors)

(* A completed run stays to close its predecessors.                         *)
Complete ==
    /\ Working /\ AllSeenThrough /\ errors = 0
    /\ Record(Terminal)
    /\ pc' = "supersede"
    /\ UNCHANGED <<world, clock, catalog, inflight, me, known, open_runs, counted, todo,
                   seen, rows, writing, batches, failed, errors>>

GiveUp ==
    /\ pc = "work" /\ (failed \/ (AllSeenThrough /\ errors > 0))
    /\ Save(me, Append(journal, Terminal)) \/ journals' = journals
    /\ Exit
    /\ UNCHANGED <<world, clock, catalog, inflight, me>>

AsItWasListed(r) ==
    Append(SubSeq(open_runs[r], 1, Len(open_runs[r]) - 1), SupersededBy(me))

SupersededHistory(r) == Append(open_runs[r], SupersededBy(me))

(* Best effort.                                                             *)
Supersede(r) ==
    /\ pc = "supersede" /\ r \in DOMAIN open_runs
    /\ Save(r, SupersededHistory(r)) \/ journals' = journals
    /\ open_runs' = [x \in DOMAIN open_runs \ {r} |-> open_runs[x]]
    /\ UNCHANGED <<world, clock, catalog, inflight, me, pc, known, counted, todo, seen,
                   rows, writing, batches, failed, errors, journal>>

(* The process ends: killed at any moment; by an early `?` on the catalog   *)
(* state, the listing, a count, a closure or its own first save; with no    *)
(* file to ingest; or after the last closure.  What it leaves is the same.  *)
Quit ==
    /\ pc # "idle" /\ Exit
    /\ IF writing # <<>> THEN Unanswered(writing) ELSE UNCHANGED <<catalog, inflight>>
    /\ UNCHANGED <<world, clock, journals, me>>

Stopped ==
    /\ pc = "idle" /\ started = MaxRuns /\ inflight = {} /\ edits = MaxEdits
    /\ UNCHANGED vars

Environment == \E p \in Paths, c \in Contents : Edit(p, c)

LateCommit == \E request \in inflight : Land(request) \/ Lose(request)

RunStep ==
    \/ LoadState \/ ReadJournals \/ (\E r \in Runs : CountRows(r)) \/ CloseReconciled
    \/ StartRun
    \/ (\E p \in Paths : Process(p) \/ FileFails(p))
    \/ BeginCommit \/ CommitOk \/ CommitErr
    \/ Complete \/ GiveUp \/ (\E r \in Runs : Supersede(r))
    \/ Quit

Next == Environment \/ RunStep \/ Stopped

Spec == Init /\ [][Next]_vars

(* With LateLanding, unanswered commits end in some way at some time.       *)
LateSpec == Init /\ [][Next \/ LateCommit]_vars
-----------------------------------------------------------------------------
(* Properties *)

(* Repeated ingest of unchanged content appends nothing (ADR-009): of two   *)
(* successive rows of a path the later one has another content, through     *)
(* failed, unacknowledged and killed runs and their reruns.                 *)
NoDoubleObservation ==
    \A i, j \in DOMAIN catalog :
        /\ i < j /\ catalog[i].path = catalog[j].path
        /\ \A k \in i + 1 .. j - 1 : catalog[k].path # catalog[i].path
        => catalog[i].content # catalog[j].content

(* A run that completes leaves the catalog's current state of each of its   *)
(* candidates at what the run read of it, whether it appended a row or      *)
(* relied on the state it had loaded.                                       *)
CompletedIsCurrent ==
    pc = "supersede" => \A p \in DOMAIN seen : Latest(p) = {seen[p]}

(* What a completed run read of its candidates is in the catalog, whatever  *)
(* the clock and late commits do to the order.                              *)
CompletedIsRecorded ==
    pc = "supersede" =>
        \A p \in DOMAIN seen : \E i \in RowsOf(p) : catalog[i].content = seen[p]

(* A `reconciled` entry is a fact: the catalog holds that many rows of the  *)
(* run, now and ever after.                                                 *)
ReconciledIsAFact ==
    \A r \in DOMAIN journals : \A i \in DOMAIN journals[r] :
        journals[r][i].state = "reconciled" =>
            journals[r][i].rows_in_catalog = CountForRun(r)

(* No run loses what it or another run has written to a journal: an object  *)
(* is only ever extended, although every save writes a whole history that   *)
(* was read, or begun, earlier.                                             *)
HistoryOnlyGrows ==
    [][\A r \in DOMAIN journals :
         r \in DOMAIN journals' /\ IsPrefix(journals[r], journals'[r])]_journals

(* What `runs list` and `runs show` say is true of the catalog.  The rows   *)
(* shown are there; they are all there unless a rerun is advised or the     *)
(* journal was closed with a count; a run at work is listed as open, so     *)
(* that a kill leaves it to be found; and only an open run is ever closed.  *)
ListingIsTrue ==
    \A r \in Listed(journals, FALSE) :
        LET view == RunView(journals[r]) IN
        /\ view.rows_committed <= CountForRun(r)
        /\ Advice(view) = "none" /\ view.outcome # "reconciled" =>
              view.rows_committed = CountForRun(r)
        /\ r = me /\ pc = "work" => r \in Listed(journals, TRUE)
        /\ IsClosed(journals[r]) => view.last_state \notin {"completed", "incomplete"}
=============================================================================
