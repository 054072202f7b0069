---------------------------- MODULE JournaledRun ----------------------------
(***************************************************************************)
(* One writing ingest run: the pipeline composed with the journal that     *)
(* records it (run and JournaledCommitter in ingest/mod.rs, JournalWriter  *)
(* in ingest/journal.rs).                                                  *)
(*                                                                         *)
(* `journal` is the history in memory, `stored` the object in the bucket.  *)
(* A save that fails after the start is only logged, so `stored` may stay  *)
(* behind; every save rewrites the whole history, so a later one catches   *)
(* up.  What a kill leaves behind is `stored` and `catalog` of the state   *)
(* it strikes in, so an invariant over those two speaks of every kill.     *)
(***************************************************************************)
EXTENDS IngestPipeline, RunJournal

VARIABLES
    rpc,      \* "idle", "running", "ended", or "refused" by a failed start
    journal,
    stored,   \* <<>>: no journal object
    batches,  \* JournaledCommitter's counter of attempted commits
    acked     \* the catalog has answered Ok; the committer saves that

run   == <<rpc, journal, stored, batches, acked>>
jvars == <<vars, run>>

JInit ==
    /\ Init /\ rpc = "idle" /\ journal = <<>> /\ stored = <<>>
    /\ batches = 0 /\ acked = FALSE

(* JournalWriter::start fails closed.  The failed write may have happened.  *)
StartRefused ==
    /\ rpc = "idle" /\ rpc' = "refused"
    /\ stored' \in {<<>>, <<Started>>}
    /\ UNCHANGED <<vars, journal, batches, acked>>

Start ==
    /\ rpc = "idle" /\ rpc' = "running"
    /\ journal' = <<Started>> /\ stored' = journal'
    /\ UNCHANGED <<vars, batches, acked>>

(* JournalWriter::record: the entry is pushed, then the save awaited.       *)
Record(entry) ==
    /\ journal' = Append(journal, entry)
    /\ stored' \in {stored, journal'}

JProduce ==
    /\ rpc = "running"
    /\ Producer \/ \E f \in Files : WorkerReturns(f)
    /\ UNCHANGED run

(* The writer hands a batch to JournaledCommitter, which numbers it and     *)
(* records the attempt before anything is sent to the catalog.  That save   *)
(* and the request are one wait here: journal, stored journal and catalog   *)
(* take the same values.                                                    *)
BeginCommit ==
    /\ wpc' \in {"commit", "tail"}
    /\ batches' = batches + 1
    /\ Record(Committing(batches'))
    /\ UNCHANGED <<rpc, acked>>

JReceive ==
    /\ rpc = "running"
    /\ RecvRow \/ RecvClosed
    /\ IF wpc' = "recv" \/ wpc' = "done" THEN UNCHANGED run ELSE BeginCommit

JLands ==
    /\ rpc = "running"
    /\ Lands
    /\ UNCHANGED run

AckBeforeTheAnswer ==
    /\ rpc = "running" /\ wpc \in {"commit", "tail"} /\ ~acked
    /\ acked' = TRUE
    /\ Record(BatchCommitted(batches, Len(writing)))
    /\ UNCHANGED <<vars, rpc, batches>>

(* The catalog answers Ok.  The committer pushes the acknowledgement and    *)
(* awaits its save; the writer, behind it, has counted nothing yet.         *)
Acknowledge ==
    /\ rpc = "running" /\ landed /\ ~acked
    /\ acked' = TRUE
    /\ Record(BatchCommitted(batches, Len(writing)))
    /\ UNCHANGED <<vars, rpc, batches>>

(* The save returned, and so does `commit`: flush counts the batch.         *)
JCommitOk ==
    /\ rpc = "running" /\ acked
    /\ CommitOk
    /\ acked' = FALSE
    /\ UNCHANGED <<rpc, journal, stored, batches>>

(* The `?` in JournaledCommitter: an error records nothing.                 *)
JCommitErr ==
    /\ rpc = "running" /\ ~acked
    /\ CommitErr
    /\ UNCHANGED run

TerminalIgnoresFailure ==
    IF counts.errors = 0 THEN Completed ELSE Incomplete(counts.errors)
TerminalMisnumbers ==
    CASE commit_failure      -> CommitFailed(commit.batches_committed)
      [] counts.errors = 0   -> Completed
      [] OTHER               -> Incomplete(counts.errors)

TerminalEntry ==
    IF commit_failure THEN CommitFailed(commit.batches_committed + 1)
    ELSE IF counts.errors = 0 THEN Completed ELSE Incomplete(counts.errors)

End ==
    /\ rpc = "running" /\ Finished /\ rpc' = "ended"
    /\ Record(TerminalEntry)
    /\ UNCHANGED <<vars, batches, acked>>

JReturned == rpc \in {"ended", "refused"} /\ UNCHANGED jvars

JNext ==
    \/ StartRefused \/ Start
    \/ JProduce \/ JReceive \/ JLands \/ Acknowledge \/ JCommitOk \/ JCommitErr
    \/ End \/ JReturned

JSpec == JInit /\ [][JNext]_jvars

(* The executor polls a future that can go on.  Nothing is assumed of what  *)
(* the futures wait for: neither the storage operator (storage/mod.rs) nor  *)
(* the catalog's client bounds a request, so any of them may never answer,  *)
(* and a worker, whose every step is a read or a request, may never return. *)
JFairness ==
    /\ WF_jvars(rpc = "running" /\ Producer /\ UNCHANGED run)
    /\ WF_jvars(JReceive)

JFairSpec == JSpec /\ JFairness
-----------------------------------------------------------------------------
(* Properties *)

(* Three counters number the batches and two add up the rows: flush's       *)
(* CommitCounts, JournaledCommitter's `batches` and the journal itself.     *)
(* They agree at every await of either future but one: while the committer  *)
(* saves an acknowledgement the journal is ahead of the writer, by that     *)
(* batch and no other, and its rows are in the catalog.  The terminal       *)
(* commit_failed names the batch whose attempt was the last one recorded    *)
(* and was never acknowledged, though its number comes from the writer's    *)
(* counter and the attempt's from the committer's.                          *)
BooksAgree ==
    LET Attempts == {i \in DOMAIN journal : journal[i].state = "committing"} IN
    /\ RowsCommitted(journal) = commit.committed + (IF acked THEN Len(writing) ELSE 0)
    /\ BatchesCommitted(journal) = commit.batches_committed + One(acked)
    /\ acked => landed
    /\ batches = commit.batches_committed + commit.batches_failed
                   + One(wpc \in {"commit", "tail"})
    /\ journal # <<>> /\ LastOwn(journal).state = "commit_failed" =>
         /\ Attempts # {} /\ journal[Max(Attempts)].batch = LastOwn(journal).batch
         /\ \A i \in DOMAIN journal :
              IsAck(journal[i]) => journal[i].batch < LastOwn(journal).batch

(* Killed at any moment, with any of its saves lost, a run leaves a journal *)
(* that claims no more rows than the catalog holds: it under-reports, the   *)
(* safe direction (JournalWriter::record).                                  *)
JournalUnderReports == RowsCommitted(stored) <= Len(catalog)

(* A journal that no later run would reconcile tells the truth: the run     *)
(* came to its end, no candidate was left out, every row it produced is in  *)
(* the catalog, and `completed` means that no file failed.  Everything      *)
(* else, a kill, a lost save, a failed commit, reads as open.               *)
ClosedJournalIsTrue ==
    stored # <<>> /\ ~IsOpen(stored) =>
        /\ Finished /\ catalog = produced
        /\ counts.observed + counts.unchanged + counts.errors = NumFiles
        /\ Outcome(stored) = "completed" <=> counts.errors = 0

(* Somebody outside owes an answer: the file system, bucket or catalog a    *)
(* worker, the commit or a save of the journal waits for.                   *)
AwaitsAService ==
    \/ rpc = "idle" \/ (rpc = "running" /\ Finished)
    \/ wpc \in {"commit", "tail"}
    \/ \E f \in inSet : result[f] = NoResult

(* The run ends, or some service never answers: its futures never wait for  *)
(* each other.  A writer that stopped never leaves the producer blocked on  *)
(* the channel, a producer that is done never leaves the writer waiting for *)
(* rows; and so a run whose requests are all answered ends, whatever the    *)
(* answers are.                                                             *)
RunEnds == <>(rpc \in {"ended", "refused"}) \/ <>[]AwaitsAService
=============================================================================
