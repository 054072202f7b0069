----------------------------- MODULE RunJournal -----------------------------
(***************************************************************************)
(* The history a run journal records and what it says about the run        *)
(* (ingest/journal.rs).  Timestamps, the run id and the source id carried  *)
(* by a journal are left to the modules that keep journals.                *)
(***************************************************************************)
EXTENDS Naturals, Sequences, SequencesExt

Started              == [state |-> "started"]
Committing(b)        == [state |-> "committing", batch |-> b]
BatchCommitted(b, n) == [state |-> "batch_committed", batch |-> b, rows |-> n]
Completed            == [state |-> "completed"]
Incomplete(n)        == [state |-> "incomplete", failed |-> n]
CommitFailed(b)      == [state |-> "commit_failed", batch |-> b]
Reconciled(n)        == [state |-> "reconciled", rows_in_catalog |-> n]
SupersededBy(r)      == [state |-> "superseded_by", run_id |-> r]

IsClosure(entry) == entry.state \in {"reconciled", "superseded_by"}

(* The last entry the run wrote itself; a later run's closures come after.  *)
LastOwn(history) ==
    LET own == {i \in DOMAIN history : ~IsClosure(history[i])}
    IN  IF own = {} THEN Started ELSE history[Max(own)]

IsClosed(history) == \E i \in DOMAIN history : IsClosure(history[i])

(* A terminal entry other than commit_failed stands; every other history is *)
(* resolved by a closure and unknown without one.                           *)
Outcome(history) ==
    CASE LastOwn(history).state = "completed"  -> "completed"
      [] LastOwn(history).state = "incomplete" -> "incomplete"
      [] OTHER -> IF IsClosed(history) THEN "reconciled"
                  ELSE IF LastOwn(history).state = "commit_failed"
                    THEN "commit_failed" ELSE "interrupted"

UnlessCompleted(history) == Outcome(history) \notin {"completed", "reconciled"}

IsOpen(history) == Outcome(history) \in {"interrupted", "commit_failed"}

IsAck(entry) == entry.state = "batch_committed"

Acks(history) == {i \in DOMAIN history : IsAck(history[i])}

RowsCommitted(history) == SumFunction([i \in Acks(history) |-> history[i].rows])

BatchesCommitted(history) == Cardinality(Acks(history))

-----------------------------------------------------------------------------
(* The `runs` command, a read-only view of the journals (runs/mod.rs) *)

(* One row of `runs list`, and the head of `runs show`.                     *)
RunView(history) ==
    [outcome           |-> Outcome(history),
     last_state        |-> LastOwn(history).state,
     rows_committed    |-> RowsCommitted(history),
     batches_committed |-> BatchesCommitted(history)]

(* `runs list`, with or without --open, over the readable journals.         *)
Listed(journals, open) ==
    {r \in DOMAIN journals : open => IsOpen(journals[r])}

(* `runs show` asks for a rerun after its table; the texts differ in what   *)
(* they say of the catalog.                                                 *)
Advice(view) ==
    CASE view.outcome = "interrupted"   -> "rerun: uncommitted rows are observed again"
      [] view.outcome = "commit_failed" -> "rerun: the catalog may still hold the batch"
      [] OTHER                          -> "none"
=============================================================================
