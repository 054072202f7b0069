----------------------------- MODULE RunReport -----------------------------
(***************************************************************************)
(* What an ingest tells its caller when the pipeline has returned: the     *)
(* summary and the exit status (ingest/output.rs).  The summary takes the  *)
(* fate of the commits from the counters, the exit status from the error   *)
(* the pipeline handed over, the journal (JournaledRun) from both.         *)
(***************************************************************************)
EXTENDS IngestPipeline

FailureNeedsAnAck ==
    CASE commit.batches_committed > 0 /\ commit.batches_failed > 0 -> "failed"
      [] commit.batches_committed > 0 /\ commit.batches_failed = 0 -> "succeeded"
      [] commit.batches_committed = 0 -> "not_attempted"

(* CommitCounts::status                                                     *)
CatalogCommit ==
    IF commit.batches_failed > 0 THEN "failed"
    ELSE IF commit.batches_committed > 0 THEN "succeeded"
    ELSE "not_attempted"

(* IngestSummary::build                                                     *)
Status ==
    IF CatalogCommit = "failed" THEN "commit_failed"
    ELSE IF counts.errors > 0 THEN "incomplete"
    ELSE "success"

(* A saturating subtraction.                                                *)
UncommittedRows ==
    IF counts.observed > commit.committed THEN counts.observed - commit.committed ELSE 0

(* outcome_error; "ok" is exit status 0.                                    *)
ExitStatus ==
    IF commit_failure THEN "commit_failed"
    ELSE IF counts.errors > 0 THEN "incomplete"
    ELSE "ok"

(* What the human report closes with; finalize_ingest prints no report of   *)
(* a run without candidates.                                                *)
Headline ==
    CASE NumFiles = 0 -> "nothing_to_ingest"
      [] NumFiles > 0 /\ Status = "commit_failed" -> "run_again"
      [] NumFiles > 0 /\ Status # "commit_failed" /\ ~HasCommitter -> "dry_run"
      [] NumFiles > 0 /\ Status = "success" /\ HasCommitter -> "ingested"
      [] NumFiles > 0 /\ Status = "incomplete" /\ HasCommitter -> "files_failed"

(* The line run prints about the commits before the summary.                *)
CommitLine ==
    IF commit.batches_committed + commit.batches_failed = 0 THEN "none"
    ELSE IF commit_failure THEN "FAILED"
    ELSE "OK"

(* The two verdicts agree, and are true of the catalog.  Without a failed   *)
(* commit nothing is missing and nothing skipped; a caller that sees        *)
(* exit status 0 has every candidate observed or unchanged, and in ingest   *)
(* mode every row in the catalog.  Whatever failed, the report owns up to   *)
(* at least the rows that are missing, and to none if no commit failed;     *)
(* `not_attempted` means that nothing arrived.  A reader of the human       *)
(* report learns the same: the three places that speak of the commits never *)
(* contradict each other, files that were not started are announced, and    *)
(* `ingested` is printed only over a catalog with every row.                *)
ReportIsTrue ==
    /\ NoSilentLoss
    /\ Finished =>
          /\ Status = "success" <=> ExitStatus = "ok"
          /\ Status = "commit_failed" <=> ExitStatus = "commit_failed"
          /\ ExitStatus = "ok" => /\ counts.observed + counts.unchanged = NumFiles
                                  /\ HasCommitter => catalog = produced
          /\ CatalogCommit = "not_attempted" => catalog = <<>>
          /\ HasCommitter =>
               /\ Len(produced) - Len(catalog) <= UncommittedRows
               /\ CatalogCommit # "failed" => UncommittedRows = 0
          /\ CommitLine = "FAILED" <=> Status = "commit_failed"
          /\ CommitLine = "none" => catalog = <<>>
          /\ Headline = "run_again" => commit_failure
          /\ counts.skipped > 0 => Headline = "run_again"
          /\ Headline = "ingested" => /\ ExitStatus = "ok"
                                      /\ catalog = produced
=============================================================================
