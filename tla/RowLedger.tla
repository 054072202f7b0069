----------------------------- MODULE RowLedger -----------------------------
(***************************************************************************)
(* What one ingest run promises about its observation rows, without files, *)
(* workers, channel or batches: rows are produced one by one, the catalog  *)
(* receives them in that order and never twice, and the run ends either    *)
(* with every row in the catalog or with a failure it reports.  An error   *)
(* of the committer is such a failure whether or not its rows arrived.     *)
(***************************************************************************)
EXTENDS Naturals, Sequences

CONSTANTS
    Rows,      \* the rows a run may produce
    MaxBatch   \* rows per append, a positive number

VARIABLES
    rows,    \* produced so far, in order
    stored,  \* in the catalog, in order
    status   \* "running", "failed": a commit failed, "finished"

ledger == <<rows, stored, status>>

Init == rows = <<>> /\ stored = <<>> /\ status = "running"

(* A row is produced at most once; a failed run still produces the rows of *)
(* the files in flight.                                                     *)
Produce(r) ==
    /\ status # "finished"
    /\ r \notin {rows[i] : i \in DOMAIN rows}
    /\ rows' = Append(rows, r)
    /\ UNCHANGED <<stored, status>>

NextRows(n) == SubSeq(rows, Len(stored) + 1, Len(stored) + n)

(* The next at most MaxBatch rows are appended.                             *)
Store(n) ==
    /\ status = "running"
    /\ Len(stored) + n <= Len(rows)
    /\ stored' = stored \o NextRows(n)
    /\ UNCHANGED <<rows, status>>

(* An append was answered with an error; its rows may have been stored.     *)
Fail ==
    /\ status = "running"
    /\ status' = "failed"
    /\ UNCHANGED <<rows, stored>>

(* The run ends well: everything is stored.                                 *)
Finish ==
    /\ status = "running"
    /\ Len(stored) = Len(rows)
    /\ status' = "finished"
    /\ UNCHANGED <<rows, stored>>

Next ==
    \/ \E r \in Rows : Produce(r)
    \/ \E n \in 1 .. MaxBatch : Store(n)
    \/ Fail
    \/ Finish

Spec == Init /\ [][Next]_ledger
=============================================================================
