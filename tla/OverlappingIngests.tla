------------------------- MODULE OverlappingIngests -------------------------
(***************************************************************************)
(* Two ingest processes over one source at once.  report_open_runs assumes *)
(* "the earlier writer has stopped; there is no lease yet" (ingest/mod.rs) *)
(* and nothing keeps a user from starting a second ingest: then either     *)
(* process takes the other's journal for that of an interrupted run, both  *)
(* load the same state, and both write back journals they read long ago.   *)
(*                                                                         *)
(* Both processes run the actions of IngestRecovery, the second one over   *)
(* variables of its own; files, clock, catalog and bucket are shared.      *)
(***************************************************************************)
EXTENDS IngestRecovery

VARIABLES
    me2, pc2, known2, open_runs2, counted2, todo2, seen2, rows2, writing2,
    batches2, failed2, errors2, journal2,   \* the memory of the second process
    undisturbed   \* history: the first process's run is the only one since it loaded

proc2 == <<me2, pc2, known2, open_runs2, counted2, todo2, seen2, rows2, writing2,
           batches2, failed2, errors2, journal2>>

Second == INSTANCE IngestRecovery WITH
    me <- me2, pc <- pc2, known <- known2, open_runs <- open_runs2,
    counted <- counted2, todo <- todo2, seen <- seen2, rows <- rows2,
    writing <- writing2, batches <- batches2, failed <- failed2,
    errors <- errors2, journal <- journal2

ovars == <<vars, proc2, undisturbed>>

OInit == Init /\ Second!Init /\ undisturbed = FALSE

(* Nothing of any other run is under way, and the clock is past all it      *)
(* wrote and has named one row of each path as the latest: what ADR-009     *)
(* calls a single local writer.                                             *)
Alone ==
    /\ pc2 = "idle" /\ inflight = {}
    /\ \A i \in DOMAIN catalog : catalog[i].at < clock'
    /\ \A p \in Paths : Cardinality(Latest(p)) <= 1

(* Bounds: any runs may overlap but the last, which is the first process's  *)
(* and starts when the second has ended and all edits are made (it reads a  *)
(* path once, so an edit during it is one before it or after it); and the   *)
(* clock is set back only when the second process starts a run.             *)
LastRun == started' = MaxRuns /\ started' # started

FirstSteps ==
    /\ RunStep /\ UNCHANGED proc2
    /\ LastRun => pc2 = "idle" /\ edits = MaxEdits
    /\ clock <= clock'
    /\ undisturbed' = IF me' # me THEN Alone ELSE undisturbed

SecondSteps ==
    /\ Second!RunStep /\ UNCHANGED proc
    /\ ~LastRun
    /\ undisturbed' = (undisturbed /\ me2' = me2)

ONext ==
    \/ (Environment \/ LateCommit) /\ UNCHANGED <<proc2, undisturbed>>
    \/ FirstSteps \/ SecondSteps
    \/ Stopped /\ Second!Stopped /\ UNCHANGED ovars

OSpec == OInit /\ [][ONext]_ovars
-----------------------------------------------------------------------------
(* Properties *)

(* What a completed run read of its candidates is in the catalog, whatever  *)
(* the other process, the clock and late commits do: a double observation   *)
(* is the worst of it, a lost one does not happen.                          *)
BothRecorded == CompletedIsRecorded /\ Second!CompletedIsRecorded

(* Journals are written back over each other, and a closure of a live run   *)
(* is lost again; but none ever claims more rows than the catalog has, none *)
(* says `completed` or `incomplete` of a run with other rows than it shows, *)
(* and every run with rows in the catalog has a journal.                    *)
NothingOverclaims ==
    /\ \A i \in DOMAIN catalog : catalog[i].run \in DOMAIN journals
    /\ \A r \in DOMAIN journals :
          /\ RowsCommitted(journals[r]) <= CountForRun(r)
          /\ Outcome(journals[r]) \in {"completed", "incomplete"} =>
                RowsCommitted(journals[r]) = CountForRun(r)
          /\ \A i \in DOMAIN journals[r] :
                journals[r][i].state = "reconciled" =>
                    journals[r][i].rows_in_catalog <= CountForRun(r)

(* Overlaps heal: a run that is alone again needs nothing but its own load  *)
(* of the catalog to be right, however the runs before it overlapped.  It   *)
(* completes with what it read as the current state, and none of its rows   *)
(* repeats the observation made last before it.  (Made, not recorded: of    *)
(* two overlapping runs the later observation may be committed first.)      *)
LoneRunIsSound ==
    undisturbed =>
        /\ CompletedIsCurrent
        /\ \A i, j \in DOMAIN catalog :
              /\ catalog[j].run = me /\ catalog[i].path = catalog[j].path
              /\ catalog[i].at < catalog[j].at
              /\ ~\E k \in RowsOf(catalog[j].path) :
                     catalog[i].at < catalog[k].at /\ catalog[k].at < catalog[j].at
              => catalog[i].content # catalog[j].content
=============================================================================
