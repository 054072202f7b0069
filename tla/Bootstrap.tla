----------------------------- MODULE Bootstrap -----------------------------
(***************************************************************************)
(* `init` (lakehouse/mod.rs): bucket, Lakekeeper project, warehouse,       *)
(* namespace and table are each looked up and, unless found, created, and  *)
(* the project's id is kept in a state file for the later commands.        *)
(*                                                                         *)
(* Nothing holds the steps together: a process may be killed between any   *)
(* two of them, a request may be applied though its answer is lost, and    *)
(* another init may run at the same time.  What makes the command safe to  *)
(* repeat is that every creation takes a conflict (409) for success.  An   *)
(* action is one HTTP exchange, or one call on the state file.             *)
(*                                                                         *)
(* The stack is external, modelled as the code uses it: one project of the *)
(* name PROJECT_NAME, holding warehouse, namespace and table.  It may be   *)
(* reset between runs, which leaves the state file behind.                 *)
(***************************************************************************)
EXTENDS Naturals

CONSTANTS
    Procs,              \* init processes that may run at the same time
    Stacks,             \* what the server may hold at first: "none", "current",
                        \*   or a table from before v0.3.0, "old"
    ConfiguredId,       \* ANTI_ENTROPATOR_PROJECT_ID, or NoId
    LegacyId,           \* what .lakehouse_state.json holds, or NoId
    ConflictCarriesId,  \* the 409 for the project has a project-id
    MaxRuns, MaxResets  \* bounds on the invocations and on the resets

(* Project ids are numbers in the order of their creation; FirstId belongs  *)
(* to an installation made before.                                          *)
NoId    == 0
FirstId == 1
Nobody  == "nobody"

ASSUME BootstrapAssumption ==
    /\ Nobody \notin Procs
    /\ Stacks \subseteq {"none", "current", "old"}
    /\ ConfiguredId \in {NoId, FirstId} /\ LegacyId \in {NoId, FirstId}
    /\ ConflictCarriesId \in BOOLEAN
    /\ MaxRuns \in Nat /\ MaxResets \in Nat

VARIABLES
    exists,      \* what exists of Resources
    project,     \* the id of the server's project, or NoId
    schema,      \* of the table: "old" if made before v0.3.0
    issued,      \* the last project id given out
    state_file,  \* the id it yields, NoId if unreadable; `by`, history:
                 \* whose current or last invocation wrote it
    pc,          \* the next exchange of each process, or "idle"
    project_id,  \* the id each process works with
    fault,       \* processes of whose invocation a request failed
    outcome,     \* of the last invocation: "none", "ok", "failed", "killed",
                 \*   "refused" for want of credentials
    runs, resets \* invocations and resets so far

server  == <<exists, project, schema, issued>>
process == <<pc, project_id, fault, outcome>>
bounds  == <<runs, resets>>
vars    == <<server, state_file, process, bounds>>

Resources == {"bucket", "warehouse", "namespace", "table"}

Steps == {"connect", "bucket_head", "bucket_put", "load", "verify", "project_post",
          "save", "saving", "warehouse_list", "warehouse_post", "namespace_config",
          "namespace_head", "namespace_post", "table_config", "table_head",
          "table_post", "schema"}

(* The state file may be left from an earlier stack.                        *)
Init ==
    /\ \E stack \in Stacks :
         /\ exists = IF stack = "none" THEN {} ELSE Resources
         /\ project = IF stack = "none" THEN NoId ELSE FirstId
         /\ schema = IF stack = "old" THEN "old" ELSE "current"
    /\ issued = FirstId
    /\ state_file \in [id : {NoId, FirstId}, by : {Nobody}]
    /\ pc = [p \in Procs |-> "idle"] /\ project_id = [p \in Procs |-> NoId]
    /\ fault = {} /\ outcome = [p \in Procs |-> "none"]
    /\ runs = 0 /\ resets = 0

-----------------------------------------------------------------------------
(* How an exchange ends *)

Continue(p, step) ==
    /\ pc' = [pc EXCEPT ![p] = step]
    /\ UNCHANGED <<fault, outcome>>

(* It failed, and the code carries on.                                      *)
CarryOn(p, step) ==
    /\ pc' = [pc EXCEPT ![p] = step]
    /\ fault' = fault \cup {p}
    /\ outcome' = outcome

(* It failed, and so does the command.                                      *)
GiveUp(p) ==
    /\ pc' = [pc EXCEPT ![p] = "idle"]
    /\ fault' = fault \cup {p}
    /\ outcome' = [outcome EXCEPT ![p] = "failed"]

(* All is answered, and the command refuses to go on.                       *)
Refuse(p) ==
    /\ pc' = [pc EXCEPT ![p] = "idle"]
    /\ outcome' = [outcome EXCEPT ![p] = "failed"]
    /\ fault' = fault

CreateOrConflictFails(p, resource, step) ==
    /\ \/ resource \notin exists /\ exists' = exists \cup {resource} /\ Continue(p, step)
       \/ resource \in exists /\ exists' = exists /\ Refuse(p)
       \/ exists' \in {exists, exists \cup {resource}} /\ GiveUp(p)
    /\ UNCHANGED <<project, schema, issued, state_file, project_id, bounds>>

(* A creation: success and conflict (409) are the same to the caller; a     *)
(* failed one may have been applied.  What exists is kept as it is.         *)
Create(p, resource, step) ==
    /\ \/ exists' = exists \cup {resource} /\ Continue(p, step)
       \/ exists' \in {exists, exists \cup {resource}} /\ GiveUp(p)
    /\ UNCHANGED <<project, schema, issued, state_file, project_id, bounds>>

(* A lookup: the answer decides.                                            *)
Found(p, resource, step, otherwise) ==
    Continue(p, IF resource \in exists THEN step ELSE otherwise)

-----------------------------------------------------------------------------
(* The steps of init *)

(* Without the two keys in the environment (validate_s3_credentials) the    *)
(* command is refused before its first request.                             *)
Start(p) ==
    /\ pc[p] = "idle" /\ runs < MaxRuns
    /\ runs' = runs + 1
    /\ state_file' = [state_file EXCEPT !.by = IF @ = p THEN Nobody ELSE @]
    /\ project_id' = [project_id EXCEPT ![p] = NoId]
    /\ fault' = fault \ {p}
    /\ \/ pc' = [pc EXCEPT ![p] = "connect"] /\ outcome' = [outcome EXCEPT ![p] = "none"]
       \/ pc' = pc /\ outcome' = [outcome EXCEPT ![p] = "refused"]
    /\ UNCHANGED <<server, resets>>

(* Both services answer, or the command ends.                               *)
Connect(p) ==
    /\ pc[p] = "connect"
    /\ Continue(p, "bucket_head") \/ GiveUp(p)
    /\ UNCHANGED <<server, state_file, project_id, bounds>>

(* Any answer but success, and none, leads to the PUT.                      *)
CheckBucket(p) ==
    /\ pc[p] = "bucket_head"
    /\ \/ Found(p, "bucket", "load", "bucket_put")
       \/ CarryOn(p, "bucket_put")
    /\ UNCHANGED <<server, state_file, project_id, bounds>>

CreateBucket(p) ==
    /\ pc[p] = "bucket_put"
    /\ Create(p, "bucket", "load")

LoadLegacyFirst ==
    IF LegacyId # NoId THEN LegacyId ELSE state_file.id

(* The state file, with the legacy file as fallback.                        *)
Load == IF state_file.id # NoId THEN state_file.id ELSE LegacyId

(* What every other command takes for the project.                          *)
Resolve == IF ConfiguredId # NoId THEN ConfiguredId ELSE Load

LoadId(p) ==
    /\ pc[p] = "load"
    /\ project_id' = [project_id EXCEPT ![p] = Resolve]
    /\ Continue(p, IF Resolve = NoId THEN "project_post" ELSE "verify")
    /\ UNCHANGED <<server, state_file, bounds>>

(* verify_project_exists: any failure reads as "gone".                      *)
Verify(p) ==
    /\ pc[p] = "verify"
    /\ \/ Continue(p, IF project = project_id[p] THEN "save" ELSE "project_post")
       \/ CarryOn(p, "project_post")
    /\ UNCHANGED <<server, state_file, project_id, bounds>>

NewProject == project' = issued + 1 /\ issued' = issued + 1

(* The project is there already: its id has to be in the answer.            *)
ProjectConflict(p) ==
    /\ project # NoId /\ UNCHANGED <<project, issued>>
    /\ IF ConflictCarriesId
         THEN project_id' = [project_id EXCEPT ![p] = project] /\ Continue(p, "save")
         ELSE project_id' = project_id /\ Refuse(p)

EnsureProject(p) ==
    /\ pc[p] = "project_post"
    /\ \/ /\ project = NoId /\ NewProject
          /\ project_id' = [project_id EXCEPT ![p] = project']
          /\ Continue(p, "save")
       \/ ProjectConflict(p)
       \/ /\ (project = NoId /\ NewProject) \/ UNCHANGED <<project, issued>>
          /\ project_id' = project_id /\ GiveUp(p)
    /\ UNCHANGED <<exists, schema, state_file, bounds>>

(* save_state opens the file, which empties it, or fails before: a warning. *)
OpenStateFile(p) ==
    /\ pc[p] = "save"
    /\ \/ state_file' = [id |-> NoId, by |-> Nobody] /\ Continue(p, "saving")
       \/ state_file' = state_file /\ CarryOn(p, "warehouse_list")
    /\ UNCHANGED <<server, project_id, bounds>>

WriteStateFile(p) ==
    /\ pc[p] = "saving"
    /\ \/ state_file' = [id |-> project_id[p], by |-> p] /\ Continue(p, "warehouse_list")
       \/ state_file' = state_file /\ CarryOn(p, "warehouse_list")
    /\ UNCHANGED <<server, project_id, bounds>>

(* No answer ends the command, an error status does not.                    *)
ListWarehouses(p) ==
    /\ pc[p] = "warehouse_list"
    /\ \/ Found(p, "warehouse", "namespace_config", "warehouse_post")
       \/ CarryOn(p, "warehouse_post")
       \/ GiveUp(p)
    /\ UNCHANGED <<server, state_file, project_id, bounds>>

CreateWarehouse(p) ==
    /\ pc[p] = "warehouse_post"
    /\ Create(p, "warehouse", "namespace_config")

(* The catalog config of the warehouse, fetched again for the table.        *)
GetWarehousePrefix(p) ==
    /\ \/ pc[p] = "namespace_config" /\ (Continue(p, "namespace_head") \/ GiveUp(p))
       \/ pc[p] = "table_config" /\ (Continue(p, "table_head") \/ GiveUp(p))
    /\ UNCHANGED <<server, state_file, project_id, bounds>>

NoAnswerIsYes(p) ==
    /\ pc[p] = "namespace_head"
    /\ \/ Found(p, "namespace", "table_config", "namespace_post")
       \/ CarryOn(p, "table_config")
    /\ UNCHANGED <<server, state_file, project_id, bounds>>

CheckNamespace(p) ==
    /\ pc[p] = "namespace_head"
    /\ \/ Found(p, "namespace", "table_config", "namespace_post")
       \/ CarryOn(p, "namespace_post")
    /\ UNCHANGED <<server, state_file, project_id, bounds>>

CreateNamespace(p) ==
    /\ pc[p] = "namespace_post"
    /\ Create(p, "namespace", "table_config")

CheckTable(p) ==
    /\ pc[p] = "table_head"
    /\ \/ Found(p, "table", "schema", "table_post")
       \/ CarryOn(p, "table_post")
    /\ UNCHANGED <<server, state_file, project_id, bounds>>

(* A table that exists keeps its schema.                                    *)
CreateTable(p) ==
    /\ pc[p] = "table_post"
    /\ Create(p, "table", "schema")

(* A table from before v0.3.0 is refused; otherwise init is done.           *)
CheckTableSchema(p) ==
    /\ pc[p] = "schema"
    /\ \/ /\ schema = "current"
          /\ pc' = [pc EXCEPT ![p] = "idle"]
          /\ outcome' = [outcome EXCEPT ![p] = "ok"] /\ fault' = fault
       \/ schema = "old" /\ Refuse(p)
       \/ GiveUp(p)
    /\ UNCHANGED <<server, state_file, project_id, bounds>>

-----------------------------------------------------------------------------
(* The environment *)

Kill(p) ==
    /\ pc[p] # "idle"
    /\ pc' = [pc EXCEPT ![p] = "idle"]
    /\ outcome' = [outcome EXCEPT ![p] = "killed"]
    /\ UNCHANGED <<server, state_file, project_id, fault, bounds>>

Idle == \A p \in Procs : pc[p] = "idle"

Reset ==
    /\ Idle /\ resets < MaxResets
    /\ resets' = resets + 1
    /\ exists' = {} /\ project' = NoId /\ schema' = "current"
    /\ outcome' = [p \in Procs |-> "none"]
    /\ UNCHANGED <<issued, state_file, pc, project_id, fault, runs>>

Stopped == Idle /\ runs = MaxRuns /\ resets = MaxResets /\ UNCHANGED vars

InitStep(p) ==
    \/ Connect(p) \/ CheckBucket(p) \/ CreateBucket(p)
    \/ LoadId(p) \/ Verify(p) \/ EnsureProject(p)
    \/ OpenStateFile(p) \/ WriteStateFile(p)
    \/ ListWarehouses(p) \/ CreateWarehouse(p) \/ GetWarehousePrefix(p)
    \/ CheckNamespace(p) \/ CreateNamespace(p)
    \/ CheckTable(p) \/ CreateTable(p) \/ CheckTableSchema(p)

Next ==
    \/ \E p \in Procs : Start(p) \/ InitStep(p) \/ Kill(p)
    \/ Reset \/ Stopped

Spec == Init /\ [][Next]_vars
-----------------------------------------------------------------------------
(* Properties *)

(* The steps after the project is known.                                    *)
HasProject == Steps \ {"connect", "bucket_head", "bucket_put", "load", "verify",
                       "project_post"}

(* Shape of the state; a process past the project step works with the       *)
(* project the server has.                                                  *)
TypeOK ==
    /\ exists \subseteq Resources /\ schema \in {"current", "old"}
    /\ project \in 0 .. issued
    /\ issued \in Nat \ {NoId}
    /\ state_file \in [id : Nat, by : Procs \cup {Nobody}]
    /\ pc \in [Procs -> Steps \cup {"idle"}]
    /\ project_id \in [Procs -> Nat]
    /\ fault \subseteq Procs
    /\ outcome \in [Procs -> {"none", "ok", "failed", "killed", "refused"}]
    /\ \A p \in Procs : pc[p] \in HasProject => project_id[p] = project

(* What ingest and query need: the id names the project, and it holds a     *)
(* table of the expected schema.                                            *)
Usable(id) ==
    id # NoId /\ project = id /\ exists = Resources /\ schema = "current"

(* An init that reports success leaves everything in place, though each     *)
(* step may have been taken over from a killed run, found by a lookup,      *)
(* applied without an answer or lost to another init; and it stays in place *)
(* until the stack is reset, whatever later runs do.                        *)
SuccessMeansReady ==
    \A p \in Procs : outcome[p] = "ok" => Usable(project_id[p])

(* ... and if it was the last to write the state file, the other commands   *)
(* find it: what they resolve is that lakehouse, not the legacy file's or   *)
(* an id from before a reset.                                               *)
CommandsWork ==
    \A p \in Procs :
        outcome[p] = "ok" /\ state_file.by = p => Usable(Resolve)

(* init may be repeated ("idempotent", getting-started.md): a run that has  *)
(* its credentials and all of whose requests are answered succeeds,         *)
(* whatever earlier runs that were killed or failed have left on the server *)
(* and in the state file, and whatever another one does meanwhile.  Only a  *)
(* table from before v0.3.0 ends it.                                        *)
CalmInitSucceeds ==
    \A p \in Procs :
        outcome[p] = "failed" => p \in fault \/ schema = "old"
=============================================================================
