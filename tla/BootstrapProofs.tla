-------------------------- MODULE BootstrapProofs --------------------------
(***************************************************************************)
(* Theorems about the commands that make the stack ready: what `init` does *)
(* to it (Bootstrap), for any set of processes and any bounds, and what    *)
(* `doctor`, `up` and the beginning of `init` say of it (Preflight).       *)
(*                                                                         *)
(* For init, the invariant says what each process may take for granted at  *)
(* each step.  It is stable because between two resets the server only     *)
(* grows, and a reset happens only while no process relies on anything.    *)
(* For the checks, it says that a verdict which stands is that of all the  *)
(* checks in the present world, though each was made on its own.           *)
(***************************************************************************)
EXTENDS Bootstrap, Preflight, SequenceTheorems, TLAPS

PastBucket    == Steps \ {"connect", "bucket_head", "bucket_put"}
PastWarehouse == {"namespace_config", "namespace_head", "namespace_post",
                  "table_config", "table_head", "table_post", "schema"}
PastNamespace == {"table_config", "table_head", "table_post", "schema"}
PastSave      == PastWarehouse \cup {"warehouse_list", "warehouse_post"}

(* What process p has seen to before its present step.                      *)
Progress(p) ==
    /\ pc[p] \in PastBucket => "bucket" \in exists
    /\ pc[p] = "verify" => project_id[p] # NoId
    /\ pc[p] \in HasProject => project # NoId
    /\ pc[p] \in PastWarehouse => "warehouse" \in exists
    /\ pc[p] \in PastNamespace => "namespace" \in exists
    /\ pc[p] = "schema" => "table" \in exists

(* The state file that p wrote holds the id p works with.                   *)
Stored(p) ==
    state_file.by = p =>
        /\ pc[p] \in PastSave \cup {"idle"}
        /\ state_file.id = project_id[p] /\ project_id[p] # NoId

Ready(p) == outcome[p] = "ok" => pc[p] = "idle" /\ Usable(project_id[p])

Relies(p) == Progress(p) /\ Stored(p) /\ Ready(p)

BInv == TypeOK /\ \A p \in Procs : Relies(p)

(* Between resets the server only grows.                                    *)
Grows ==
    /\ exists \subseteq exists' /\ schema' = schema
    /\ project # NoId => project' = project

(* A step of p leaves the other processes alone.                            *)
Alone(p) ==
    /\ \A q \in Procs \ {p} :
        /\ pc'[q] = pc[q] /\ project_id'[q] = project_id[q]
        /\ outcome'[q] = outcome[q]
    /\ state_file'.by \in {p, Nobody} \/ state_file' = state_file

-----------------------------------------------------------------------------
(* The invariant holds initially.                                           *)
LEMMA InitHolds == Init => BInv
<1> SUFFICES ASSUME Init PROVE BInv
  OBVIOUS
<1>1. TypeOK
  BY DEF Init, TypeOK, NoId, FirstId, Resources, Steps, HasProject
<1>2. ASSUME NEW p \in Procs PROVE Relies(p)
  BY BootstrapAssumption
     DEF Init, Relies, Progress, Stored, Ready, HasProject, Steps,
         PastBucket, PastWarehouse, PastNamespace
<1>3. QED
  BY <1>1, <1>2 DEF BInv

(* What a process relies on survives a step of another one.                 *)
LEMMA OthersKeep ==
    ASSUME BInv, NEW p \in Procs, Grows, Alone(p), exists' \subseteq Resources,
           NEW q \in Procs \ {p}
    PROVE  Relies(q)'
<1>1. pc'[q] = pc[q] /\ project_id'[q] = project_id[q] /\ outcome'[q] = outcome[q]
  BY DEF Alone
<1>2. Relies(q)
  BY DEF BInv
<1>3. Progress(q)'
  BY <1>1, <1>2 DEF Relies, Progress, Grows
<1>4. Stored(q)'
  <2>1. state_file'.by = q => state_file' = state_file
    BY BootstrapAssumption DEF Alone
  <2>2. QED
    BY <1>1, <1>2, <2>1 DEF Relies, Stored
<1>5. Ready(q)'
  BY <1>1, <1>2 DEF Relies, Ready, Usable, Grows
<1>6. QED
  BY <1>3, <1>4, <1>5 DEF Relies

(* So a step of p that only lets the server grow has to be checked for p.   *)
LEMMA StepKeeps ==
    ASSUME BInv, NEW p \in Procs, Grows, Alone(p), TypeOK', Relies(p)'
    PROVE  BInv'
<1>1. exists' \subseteq Resources
  BY DEF TypeOK
<1>2. ASSUME NEW q \in Procs \ {p} PROVE Relies(q)'
  BY <1>1, OthersKeep
<1>3. QED
  BY <1>2 DEF BInv

-----------------------------------------------------------------------------
(* The steps of one process.  How an exchange ends decides what is left to  *)
(* show: the next step may rely on what it takes for granted.               *)

Ends(p) == GiveUp(p) \/ Refuse(p)

(* A command that ends without success relies on nothing any more.          *)
LEMMA EndingSteps ==
    ASSUME BInv, NEW p \in Procs, pc[p] \in Steps, Ends(p), Grows,
           exists' \subseteq Resources, project' \in 0 .. issued',
           issued' \in Nat \ {NoId},
           UNCHANGED <<state_file, project_id>>
    PROVE  BInv'
<1>1. Alone(p)
  BY DEF Alone, Ends, GiveUp, Refuse, BInv, TypeOK
<1>2. pc'[p] = "idle" /\ outcome'[p] = "failed"
  BY DEF Ends, GiveUp, Refuse, BInv, TypeOK
<1>3. TypeOK'
  <2>1. pc' \in [Procs -> Steps \cup {"idle"}]
    BY DEF Ends, GiveUp, Refuse, BInv, TypeOK
  <2>2. outcome' \in [Procs -> {"none", "ok", "failed", "killed", "refused"}] /\ fault' \subseteq Procs
    BY DEF Ends, GiveUp, Refuse, BInv, TypeOK
  <2>3. ASSUME NEW q \in Procs, pc'[q] \in HasProject PROVE project_id'[q] = project'
    <3>1. q # p
      BY <1>2, <2>3 DEF HasProject, Steps
    <3>2. pc[q] \in HasProject /\ project_id[q] = project /\ project # NoId
      BY <1>1, <2>3, <3>1 DEF Alone, BInv, TypeOK, Relies, Progress
    <3>3. QED
      BY <3>2 DEF Grows
  <2>4. QED
    BY <2>1, <2>2, <2>3 DEF BInv, TypeOK, Grows
<1>4. Relies(p)'
  BY <1>2 DEF BInv, Relies, Progress, Stored, Ready, PastBucket, PastWarehouse,
              PastNamespace, HasProject, Steps
<1>5. QED
  BY <1>1, <1>3, <1>4, StepKeeps

(* p goes on to a next step, after an answer or without one.                *)
GoesOn(p, step) ==
    /\ pc' = [pc EXCEPT ![p] = step] /\ outcome' = outcome
    /\ fault' \subseteq Procs

LEMMA ContinueOrCarryOn ==
    ASSUME BInv, NEW p \in Procs, NEW step \in Steps,
           Continue(p, step) \/ CarryOn(p, step)
    PROVE  GoesOn(p, step)
BY DEF Continue, CarryOn, GoesOn, BInv, TypeOK

(* It has to be shown that the next step may rely on what it takes for      *)
(* granted.                                                                 *)
LEMMA GoingOn ==
    ASSUME BInv, NEW p \in Procs, pc[p] \in Steps, NEW step \in Steps,
           GoesOn(p, step), Grows, exists' \subseteq Resources,
           project' \in 0 .. issued', issued' \in Nat \ {NoId},
           NEW id \in Nat, project_id' = [project_id EXCEPT ![p] = id],
           state_file' \in [id : Nat, by : Procs \cup {Nobody}],
           state_file'.by \in {p, Nobody} \/ state_file' = state_file,
           state_file'.by = p => step \in PastSave /\ state_file'.id = id /\ id # NoId,
           step \in HasProject => id = project' /\ id # NoId,
           step = "verify" => id # NoId,
           step \in PastBucket => "bucket" \in exists',
           step \in PastWarehouse => "warehouse" \in exists',
           step \in PastNamespace => "namespace" \in exists',
           step = "schema" => "table" \in exists'
    PROVE  BInv'
<1>1. pc'[p] = step /\ project_id'[p] = id /\ outcome'[p] = outcome[p]
  BY DEF GoesOn, BInv, TypeOK
<1>2. Alone(p)
  BY DEF GoesOn, Alone, BInv, TypeOK
<1>3. TypeOK'
  <2>1. /\ pc' \in [Procs -> Steps \cup {"idle"}] /\ project_id' \in [Procs -> Nat]
        /\ outcome' \in [Procs -> {"none", "ok", "failed", "killed", "refused"}]
        /\ fault' \subseteq Procs
    BY DEF GoesOn, BInv, TypeOK
  <2>2. ASSUME NEW q \in Procs, pc'[q] \in HasProject PROVE project_id'[q] = project'
    <3>1. CASE q = p
      BY <1>1, <2>2, <3>1
    <3>2. CASE q # p
      <4>1. pc[q] \in HasProject /\ project_id[q] = project /\ project # NoId
        BY <1>2, <2>2, <3>2 DEF Alone, BInv, TypeOK, Relies, Progress
      <4>2. QED
        BY <1>2, <3>2, <4>1 DEF Alone, Grows
    <3>3. QED
      BY <3>1, <3>2
  <2>3. schema' \in {"current", "old"}
    BY DEF Grows, BInv, TypeOK
  <2>4. QED
    BY <2>1, <2>2, <2>3 DEF TypeOK
<1>4. Progress(p)'
  BY <1>1 DEF Progress
<1>5. Stored(p)'
  BY <1>1 DEF Stored
<1>6. Ready(p)'
  <2>1. outcome[p] # "ok"
    BY DEF BInv, Relies, Ready, Steps
  <2>2. QED
    BY <1>1, <2>1 DEF Ready
<1>7. QED
  BY <1>2, <1>3, <1>4, <1>5, <1>6, StepKeeps DEF Relies

-----------------------------------------------------------------------------
(* The actions *)

(* What a step that leaves the server and the files alone keeps.            *)
LEMMA NothingChanges ==
    ASSUME BInv, UNCHANGED <<server, state_file, project_id>>
    PROVE  /\ Grows /\ exists' \subseteq Resources
           /\ project' \in 0 .. issued' /\ issued' \in Nat \ {NoId}
           /\ state_file' \in [id : Nat, by : Procs \cup {Nobody}]
           /\ \A p \in Procs : /\ project_id[p] \in Nat
                                /\ project_id' = [project_id EXCEPT ![p] = project_id[p]]
BY DEF Grows, BInv, TypeOK, server

(* A lookup may lead to the step after the creation, if the resource is     *)
(* there, or to the creation.                                               *)
LEMMA ReadingSteps ==
    ASSUME BInv, NEW p \in Procs,
           \/ Connect(p) \/ CheckBucket(p) \/ ListWarehouses(p)
           \/ GetWarehousePrefix(p) \/ CheckNamespace(p) \/ CheckTable(p)
    PROVE  BInv'
<1>1. UNCHANGED <<server, state_file, project_id>>
  BY DEF Connect, CheckBucket, ListWarehouses, GetWarehousePrefix, CheckNamespace,
         CheckTable
<1>2. pc[p] \in Steps
  BY DEF Connect, CheckBucket, ListWarehouses, GetWarehousePrefix, CheckNamespace,
         CheckTable, Steps
<1>3. /\ Progress(p) /\ Stored(p)
      /\ pc[p] \in HasProject => project_id[p] = project
  BY DEF BInv, Relies, TypeOK
<1>4. CASE GiveUp(p)
  BY <1>1, <1>2, <1>4, NothingChanges, EndingSteps DEF Ends
<1>5. ASSUME NEW step \in Steps,
             Continue(p, step) \/ CarryOn(p, step),
             step # "verify",
             step \in HasProject => pc[p] \in HasProject,
             state_file.by = p => step \in PastSave,
             step \in PastBucket => pc[p] \in PastBucket \/ "bucket" \in exists,
             step \in PastWarehouse => pc[p] \in PastWarehouse \/ "warehouse" \in exists,
             step \in PastNamespace => pc[p] \in PastNamespace \/ "namespace" \in exists,
             step = "schema" => "table" \in exists
      PROVE  BInv'
  <2>1. GoesOn(p, step)
    BY <1>5, ContinueOrCarryOn
  <2>2. exists' = exists /\ project' = project /\ state_file' = state_file
    BY <1>1 DEF server
  <2>3. /\ step \in HasProject => project_id[p] = project' /\ project_id[p] # NoId
        /\ step \in PastBucket => "bucket" \in exists'
        /\ step \in PastWarehouse => "warehouse" \in exists'
        /\ step \in PastNamespace => "namespace" \in exists'
        /\ step = "schema" => "table" \in exists'
    BY <1>3, <1>5, <2>2 DEF Progress
  <2>4. state_file'.by = p =>
          step \in PastSave /\ state_file'.id = project_id[p] /\ project_id[p] # NoId
    BY <1>3, <1>5, <2>2 DEF Stored
  <2>5. /\ Grows /\ exists' \subseteq Resources
        /\ project' \in 0 .. issued' /\ issued' \in Nat \ {NoId}
        /\ state_file' \in [id : Nat, by : Procs \cup {Nobody}]
        /\ project_id[p] \in Nat
        /\ project_id' = [project_id EXCEPT ![p] = project_id[p]]
    BY <1>1, NothingChanges
  <2>6. QED
    BY <1>2, <1>5, <2>1, <2>2, <2>3, <2>4, <2>5, GoingOn
<1> USE DEF Steps, HasProject, PastBucket, PastWarehouse, PastNamespace, PastSave
<1>6. state_file.by = p => pc[p] \in PastSave
  BY <1>2, <1>3 DEF Stored
<1>7. CASE Connect(p)
  BY <1>4, <1>5, <1>6, <1>7 DEF Connect
<1>8. CASE CheckBucket(p)
  BY <1>5, <1>6, <1>8 DEF CheckBucket, Found
<1>9. CASE ListWarehouses(p)
  BY <1>4, <1>5, <1>9 DEF ListWarehouses, Found
<1>10. CASE GetWarehousePrefix(p)
  BY <1>4, <1>5, <1>10 DEF GetWarehousePrefix
<1>11. CASE CheckNamespace(p)
  BY <1>5, <1>11 DEF CheckNamespace, Found
<1>12. CASE CheckTable(p)
  BY <1>5, <1>12 DEF CheckTable, Found
<1>13. QED
  BY <1>7, <1>8, <1>9, <1>10, <1>11, <1>12

(* What is created exists afterwards: the next step may rely on it.         *)
LEMMA CreatingSteps ==
    ASSUME BInv, NEW p \in Procs,
           \/ CreateBucket(p) \/ CreateWarehouse(p)
           \/ CreateNamespace(p) \/ CreateTable(p)
    PROVE  BInv'
<1>1. ASSUME NEW resource \in Resources, NEW step \in Steps,
             Create(p, resource, step), pc[p] \in Steps,
             step # "verify",
             step \in HasProject => pc[p] \in HasProject,
             state_file.by = p => step \in PastSave,
             step \in PastBucket => pc[p] \in PastBucket \/ resource = "bucket",
             step \in PastWarehouse => pc[p] \in PastWarehouse \/ resource = "warehouse",
             step \in PastNamespace => pc[p] \in PastNamespace \/ resource = "namespace",
             step = "schema" => resource = "table"
      PROVE  BInv'
  <2>1. /\ UNCHANGED <<project, schema, issued, state_file, project_id>>
        /\ exists' \in {exists, exists \cup {resource}}
    BY <1>1 DEF Create
  <2>2. /\ Grows /\ exists' \subseteq Resources
        /\ project' \in 0 .. issued' /\ issued' \in Nat \ {NoId}
    BY <2>1 DEF Grows, BInv, TypeOK
  <2>3. CASE GiveUp(p)
    BY <1>1, <2>1, <2>2, <2>3, EndingSteps DEF Ends
  <2>4. CASE exists' = exists \cup {resource} /\ Continue(p, step)
    <3>1. GoesOn(p, step)
      BY <2>4, ContinueOrCarryOn
    <3>2. /\ Progress(p) /\ Stored(p)
          /\ pc[p] \in HasProject => project_id[p] = project
      BY DEF BInv, Relies, TypeOK
    <3>3. /\ step \in HasProject => project_id[p] = project' /\ project_id[p] # NoId
          /\ step \in PastBucket => "bucket" \in exists'
          /\ step \in PastWarehouse => "warehouse" \in exists'
          /\ step \in PastNamespace => "namespace" \in exists'
          /\ step = "schema" => "table" \in exists'
      BY <1>1, <2>1, <2>4, <3>2 DEF Progress
    <3>4. state_file'.by = p =>
            step \in PastSave /\ state_file'.id = project_id[p] /\ project_id[p] # NoId
      BY <1>1, <2>1, <3>2 DEF Stored
    <3>5. /\ project_id[p] \in Nat
          /\ project_id' = [project_id EXCEPT ![p] = project_id[p]]
          /\ state_file' \in [id : Nat, by : Procs \cup {Nobody}]
      BY <2>1 DEF BInv, TypeOK
    <3>6. QED
      BY <1>1, <2>1, <2>2, <3>1, <3>3, <3>4, <3>5, GoingOn
  <2>5. QED
    BY <1>1, <2>3, <2>4 DEF Create
<1> USE DEF Steps, HasProject, PastBucket, PastWarehouse, PastNamespace, PastSave, Resources
<1>2. state_file.by = p => pc[p] \in PastSave \cup {"idle"}
  BY DEF BInv, Relies, Stored
<1>3. CASE CreateBucket(p)
  BY <1>1, <1>2, <1>3 DEF CreateBucket
<1>4. CASE CreateWarehouse(p)
  BY <1>1, <1>2, <1>4 DEF CreateWarehouse
<1>5. CASE CreateNamespace(p)
  BY <1>1, <1>2, <1>5 DEF CreateNamespace
<1>6. CASE CreateTable(p)
  BY <1>1, <1>2, <1>6 DEF CreateTable
<1>7. QED
  BY <1>3, <1>4, <1>5, <1>6

(* The step that settles which project it is: the id is the server's, or    *)
(* it is not worked with.                                                   *)
LEMMA ProjectSteps ==
    ASSUME BInv, NEW p \in Procs, LoadId(p) \/ Verify(p) \/ EnsureProject(p)
    PROVE  BInv'
<1> USE DEF Steps, HasProject, PastBucket, PastWarehouse, PastNamespace, PastSave
<1>1. /\ pc[p] \in {"load", "verify", "project_post"}
      /\ UNCHANGED <<exists, schema, state_file>>
  BY DEF LoadId, Verify, EnsureProject, server
<1>2. /\ "bucket" \in exists /\ state_file.by # p
      /\ pc[p] = "verify" => project_id[p] # NoId
  BY <1>1 DEF BInv, Relies, Progress, Stored
<1>3. /\ exists' \subseteq Resources /\ project_id \in [Procs -> Nat]
      /\ state_file' \in [id : Nat, by : Procs \cup {Nobody}] /\ state_file.id \in Nat
      /\ project \in 0 .. issued /\ issued \in Nat \ {NoId}
  BY <1>1 DEF BInv, TypeOK
<1>4. ASSUME NEW step \in {"verify", "project_post", "save"},
             Continue(p, step) \/ CarryOn(p, step),
             NEW id \in Nat, project_id' = [project_id EXCEPT ![p] = id],
             step = "save" => id = project' /\ id # NoId,
             step = "verify" => id # NoId,
             project # NoId => project' = project,
             project' \in 0 .. issued', issued' \in Nat \ {NoId}
      PROVE  BInv'
  <2>1. GoesOn(p, step)
    BY <1>4, ContinueOrCarryOn
  <2>2. Grows
    BY <1>1, <1>4 DEF Grows
  <2>3. QED
    BY <1>1, <1>2, <1>3, <1>4, <2>1, <2>2, GoingOn, ZenonT(60)
<1>5. CASE LoadId(p)
  <2>1. Resolve \in Nat /\ UNCHANGED <<project, issued>>
    BY <1>3, <1>5, BootstrapAssumption
       DEF Resolve, Load, LoadId, NoId, FirstId, server
  <2>2. QED
    BY <1>3, <1>4, <1>5, <2>1 DEF LoadId
<1>6. CASE Verify(p)
  <2>1. /\ project_id' = [project_id EXCEPT ![p] = project_id[p]] /\ project_id[p] \in Nat
        /\ UNCHANGED <<project, issued>> /\ project_id[p] # NoId
    BY <1>2, <1>3, <1>6 DEF Verify, server
  <2>2. QED
    BY <1>3, <1>4, <1>6, <2>1 DEF Verify
<1>7. CASE EnsureProject(p)
  <2>1. ASSUME UNCHANGED <<project, issued>> \/ (project = NoId /\ NewProject)
        PROVE  /\ project # NoId => project' = project
               /\ project' \in 0 .. issued' /\ issued' \in Nat \ {NoId}
               /\ Grows
    BY <1>1, <1>3, <2>1 DEF NewProject, NoId, Grows
  <2>2. CASE /\ project = NoId /\ NewProject
             /\ project_id' = [project_id EXCEPT ![p] = project']
             /\ Continue(p, "save")
    <3>1. project' \in Nat /\ project' # NoId
      BY <1>3, <2>2 DEF NewProject, NoId
    <3>2. QED
      BY <1>4, <2>1, <2>2, <3>1
  <2>3. CASE ProjectConflict(p) /\ ConflictCarriesId
    BY <1>3, <1>4, <2>1, <2>3 DEF ProjectConflict
  <2>4. CASE /\ UNCHANGED <<project, issued>> \/ (project = NoId /\ NewProject)
             /\ project_id' = project_id /\ Ends(p)
    BY <1>1, <1>3, <2>1, <2>4, EndingSteps
  <2>5. QED
    BY <1>7, <2>2, <2>3, <2>4 DEF EnsureProject, ProjectConflict, Ends
<1>8. QED
  BY <1>5, <1>6, <1>7

(* The id is known by then: the state file holds it, or nothing, or what    *)
(* another process wrote.                                                   *)
LEMMA SavingSteps ==
    ASSUME BInv, NEW p \in Procs, OpenStateFile(p) \/ WriteStateFile(p)
    PROVE  BInv'
<1> USE DEF Steps, HasProject, PastBucket, PastWarehouse, PastNamespace, PastSave
<1>1. pc[p] \in {"save", "saving"} /\ UNCHANGED <<exists, project, schema, issued, project_id>>
  BY DEF OpenStateFile, WriteStateFile, server
<1>2. /\ "bucket" \in exists /\ state_file.by # p
      /\ project_id[p] = project /\ project_id[p] # NoId
  BY <1>1 DEF BInv, TypeOK, Relies, Progress, Stored
<1>3. /\ Grows /\ exists' \subseteq Resources
      /\ project' \in 0 .. issued' /\ issued' \in Nat \ {NoId}
      /\ project_id[p] \in Nat
      /\ project_id' = [project_id EXCEPT ![p] = project_id[p]]
  BY <1>1 DEF Grows, BInv, TypeOK
<1>4. PICK step \in {"saving", "warehouse_list"} :
        /\ Continue(p, step) \/ CarryOn(p, step)
        /\ \/ state_file' = state_file
           \/ state_file' = [id |-> NoId, by |-> Nobody]
           \/ state_file' = [id |-> project_id[p], by |-> p] /\ step = "warehouse_list"
  BY DEF OpenStateFile, WriteStateFile
<1>5. GoesOn(p, step)
  BY <1>4, ContinueOrCarryOn
<1>6. /\ state_file' \in [id : Nat, by : Procs \cup {Nobody}]
      /\ state_file'.by \in {p, Nobody} \/ state_file' = state_file
      /\ state_file'.by = p =>
           step \in PastSave /\ state_file'.id = project_id[p] /\ project_id[p] # NoId
  <2>1. CASE state_file' = state_file
    BY <1>2, <2>1 DEF BInv, TypeOK
  <2>2. CASE state_file' = [id |-> NoId, by |-> Nobody]
    BY <2>2, BootstrapAssumption DEF NoId
  <2>3. CASE state_file' = [id |-> project_id[p], by |-> p] /\ step = "warehouse_list"
    BY <1>2, <1>3, <2>3
  <2>4. QED
    BY <1>4, <2>1, <2>2, <2>3
<1>7. /\ pc[p] \in Steps /\ step \in Steps /\ step # "verify"
      /\ step \notin PastWarehouse /\ step \notin PastNamespace /\ step # "schema"
      /\ "bucket" \in exists' /\ project_id[p] = project' /\ project_id[p] # NoId
  BY <1>1, <1>2, <1>4
<1>8. QED
  BY <1>3, <1>5, <1>6, <1>7, GoingOn, ZenonT(60)

(* Success: every resource has been seen to, and the schema is the present  *)
(* one.                                                                     *)
LEMMA LastStep ==
    ASSUME BInv, NEW p \in Procs, CheckTableSchema(p)
    PROVE  BInv'
<1> USE DEF Steps, HasProject, PastBucket, PastWarehouse, PastNamespace, PastSave
<1>1. pc[p] = "schema" /\ UNCHANGED <<server, state_file, project_id>>
  BY DEF CheckTableSchema
<1>2. /\ Grows /\ exists' \subseteq Resources
      /\ project' \in 0 .. issued' /\ issued' \in Nat \ {NoId}
  BY <1>1, NothingChanges
<1>3. CASE Ends(p)
  BY <1>1, <1>2, <1>3, EndingSteps
<1>4. CASE /\ schema = "current"
           /\ pc' = [pc EXCEPT ![p] = "idle"]
           /\ outcome' = [outcome EXCEPT ![p] = "ok"] /\ fault' = fault
  <2>1. pc'[p] = "idle" /\ Alone(p)
    BY <1>1, <1>4 DEF Alone, BInv, TypeOK
  <2>2. exists = Resources /\ project_id[p] = project /\ project # NoId
    <3>1. /\ "bucket" \in exists /\ "warehouse" \in exists
          /\ "namespace" \in exists /\ "table" \in exists
          /\ project_id[p] = project /\ project # NoId
      BY <1>1 DEF BInv, TypeOK, Relies, Progress
    <3>2. exists \subseteq Resources
      BY DEF BInv, TypeOK
    <3>3. QED
      BY <3>1, <3>2 DEF Resources
  <2>3. Usable(project_id[p])'
    BY <1>1, <1>4, <2>2 DEF Usable, server
  <2>4. Relies(p)'
    BY <1>1, <2>1, <2>3 DEF BInv, Relies, Progress, Stored, Ready
  <2>5. TypeOK'
    <3>1. /\ pc' \in [Procs -> Steps \cup {"idle"}]
          /\ outcome' \in [Procs -> {"none", "ok", "failed", "killed", "refused"}]
      BY <1>4 DEF BInv, TypeOK
    <3>2. \A q \in Procs : pc'[q] \in HasProject => pc[q] \in HasProject
      BY <1>4, <2>1 DEF Alone
    <3>3. QED
      BY <1>1, <1>4, <3>1, <3>2 DEF BInv, TypeOK, server
  <2>6. QED
    BY <1>2, <2>1, <2>4, <2>5, StepKeeps
<1>5. QED
  BY <1>3, <1>4 DEF CheckTableSchema, Ends

(* A new invocation relies on nothing yet, a killed one on nothing more.    *)
LEMMA StartsAndKills ==
    ASSUME BInv, NEW p \in Procs, Start(p) \/ Kill(p)
    PROVE  BInv'
<1> USE DEF Steps, HasProject, PastBucket, PastWarehouse, PastNamespace, PastSave
<1>1. server' = server
  BY DEF Start, Kill
<1>2. /\ pc'[p] \in {"idle", "connect"} /\ outcome'[p] # "ok"
      /\ state_file'.by = p => /\ state_file' = state_file /\ pc'[p] = "idle"
                               /\ project_id' = project_id
  BY BootstrapAssumption DEF Start, Kill, BInv, TypeOK
<1>3. Grows /\ Alone(p)
  BY <1>1, BootstrapAssumption DEF Grows, server, Alone, Start, Kill, BInv, TypeOK
<1>4. TypeOK'
  <2>1. /\ pc' \in [Procs -> Steps \cup {"idle"}]
        /\ project_id' \in [Procs -> Nat] /\ fault' \subseteq Procs
        /\ outcome' \in [Procs -> {"none", "ok", "failed", "killed", "refused"}]
        /\ state_file' \in [id : Nat, by : Procs \cup {Nobody}]
    BY DEF Start, Kill, BInv, TypeOK, NoId
  <2>2. \A q \in Procs : pc'[q] \in HasProject =>
                           pc[q] \in HasProject /\ project_id'[q] = project_id[q]
    BY <1>2, <1>3 DEF Alone
  <2>3. QED
    BY <1>1, <2>1, <2>2 DEF BInv, TypeOK, server
<1>5. Relies(p)'
  BY <1>2 DEF BInv, Relies, Progress, Stored, Ready
<1>6. QED
  BY <1>3, <1>4, <1>5, StepKeeps

(* A reset finds nobody who relies on the server.                           *)
LEMMA ResetKeeps == ASSUME BInv, Reset PROVE BInv'
<1>1. TypeOK'
  BY DEF Reset, BInv, TypeOK, Idle, HasProject, Steps, NoId
<1>2. ASSUME NEW q \in Procs PROVE Relies(q)'
  <2>1. pc'[q] = "idle" /\ outcome'[q] = "none"
    BY DEF Reset, Idle
  <2>2. Stored(q)'
    BY DEF Reset, BInv, Relies, Stored
  <2>3. QED
    BY <2>1, <2>2 DEF Relies, Progress, Ready, PastBucket, PastWarehouse, PastNamespace,
                      HasProject, Steps
<1>3. QED
  BY <1>1, <1>2 DEF BInv

(* Every step keeps the invariant.                                          *)
LEMMA NextKeeps == BInv /\ [Next]_vars => BInv'
<1> SUFFICES ASSUME BInv, [Next]_vars PROVE BInv'
  OBVIOUS
<1>1. ASSUME NEW p \in Procs, Start(p) \/ InitStep(p) \/ Kill(p) PROVE BInv'
  BY <1>1, StartsAndKills, ReadingSteps, CreatingSteps, ProjectSteps, SavingSteps, LastStep
     DEF InitStep
<1>2. CASE UNCHANGED vars
  BY <1>2 DEF vars, server, process, bounds, BInv, TypeOK, Relies, Progress, Stored,
              Ready, Usable
<1>3. QED
  BY <1>1, <1>2, ResetKeeps DEF Next, Stopped

(* The invariant holds of every reachable state.                            *)
THEOREM BootstrapInvariance == Spec => []BInv
<1>1. QED
  BY InitHolds, NextKeeps, PTL DEF Spec

(* Shape of the state; past the project step a process works with the       *)
(* server's project.                                                        *)
THEOREM TypeCorrect == Spec => []TypeOK
<1>1. BInv => TypeOK
  BY DEF BInv
<1>2. QED
  BY <1>1, BootstrapInvariance, PTL

(* An init that reports success leaves everything in place.                 *)
THEOREM SuccessIsReady == Spec => []SuccessMeansReady
<1>1. BInv => SuccessMeansReady
  BY DEF BInv, Relies, Ready, SuccessMeansReady
<1>2. QED
  BY <1>1, BootstrapInvariance, PTL

(* Without a configured id, the later commands find what the last init to   *)
(* write the state file has left, whatever the legacy file says.            *)
THEOREM CommandsFindIt ==
    ASSUME ConfiguredId = NoId
    PROVE  Spec => []CommandsWork
<1>1. BInv => CommandsWork
  <2> SUFFICES ASSUME BInv, NEW p \in Procs, outcome[p] = "ok", state_file.by = p
               PROVE  Usable(Resolve)
    BY DEF CommandsWork
  <2>1. state_file.id = project_id[p] /\ project_id[p] # NoId /\ Usable(project_id[p])
    BY DEF BInv, Relies, Stored, Ready
  <2>2. QED
    BY <2>1 DEF Resolve, Load
<1>2. QED
  BY <1>1, BootstrapInvariance, PTL

(* Provided the server names the project it already has, an init whose      *)
(* requests are all answered succeeds, or finds an old table.               *)
THEOREM CalmInitsSucceed ==
    ASSUME ConflictCarriesId
    PROVE  Spec => []CalmInitSucceeds
<1>1. Init => CalmInitSucceeds
  BY DEF Init, CalmInitSucceeds
<1>2. ASSUME BInv, CalmInitSucceeds, [Next]_vars PROVE CalmInitSucceeds'
  <2>1. ASSUME NEW p \in Procs, Start(p) \/ InitStep(p) \/ Kill(p)
        PROVE  CalmInitSucceeds'
    <3>1. /\ schema' = schema
          /\ \A q \in Procs \ {p} : outcome'[q] = outcome[q] /\ (q \in fault <=> q \in fault')
      BY <1>2, <2>1
         DEF BInv, TypeOK, InitStep, Start, Kill, Connect, CheckBucket, CreateBucket, LoadId,
             Verify, EnsureProject, ProjectConflict, OpenStateFile, WriteStateFile, ListWarehouses,
             CreateWarehouse, GetWarehousePrefix, CheckNamespace, CreateNamespace, CheckTable,
             CreateTable, CheckTableSchema, Create, Found, Continue, CarryOn, GiveUp, Refuse,
             server
    <3>2. outcome'[p] = "failed" => p \in fault' \/ schema = "old"
      <4>1. CASE GiveUp(p)
        BY <4>1 DEF GiveUp
      <4>2. CASE schema = "old" /\ Refuse(p)
        BY <4>2
      <4>3. CASE outcome'[p] # "failed"
        BY <4>3
      <4>4. CASE outcome' = outcome /\ fault \subseteq fault'
        BY <1>2, <4>4 DEF CalmInitSucceeds
      <4>5. QED
        BY <1>2, <2>1, <4>1, <4>2, <4>3, <4>4
           DEF BInv, TypeOK, InitStep, Start, Kill, Connect, CheckBucket, CreateBucket, LoadId,
               Verify, EnsureProject, ProjectConflict, OpenStateFile, WriteStateFile,
               ListWarehouses, CreateWarehouse, GetWarehousePrefix, CheckNamespace,
               CreateNamespace, CheckTable, CreateTable, CheckTableSchema, Create, Found,
               Continue, CarryOn
    <3>3. QED
      BY <1>2, <3>1, <3>2 DEF CalmInitSucceeds
  <2>2. CASE Reset
    BY <2>2 DEF Reset, CalmInitSucceeds
  <2>3. CASE UNCHANGED vars
    BY <1>2, <2>3 DEF vars, server, process, CalmInitSucceeds
  <2>4. QED
    BY <1>2, <2>1, <2>2, <2>3 DEF Next, Stopped
<1>3. QED
  BY <1>1, <1>2, BootstrapInvariance, PTL DEF Spec

-----------------------------------------------------------------------------
(* The checks of doctor, up and init *)

Commands == {"doctor", "up", "init"}

Kinds == {"docker", "credentials", "rustfs", "lakekeeper", "port", "tool"}

AnyCheck == [kind : Kinds, of : STRING \cup Nat \cup {"nothing"}]

Among(s) == {s[i] : i \in DOMAIN s}

(* What command c finds by check k in the present world.                    *)
Finding(c, k) == IF c = "doctor" THEN DoctorFinds(k) ELSE Finds(k)

LEMMA Joined ==
    ASSUME NEW S, NEW s \in Seq(S), NEW t \in Seq(S)
    PROVE  s \o t \in Seq(S) /\ Among(s \o t) = Among(s) \cup Among(t)
  <1>1. PICK m, n, st : m = Len(s) /\ n = Len(t) /\ st = s \o t
    OBVIOUS
  <1>2. /\ m \in Nat /\ n \in Nat /\ DOMAIN s = 1 .. m /\ DOMAIN t = 1 .. n
        /\ st \in Seq(S) /\ Len(st) = m + n
        /\ \A i \in 1 .. (m + n) : st[i] = IF i <= m THEN s[i] ELSE t[i - m]
    BY <1>1, LenProperties, ConcatProperties
  <1>3. DOMAIN st = 1 .. (m + n)
    BY <1>2, LenProperties
  <1>4. Among(st) \subseteq Among(s) \cup Among(t)
    <2> SUFFICES ASSUME NEW i \in 1 .. (m + n) PROVE st[i] \in Among(s) \cup Among(t)
      BY <1>3 DEF Among
    <2>1. CASE i <= m
      <3>1. st[i] = s[i] /\ i \in DOMAIN s
        BY <1>2, <2>1
      <3>. QED
        BY <3>1 DEF Among
    <2>2. CASE ~(i <= m)
      <3>1. st[i] = t[i - m] /\ i - m \in DOMAIN t
        BY <1>2, <2>2
      <3>. QED
        BY <3>1 DEF Among
    <2>. QED
      BY <2>1, <2>2
  <1>5. \A i \in DOMAIN s : s[i] \in Among(st)
    <2> SUFFICES ASSUME NEW i \in 1 .. m PROVE s[i] \in Among(st)
      BY <1>2
    <2>1. st[i] = s[i] /\ i \in DOMAIN st
      BY <1>2, <1>3
    <2>. QED
      BY <2>1 DEF Among
  <1>6. \A i \in DOMAIN t : t[i] \in Among(st)
    <2> SUFFICES ASSUME NEW i \in 1 .. n PROVE t[i] \in Among(st)
      BY <1>2
    <2>1. st[m + i] = t[i] /\ m + i \in DOMAIN st
      BY <1>2, <1>3
    <2>. QED
      BY <2>1 DEF Among
  <1>7. Among(s) \subseteq Among(st) /\ Among(t) \subseteq Among(st)
    BY <1>5, <1>6 DEF Among
  <1>8. Among(st) = Among(s) \cup Among(t)
    BY <1>4, <1>7
  <1>. QED
    BY <1>1, <1>2, <1>8

(* What each command looks at.                                              *)
LEMMA WhatIsChecked ==
    /\ \A c \in Commands : Checks(c) \in Seq(AnyCheck)
    /\ Among(Checks("up")) = {Check("rustfs"), Check("lakekeeper")}
    /\ Among(Checks("init")) = {Check("credentials"), Check("rustfs"), Check("lakekeeper")}
    /\ \A kind \in {"docker", "credentials", "rustfs", "lakekeeper"} :
          Check(kind) \in Among(Checks("doctor"))
    /\ \A k \in Among(Checks("doctor")) : k.kind \in Kinds
  <1> DEFINE d == <<Check("docker"), Check("credentials")>>
             p == <<Port(8100), Port(8200), Port(8210), Port(8300)>>
             t == [k \in DOMAIN Tools |-> [kind |-> "tool", of |-> Tools[k]]]
             i == <<Check("credentials")>>
  <1>1. \A kind \in Kinds : Check(kind) \in AnyCheck /\ Check(kind).kind = kind
    BY DEF Check, AnyCheck
  <1>2. \A n \in Nat : Port(n) \in AnyCheck
    BY DEF Port, AnyCheck, Kinds
  <1>3. Services \in Seq(AnyCheck) /\ Among(Services) = {Check("rustfs"), Check("lakekeeper")}
    BY <1>1 DEF Services, Among, Kinds
  <1>4. i \in Seq(AnyCheck) /\ Among(i) = {Check("credentials")}
    BY <1>1 DEF Among, Kinds
  <1>5. d \in Seq(AnyCheck) /\ Among(d) = {Check("docker"), Check("credentials")}
    BY <1>1 DEF Among, Kinds
  <1>6. p \in Seq(AnyCheck)
    BY <1>2
  <1>7. t \in Seq(AnyCheck)
    <2>1. Tools \in Seq(STRING) /\ DOMAIN Tools = 1 .. Len(Tools) /\ Len(Tools) \in Nat
      BY PreflightAssumption, LenProperties
    <2>2. \A k \in DOMAIN Tools : Tools[k] \in STRING
      BY <2>1, ElementOfSeq
    <2>3. \A k \in DOMAIN Tools : [kind |-> "tool", of |-> Tools[k]] \in AnyCheck
      BY <2>2 DEF AnyCheck, Kinds
    <2>. QED
      BY <2>1, <2>3, SeqDef
  <1>8. /\ Checks("up") = Services /\ Checks("init") = i \o Services
        /\ Checks("doctor") = ((d \o Services) \o p) \o t
    BY DEF Checks
  <1> HIDE DEF d, p, t, i
  <1>9. /\ i \o Services \in Seq(AnyCheck)
        /\ Among(i \o Services) = Among(i) \cup Among(Services)
    BY <1>3, <1>4, Joined
  <1>10. /\ d \o Services \in Seq(AnyCheck)
         /\ Among(d \o Services) = Among(d) \cup Among(Services)
    BY <1>3, <1>5, Joined
  <1>11. /\ (d \o Services) \o p \in Seq(AnyCheck)
         /\ Among((d \o Services) \o p) = Among(d \o Services) \cup Among(p)
    <2>1. PICK a : a = d \o Services
      OBVIOUS
    <2>2. a \in Seq(AnyCheck)
      BY <1>10, <2>1
    <2>3. a \o p \in Seq(AnyCheck) /\ Among(a \o p) = Among(a) \cup Among(p)
      BY ONLY <1>6, <2>2, Joined
    <2>. QED
      BY <2>1, <2>3
  <1>12. /\ ((d \o Services) \o p) \o t \in Seq(AnyCheck)
         /\ Among(((d \o Services) \o p) \o t) = Among((d \o Services) \o p) \cup Among(t)
    <2>1. PICK a : a = (d \o Services) \o p
      OBVIOUS
    <2>2. a \in Seq(AnyCheck)
      BY <1>11, <2>1
    <2>3. a \o t \in Seq(AnyCheck) /\ Among(a \o t) = Among(a) \cup Among(t)
      BY ONLY <1>7, <2>2, Joined
    <2>. QED
      BY <2>1, <2>3
  <1>13. \A k \in Among(Checks("doctor")) : k.kind \in Kinds
    <2>1. Checks("doctor") \in Seq(AnyCheck)
      BY <1>8, <1>12
    <2>2. \A k \in Among(Checks("doctor")) : k \in AnyCheck
      BY <2>1, ElementOfSeq, LenProperties DEF Among
    <2>. QED
      BY <2>2 DEF AnyCheck
  <1>. QED
    BY <1>3, <1>4, <1>5, <1>8, <1>9, <1>10, <1>11, <1>12, <1>13 DEF Commands

LEMMA WhatIsFound ==
    ASSUME NEW c \in Commands, NEW k \in Among(Checks(c))
    PROVE  Finding(c, k) \in {"ok", "warning", "error"}
  <1>1. CASE c = "doctor"
    <2>1. k.kind \in Kinds
      BY <1>1, WhatIsChecked
    <2>. QED
      BY <1>1, <2>1 DEF Finding, DoctorFinds, Http, Rate, Kinds
  <1>2. CASE c # "doctor"
    <2>1. k \in {Check("credentials"), Check("rustfs"), Check("lakekeeper")}
      BY <1>2, WhatIsChecked DEF Commands
    <2>. QED
      BY <1>2, <2>1 DEF Finding, Finds, Rate, Check
  <1>. QED
    BY <1>1, <1>2

LEMMA SameFindings ==
    ASSUME UNCHANGED world, NEW c, NEW k
    PROVE  Finding(c, k)' = Finding(c, k)
  BY DEF world, Finding, DoctorFinds, Finds, Http, PortIsFree, s3_endpoint, catalog_endpoint,
         doctor_endpoint

(* A verdict that stands says what the checks of c find.                    *)
Settled(c, v) ==
    /\ v = "failed" <=> \E k \in Among(Checks(c)) : Finding(c, k) = "error"
    /\ v = "ready" => \A k \in Among(Checks(c)) : Finding(c, k) = "ok"

(* What is left of the checks, and what the others have found.              *)
Underway(c) ==
    /\ Among(left) \subseteq Among(Checks(c))
    /\ \A f \in results : \E k \in Among(Checks(c)) : f = Finding(c, k)
    /\ \A k \in Among(Checks(c)) : \/ k \in Among(left) \/ Finding(c, k) \in results
                                   \/ c = "init" /\ "error" \in results

PreflightInv ==
    /\ command \in Commands \cup {"none"} /\ left \in Seq(AnyCheck) /\ steady \in BOOLEAN
    /\ verdict \in [Commands -> {"none", "failed", "warnings", "ready"}]
    /\ command = "none" => left = <<>> /\ results = {} /\ steady
    /\ command # "none" /\ steady => Underway(command)
    /\ \A c \in Commands : verdict[c] = "none" \/ Settled(c, verdict[c])

LEMMA PreflightStarts == ASSUME PreflightInit PROVE PreflightInv
  <1>1. <<>> \in Seq(AnyCheck)
    OBVIOUS
  <1>. QED
    BY <1>1 DEF PreflightInit, PreflightInv, Commands

(* A verdict that stood still stands while the world is the same.           *)
LEMMA VerdictsStand ==
    ASSUME PreflightInv, UNCHANGED world, NEW c \in Commands, verdict[c] # "none"
    PROVE  Settled(c, verdict[c])'  \/ verdict' # verdict
  <1>1. Settled(c, verdict[c])
    BY DEF PreflightInv
  <1>2. \A k : Finding(c, k)' = Finding(c, k)
    BY SameFindings
  <1>3. Checks(c)' = Checks(c)
    OBVIOUS
  <1>. QED
    BY <1>1, <1>2 DEF Settled

LEMMA CheckTaken ==
    ASSUME NEW S, NEW q \in Seq(S), q # <<>>
    PROVE  /\ Head(q) \in Among(q) /\ Tail(q) \in Seq(S)
           /\ Among(Tail(q)) \subseteq Among(q)
           /\ Among(q) \subseteq Among(Tail(q)) \cup {Head(q)}
  <1>1. PICK n, tl : n = Len(q) /\ tl = Tail(q)
    OBVIOUS
  <1>2. /\ n \in Nat /\ n > 0 /\ DOMAIN q = 1 .. n /\ Head(q) = q[1]
        /\ tl \in Seq(S) /\ DOMAIN tl = 1 .. (n - 1)
        /\ \A i \in 1 .. (n - 1) : tl[i] = q[i + 1]
    BY <1>1, EmptySeq, LenProperties, HeadTailProperties
  <1>3. \A i \in 1 .. n : q[i] \in Among(tl) \cup {q[1]}
    <2> SUFFICES ASSUME NEW i \in 1 .. n, i # 1 PROVE q[i] \in Among(tl)
      OBVIOUS
    <2>1. i - 1 \in DOMAIN tl /\ tl[i - 1] = q[i]
      BY <1>2
    <2>. QED
      BY <2>1 DEF Among
  <1>4. Among(tl) \subseteq Among(q)
    BY <1>2 DEF Among
  <1>5. q[1] \in Among(q)
    BY <1>2 DEF Among
  <1>. QED
    BY <1>1, <1>2, <1>3, <1>4, <1>5 DEF Among

LEMMA PreflightStep == ASSUME PreflightInv, [PreflightNext]_preflight_vars PROVE PreflightInv'
  <1>1. CASE \E c \in DOMAIN verdict : Begin(c)
    <2>1. PICK c \in Commands : Begin(c)
      BY <1>1 DEF PreflightInv
    <2>2. /\ command = "none" /\ command' = c /\ left' = Checks(c) /\ results' = results
          /\ steady' = steady /\ verdict' = verdict /\ UNCHANGED world
      BY <2>1 DEF Begin
    <2>3. results = {} /\ c # "none"
      BY <2>2 DEF PreflightInv, Commands
    <2>4. Checks(c) \in Seq(AnyCheck)
      BY WhatIsChecked
    <2>5. Underway(command)'
      BY <2>2, <2>3 DEF Underway
    <2>6. \A b \in Commands : verdict'[b] = "none" \/ Settled(b, verdict[b])'
      BY <2>2, VerdictsStand
    <2>. QED
      BY <2>2, <2>3, <2>4, <2>5, <2>6 DEF PreflightInv
  <1>2. CASE NextCheck
    <2>1. PICK c, k, f : /\ c = command /\ k = Head(left) /\ f = Finding(c, k)
      OBVIOUS
    <2>2. /\ c # "none" /\ left # <<>> /\ c \in Commands
          /\ results' = results \cup {f}
          /\ left' = IF c = "init" /\ f = "error" THEN <<>> ELSE Tail(left)
          /\ command' = c /\ steady' = steady /\ verdict' = verdict /\ UNCHANGED world
      BY <1>2, <2>1 DEF NextCheck, Finding, PreflightInv
    <2>3. /\ k \in Among(left) /\ Tail(left) \in Seq(AnyCheck)
          /\ Among(Tail(left)) \subseteq Among(left)
          /\ Among(left) \subseteq Among(Tail(left)) \cup {k}
      BY <2>1, <2>2, CheckTaken DEF PreflightInv
    <2>4. left' \in Seq(AnyCheck) /\ Among(left') \subseteq Among(left)
      <3>1. <<>> \in Seq(AnyCheck) /\ Among(<<>>) = {}
        BY DEF Among
      <3>. QED
        BY <2>2, <2>3, <3>1
    <2>5. ASSUME steady PROVE Underway(command)'
      <3>1. Underway(c)
        BY <2>1, <2>2, <2>5 DEF PreflightInv
      <3>2. \A h : Finding(c, h)' = Finding(c, h)
        BY <2>2, SameFindings
      <3>3. Among(left') \subseteq Among(Checks(c))
        BY <2>4, <3>1 DEF Underway
      <3>4. \A g \in results' : \E h \in Among(Checks(c)) : g = Finding(c, h)
        <4>1. k \in Among(Checks(c))
          BY <2>3, <3>1 DEF Underway
        <4>. QED
          BY <2>1, <2>2, <3>1, <4>1 DEF Underway
      <3>5. ASSUME NEW h \in Among(Checks(c))
            PROVE  \/ h \in Among(left') \/ Finding(c, h) \in results'
                   \/ c = "init" /\ "error" \in results'
        <4>1. CASE c = "init" /\ f = "error"
          BY <2>2, <4>1
        <4>2. CASE ~(c = "init" /\ f = "error")
          BY <2>1, <2>2, <2>3, <3>1, <4>2 DEF Underway
        <4>. QED
          BY <4>1, <4>2
      <3>6. Among(left)' = Among(left') /\ Among(Checks(command))' = Among(Checks(c))
        BY <2>2 DEF Among
      <3>. QED
        BY <2>2, <3>2, <3>3, <3>4, <3>5, <3>6 DEF Underway
    <2>6. \A b \in Commands : verdict'[b] = "none" \/ Settled(b, verdict[b])'
      BY <2>2, VerdictsStand
    <2>. QED
      BY <2>1, <2>2, <2>4, <2>5, <2>6 DEF PreflightInv
  <1>3. CASE End
    <2>1. /\ command \in Commands /\ command # "none" /\ left = <<>> /\ left' = left
          /\ command' = "none" /\ results' = {} /\ steady' = TRUE /\ UNCHANGED world
          /\ verdict' = IF steady THEN [verdict EXCEPT ![command] = Verdict] ELSE verdict
      BY <1>3 DEF End, PreflightInv
    <2>2. verdict \in [Commands -> {"none", "failed", "warnings", "ready"}]
      BY DEF PreflightInv
    <2>3. Verdict \in {"failed", "warnings", "ready"}
      BY DEF Verdict
    <2>4. verdict' \in [Commands -> {"none", "failed", "warnings", "ready"}]
      BY <2>1, <2>2, <2>3
    <2>5. ASSUME steady PROVE Settled(command, Verdict)
      <3>1. /\ \A f \in results : \E k \in Among(Checks(command)) : f = Finding(command, k)
            /\ \A k \in Among(Checks(command)) : \/ Finding(command, k) \in results
                                                 \/ "error" \in results
        <4>1. Among(left) = {}
          BY <2>1 DEF Among
        <4>. QED
          BY <2>1, <2>5, <4>1 DEF PreflightInv, Underway
      <3>2. \A k \in Among(Checks(command)) : Finding(command, k) \in {"ok", "warning", "error"}
        BY <2>1, WhatIsFound
      <3>. QED
        BY <3>1, <3>2 DEF Settled, Verdict
    <2>6. ASSUME NEW b \in Commands
          PROVE  verdict'[b] = "none" \/ Settled(b, verdict'[b])
      <3>1. CASE steady /\ b = command
        BY <2>1, <2>2, <2>5, <3>1
      <3>2. CASE ~(steady /\ b = command)
        <4>1. verdict'[b] = verdict[b]
          BY <2>1, <2>2, <3>2
        <4>. QED
          BY <4>1 DEF PreflightInv
      <3>. QED
        BY <3>1, <3>2
    <2>7. ASSUME NEW b \in Commands PROVE verdict'[b] = "none" \/ Settled(b, verdict[b])'
      <3>1. \A k : Finding(b, k)' = Finding(b, k)
        BY <2>1, SameFindings
      <3>. QED
        BY <2>6, <3>1 DEF Settled
    <2>8. left \in Seq(AnyCheck)
      BY DEF PreflightInv
    <2>. QED
      BY <2>1, <2>4, <2>7, <2>8 DEF PreflightInv
  <1>4. CASE Change
    <2>1. /\ steady' = (command = "none") /\ verdict' = [c \in DOMAIN verdict |-> "none"]
          /\ command' = command /\ left' = left /\ results' = results
      BY <1>4 DEF Change
    <2>2. DOMAIN verdict = Commands
      BY DEF PreflightInv
    <2>3. verdict' \in [Commands -> {"none", "failed", "warnings", "ready"}]
          /\ \A c \in Commands : verdict'[c] = "none"
      BY <2>1, <2>2
    <2>. QED
      BY <2>1, <2>3 DEF PreflightInv
  <1>5. CASE UNCHANGED preflight_vars
    <2>1. /\ command' = command /\ left' = left /\ results' = results /\ steady' = steady
          /\ verdict' = verdict /\ UNCHANGED world
      BY <1>5 DEF preflight_vars
    <2>2. \A c, k : Finding(c, k)' = Finding(c, k)
      BY <2>1, SameFindings
    <2>3. Underway(command) => Underway(command)'
      BY <2>1, <2>2 DEF Underway, Among
    <2>4. \A b \in Commands : verdict'[b] = "none" \/ Settled(b, verdict[b])'
      BY <2>1, VerdictsStand
    <2>. QED
      BY <2>1, <2>3, <2>4 DEF PreflightInv
  <1>. QED
    BY <1>1, <1>2, <1>3, <1>4, <1>5 DEF PreflightNext

(* Three commands with checks of their own come to the same conclusion, for *)
(* any tools and whatever started or stopped in the meantime (run of        *)
(* doctor/mod.rs, check_up and init of lakehouse/mod.rs).                   *)
THEOREM ThreeCommandsAgree == PreflightSpec => []VerdictsAgree
  <1>1. PreflightInv => VerdictsAgree
    <2> SUFFICES ASSUME PreflightInv, doctor_endpoint = catalog_endpoint
                 PROVE  /\ ReadyMeansReady
                        /\ verdict["doctor"] = "failed" /\ verdict["up"] # "none" =>
                             ~machine.docker \/ ~env.keys \/ verdict["up"] = "failed"
                        /\ verdict["up"] # "none" /\ verdict["init"] # "none" =>
                             ((verdict["init"] = "failed") <=> (~env.keys \/ verdict["up"] = "failed"))
      BY DEF VerdictsAgree
    <2>1. PICK a, b : /\ a = answers[<<"rustfs", s3_endpoint>>]
                      /\ b = answers[<<"lakekeeper", catalog_endpoint>>]
      OBVIOUS
    <2>2. ASSUME verdict["up"] # "none"
          PROVE  verdict["up"] = "failed" <=> a \notin {"success", "forbidden"} \/ b # "success"
      <3>1. Settled("up", verdict["up"])
        BY <2>2 DEF PreflightInv, Commands
      <3>. QED
        BY <2>1, <3>1, WhatIsChecked
           DEF Settled, Finding, Finds, Check, Rate, rustfs_status_is_reachable
    <2>3. ASSUME verdict["init"] # "none"
          PROVE  verdict["init"] = "failed" <=>
                   ~env.keys \/ a \notin {"success", "forbidden"} \/ b # "success"
      <3>1. Settled("init", verdict["init"])
        BY <2>3 DEF PreflightInv, Commands
      <3>. QED
        BY <2>1, <3>1, WhatIsChecked
           DEF Settled, Finding, Finds, Check, Rate, rustfs_status_is_reachable
    <2>4. ASSUME verdict["doctor"] = "ready"
          PROVE  env.keys /\ a \in {"success", "forbidden"} /\ b = "success"
      <3>1. \A k \in Among(Checks("doctor")) : DoctorFinds(k) = "ok"
        BY <2>4 DEF PreflightInv, Commands, Settled, Finding
      <3>2. /\ DoctorFinds(Check("credentials")) = "ok" /\ DoctorFinds(Check("rustfs")) = "ok"
            /\ DoctorFinds(Check("lakekeeper")) = "ok"
        BY <3>1, WhatIsChecked
      <3>. QED
        BY <2>1, <3>2 DEF DoctorFinds, Check, Http, Rate, rustfs_status_is_reachable
    <2>5. ASSUME verdict["doctor"] = "failed"
          PROVE  ~machine.docker \/ ~env.keys \/ Unreachable(a) \/ Unreachable(b)
      <3>1. PICK k \in Among(Checks("doctor")) : DoctorFinds(k) = "error"
        BY <2>5 DEF PreflightInv, Commands, Settled, Finding
      <3>2. k.kind \in Kinds
        BY WhatIsChecked
      <3>. QED
        BY <2>1, <3>1, <3>2 DEF DoctorFinds, Http, Rate, Kinds
    <2>. QED
      BY <2>2, <2>3, <2>4, <2>5 DEF ReadyMeansReady, Unreachable
  <1>. QED
    BY <1>1, PreflightStarts, PreflightStep, PTL DEF PreflightSpec

=============================================================================
