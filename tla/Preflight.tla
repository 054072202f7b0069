----------------------------- MODULE Preflight -----------------------------
(***************************************************************************)
(* The three commands that ask whether the stack is there, each with code  *)
(* of its own: `doctor` (doctor/mod.rs), `up` and the beginning of `init`  *)
(* (lakehouse/mod.rs).  A check is a step, and the stack may be started or *)
(* stopped between two of them.                                            *)
(*                                                                         *)
(* A service may listen on the local machine, at the default address, or   *)
(* elsewhere; the environment variables say where to look (config/mod.rs). *)
(***************************************************************************)
EXTENDS Naturals, Sequences

CONSTANTS
    Tools,       \* external tools doctor looks for, in order
    Answers,     \* some of "success", "forbidden", "other_status", "refused"
                 \* (nobody listens) and "silent" (no answer in time)
    MaxChanges   \* bound: times something changes (a natural number)

ASSUME PreflightAssumption == Tools \in Seq(STRING)

VARIABLES
    env,       \* the variables: an address each, and whether the keys are set
    answers,   \* address -> what the service there answers
    machine,   \* the docker daemon, busy ports of the stack, installed tools
    command,   \* the running command, or "none"
    left,      \* its checks that are left
    results,   \* which results there were so far
    steady,    \* nothing changed since the command began
    verdict,   \* history: of the last runs of the commands, while nothing changed
    changes

world == <<env, answers, machine>>
preflight_vars == <<world, command, left, results, steady, verdict, changes>>

Addresses == {"local", "elsewhere"}

(* LakehouseConfig::default                                                 *)
Or(variable, default) == IF variable = "unset" THEN default ELSE variable
s3_endpoint      == Or(env.S3_ENDPOINT, "local")
catalog_endpoint == Or(env.CATALOG_ENDPOINT, "local")

(* doctor reads the variables itself, and one more.                         *)
doctor_endpoint == Or(env.CATALOG_ENDPOINT, Or(env.LAKEKEEPER_ENDPOINT, "local"))

Environments ==
    [S3_ENDPOINT : Addresses \cup {"unset"}, CATALOG_ENDPOINT : Addresses \cup {"unset"},
     LAKEKEEPER_ENDPOINT : Addresses \cup {"unset"}, keys : BOOLEAN]

Machines == [docker : BOOLEAN, busy : SUBSET {8210, 8300}, tools : SUBSET {Tools[k] : k \in DOMAIN Tools}]

PreflightInit ==
    /\ env \in Environments
    /\ answers \in [{"rustfs", "lakekeeper"} \X Addresses -> Answers]
    /\ machine \in Machines
    /\ command = "none" /\ left = <<>> /\ results = {}
    /\ steady = TRUE /\ changes = 0
    /\ verdict = [c \in {"doctor", "up", "init"} |-> "none"]

-----------------------------------------------------------------------------
(* The checks of doctor *)

Rate(good, otherwise) == IF good THEN "ok" ELSE otherwise

(* A GET without credentials: 403 proves that RustFS is up.                 *)
rustfs_status_is_reachable(answer) == answer \in {"success", "forbidden"}

Unreachable(answer) == answer \in {"refused", "silent"}

Http(answer, good) == Rate(good, IF Unreachable(answer) THEN "error" ELSE "warning")

(* A port that cannot be bound is busy.                                     *)
PortIsFree(port) ==
    CASE port = 8100 -> answers[<<"lakekeeper", "local">>] = "refused"
      [] port = 8200 -> answers[<<"rustfs", "local">>] = "refused"
      [] OTHER       -> port \notin machine.busy

DoctorFinds(check) ==
    CASE check.kind = "docker"      -> Rate(machine.docker, "error")
      [] check.kind = "credentials" -> Rate(env.keys, "error")
      [] check.kind = "rustfs"      ->
           LET a == answers[<<"rustfs", s3_endpoint>>] IN Http(a, rustfs_status_is_reachable(a))
      [] check.kind = "lakekeeper"  ->
           LET a == answers[<<"lakekeeper", doctor_endpoint>>] IN Http(a, a = "success")
      [] check.kind = "port"        -> Rate(PortIsFree(check.of), "warning")
      [] check.kind = "tool"        -> Rate(check.of \in machine.tools, "warning")

FindsOnlySuccess(check) ==
    CASE check.kind = "credentials" -> Rate(env.keys, "error")
      [] check.kind = "rustfs"      -> Rate(answers[<<"rustfs", s3_endpoint>>] = "success", "error")
      [] check.kind = "lakekeeper"  ->
           Rate(answers[<<"lakekeeper", catalog_endpoint>>] = "success", "error")

(* The checks of up and init: anything but success is an error.             *)
Finds(check) ==
    CASE check.kind = "credentials" -> Rate(env.keys, "error")
      [] check.kind = "rustfs"      ->
           Rate(rustfs_status_is_reachable(answers[<<"rustfs", s3_endpoint>>]), "error")
      [] check.kind = "lakekeeper"  ->
           Rate(answers[<<"lakekeeper", catalog_endpoint>>] = "success", "error")

Check(kind) == [kind |-> kind, of |-> "nothing"]
Port(n)     == [kind |-> "port", of |-> n]

Services == <<Check("rustfs"), Check("lakekeeper")>>

Checks(c) ==
    CASE c = "up"     -> Services
      [] c = "init"   -> <<Check("credentials")>> \o Services
      [] c = "doctor" -> <<Check("docker"), Check("credentials")>> \o Services
                           \o <<Port(8100), Port(8200), Port(8210), Port(8300)>>
                           \o [k \in DOMAIN Tools |-> [kind |-> "tool", of |-> Tools[k]]]

(* doctor_outcome and its closing line; all_ok of up.                       *)
Verdict ==
    IF "error" \in results THEN "failed" ELSE IF "warning" \in results THEN "warnings" ELSE "ready"

-----------------------------------------------------------------------------

Begin(c) ==
    /\ command = "none"
    /\ command' = c /\ left' = Checks(c)
    /\ UNCHANGED <<world, results, steady, verdict, changes>>

(* init ends with the first error, the others look at everything.           *)
NextCheck ==
    /\ command # "none" /\ left # <<>>
    /\ LET found == IF command = "doctor" THEN DoctorFinds(Head(left)) ELSE Finds(Head(left))
       IN  /\ results' = results \cup {found}
           /\ left' = IF command = "init" /\ found = "error" THEN <<>> ELSE Tail(left)
    /\ UNCHANGED <<world, command, steady, verdict, changes>>

(* The verdict is printed, and stands if nothing changed meanwhile.         *)
End ==
    /\ command # "none" /\ left = <<>>
    /\ verdict' = IF steady THEN [verdict EXCEPT ![command] = Verdict] ELSE verdict
    /\ command' = "none" /\ results' = {} /\ steady' = TRUE
    /\ UNCHANGED <<world, left, changes>>

(* A service starts, stops or fails.                                        *)
Change ==
    /\ changes < MaxChanges /\ changes' = changes + 1
    /\ \E s \in DOMAIN answers : \E a \in Answers \ {answers[s]} :
         answers' = [answers EXCEPT ![s] = a]
    /\ steady' = (command = "none") /\ verdict' = [c \in DOMAIN verdict |-> "none"]
    /\ UNCHANGED <<env, machine, command, left, results>>

PreflightNext ==
    (\E c \in DOMAIN verdict : Begin(c)) \/ NextCheck \/ End \/ Change

PreflightSpec == PreflightInit /\ [][PreflightNext]_preflight_vars
-----------------------------------------------------------------------------

(* "All checks passed! Your lakehouse stack is ready." is no empty promise: *)
(* while nothing changes, neither up nor init finds a service missing when  *)
(* doctor has said so (doctor/mod.rs:158).                                  *)
ReadyMeansReady ==
    verdict["doctor"] = "ready" => verdict["up"] # "failed" /\ verdict["init"] # "failed"

(* Otherwise the three codes agree: where doctor looks at the addresses of  *)
(* the others, ready means ready, and what doctor calls an error is one for *)
(* up and init as well, or a missing daemon or key; and init gets past its  *)
(* checks exactly if up is content and the keys are set.                    *)
VerdictsAgree ==
    doctor_endpoint = catalog_endpoint =>
        /\ ReadyMeansReady
        /\ verdict["doctor"] = "failed" /\ verdict["up"] # "none" =>
              ~machine.docker \/ ~env.keys \/ verdict["up"] = "failed"
        /\ verdict["up"] # "none" /\ verdict["init"] # "none" =>
              (verdict["init"] = "failed") <=> (~env.keys \/ verdict["up"] = "failed")
=============================================================================
