----------------------------- MODULE CasUpload -----------------------------
(***************************************************************************)
(* What the workers of one ingest run do to their files: scan, hash,       *)
(* verify the stored blob, upload it (process_file and prepare_file in     *)
(* ingest/mod.rs, ingest/upload.rs).                                       *)
(*                                                                         *)
(* Files change while they are read.  Content is identified with its hash, *)
(* so the object key of content c is c.  A read that overlaps a rewrite    *)
(* may see any mixture, hence any content.  Several paths may hold the     *)
(* same content and race for its key.  One action is the code between two  *)
(* awaits, or one read of a file from open to end.                         *)
(***************************************************************************)
EXTENDS Naturals

CONSTANTS
    Paths,          \* files, one worker each
    Contents,       \* what a file or an object may hold
    Size,           \* length of each content
    Known,          \* CurrentState of the run: relative path -> content hash
    InitialStores,  \* the bucket's CAS objects when the run starts
    Modes,          \* of "ingest", "dry_run", "offline" (no store at all),
                    \*   the modes the run may have
    KeepsMetadata,  \* the operator's capability write_with_user_metadata
    NoMetadata      \* an object without the sha256 user metadata

Objects == [bytes : Contents, meta : Contents \cup {NoMetadata}]

(* Objects that carry their own key as checksum were written by upload;     *)
(* others are older or came from elsewhere.                                 *)
Credible(objects) ==
    \A k \in DOMAIN objects : objects[k].meta = k => objects[k].bytes = k

ASSUME CasAssumption ==
    /\ Size \in [Contents -> Nat]
    /\ DOMAIN Known \subseteq Paths
    /\ NoMetadata \notin Contents
    /\ KeepsMetadata \in BOOLEAN
    /\ Modes \subseteq {"ingest", "dry_run", "offline"}
    /\ \A objects \in InitialStores :
         /\ DOMAIN objects \subseteq Contents
         /\ objects \in [DOMAIN objects -> Objects]
         /\ Credible(objects)

VARIABLES
    mode,     \* of the run, from its flags
    disk,     \* content of each file
    dirty,    \* rewritten since the worker last began to read it
    store,    \* CAS objects: key -> object
    at,       \* the worker: "stat", "hash", "verify", "upload", "stream",
              \*   "close", "done"
    info,     \* FileInfo: size from the stat, hash from the read
    decision, \* whether the path needs a row: made before the verification,
              \*   used when the file is accepted
    sent,     \* content streamed into the open writer
    attempts_left,
    outcome   \* what process_file returns

worker == <<at, info, decision, sent, attempts_left, outcome>>
vars   == <<mode, disk, dirty, store, worker>>

SOURCE_CHANGED_RETRIES == 1

Pending    == [kind |-> "pending"]
Accepted   == [kind : {"observed", "unchanged"}, blob : {"uploaded", "existing"}]
Err(cause) == [kind |-> "error", cause |-> cause]
Causes     == {"io", "source_changed", "integrity_mismatch"}

-----------------------------------------------------------------------------

(* Before its first scan a worker has neither FileInfo nor decision; the    *)
(* values are not used.                                                     *)
Init ==
    /\ mode \in Modes
    /\ disk \in [Paths -> Contents] /\ dirty = [p \in Paths |-> FALSE]
    /\ store \in InitialStores
    /\ at = [p \in Paths |-> "stat"]
    /\ info = [p \in Paths |-> [size |-> Size[disk[p]], hash |-> disk[p]]]
    /\ decision = [p \in Paths |-> "observed"] /\ sent = disk
    /\ attempts_left = [p \in Paths |-> SOURCE_CHANGED_RETRIES]
    /\ outcome = [p \in Paths |-> Pending]

(* Another process writes to the file; after its worker is done with it     *)
(* nobody looks at it again.                                                *)
Rewrite(p, c) ==
    /\ at[p] # "done" /\ disk[p] # c
    /\ disk' = [disk EXCEPT ![p] = c] /\ dirty' = [dirty EXCEPT ![p] = TRUE]
    /\ UNCHANGED <<mode, store, worker>>

(* What a read of the whole file may yield.                                 *)
Read(p) == IF dirty[p] THEN Contents ELSE {disk[p]}

GoTo(p, next) == at' = [at EXCEPT ![p] = next]

Return(p, result) ==
    /\ outcome' = [outcome EXCEPT ![p] = result] /\ GoTo(p, "done")

(* `?` on an I/O error of the file system or the store, before anything was *)
(* finalized; an open writer is aborted and leaves no object.               *)
IoFails(p) ==
    /\ at[p] \in {"stat", "hash", "verify", "upload", "stream"}
    /\ Return(p, Err("io"))
    /\ UNCHANGED <<mode, disk, dirty, store, info, decision, sent, attempts_left>>

-----------------------------------------------------------------------------
(* prepare_file: the length comes from a stat, the hash from a later read *)

Stat(p) ==
    /\ at[p] = "stat"
    /\ info' = [info EXCEPT ![p].size = Size[disk[p]]]
    /\ dirty' = [dirty EXCEPT ![p] = FALSE]
    /\ GoTo(p, "hash")
    /\ UNCHANGED <<mode, disk, store, decision, sent, attempts_left, outcome>>

(* state::decide, against the state that was read when the run started.     *)
Verdict(p, c) ==
    IF p \in DOMAIN Known /\ Known[p] = c THEN "unchanged" ELSE "observed"

DecideOnce(p, c) ==
    decision' = IF attempts_left[p] = SOURCE_CHANGED_RETRIES
                  THEN [decision EXCEPT ![p] = Verdict(p, c)] ELSE decision

(* Every pass of the loop decides anew, for the content it has hashed.      *)
Decide(p, c) == decision' = [decision EXCEPT ![p] = Verdict(p, c)]

HashFile(p) ==
    /\ at[p] = "hash"
    /\ \E c \in Read(p) :
         /\ info' = [info EXCEPT ![p].hash = c]
         /\ IF mode = "offline"
              THEN /\ Return(p, [kind |-> "observed", blob |-> "uploaded"])
                   /\ decision' = decision
              ELSE GoTo(p, "verify") /\ outcome' = outcome /\ Decide(p, c)
    /\ UNCHANGED <<mode, disk, dirty, store, sent, attempts_left>>

-----------------------------------------------------------------------------
(* verify_existing *)

(* The decision stands since before the requests that led here.             *)
Accept(p, blob) == Return(p, [kind |-> decision[p], blob |-> blob])

(* A stored object is trusted when its length is that of the scanned file   *)
(* and its checksum metadata, if it has any, is the hash.                   *)
Agrees(p) ==
    LET object == store[info[p].hash] IN
    /\ Size[object.bytes] = info[p].size
    /\ object.meta \in {info[p].hash, NoMetadata}

VerifyByName(p) ==
    /\ at[p] = "verify" /\ info[p].hash \in DOMAIN store
    /\ Accept(p, "existing")
    /\ UNCHANGED <<mode, disk, dirty, store, info, decision, sent, attempts_left>>

VerifyExisting(p) ==
    /\ at[p] = "verify" /\ info[p].hash \in DOMAIN store
    /\ IF Agrees(p) THEN Accept(p, "existing")
                    ELSE Return(p, Err("integrity_mismatch"))
    /\ UNCHANGED <<mode, disk, dirty, store, info, decision, sent, attempts_left>>

VerifyMissing(p) ==
    /\ at[p] = "verify" /\ info[p].hash \notin DOMAIN store
    /\ IF mode = "ingest" THEN GoTo(p, "upload") /\ outcome' = outcome
                          ELSE Accept(p, "uploaded")
    /\ UNCHANGED <<mode, disk, dirty, store, info, decision, sent, attempts_left>>

-----------------------------------------------------------------------------
(* upload_verified *)

RetryForEver(p) == GoTo(p, "stat") /\ UNCHANGED <<outcome, attempts_left>>

(* SourceChanged: the writer is aborted; rescan, once.                      *)
SourceChanged(p) ==
    IF attempts_left[p] > 0
      THEN /\ attempts_left' = [attempts_left EXCEPT ![p] = @ - 1]
           /\ GoTo(p, "stat") /\ outcome' = outcome
      ELSE Return(p, Err("source_changed")) /\ attempts_left' = attempts_left

(* The stat of the early exit, then the open of file and writer.            *)
OpenUpload(p) ==
    /\ at[p] = "upload"
    /\ dirty' = [dirty EXCEPT ![p] = FALSE]
    /\ IF Size[disk[p]] = info[p].size
         THEN GoTo(p, "stream") /\ UNCHANGED <<outcome, attempts_left>>
         ELSE SourceChanged(p)
    /\ UNCHANGED <<mode, disk, store, info, decision, sent>>

OnlyTheLength(p, c) == Size[c] = info[p].size

(* What was streamed is what the scan hashed.                               *)
Matches(p, c) == c = info[p].hash /\ Size[c] = info[p].size

Stream(p) ==
    /\ at[p] = "stream"
    /\ \E c \in Read(p) :
         /\ sent' = [sent EXCEPT ![p] = c]
         /\ IF Matches(p, c)
              THEN GoTo(p, "close") /\ UNCHANGED <<outcome, attempts_left>>
              ELSE SourceChanged(p)
    /\ UNCHANGED <<mode, disk, dirty, store, info, decision>>

(* The store materializes the object unless the key is taken.               *)
PutIfAbsent(p) ==
    store' = [k \in DOMAIN store \cup {info[p].hash} |->
                IF k \in DOMAIN store THEN store[k]
                ELSE [bytes |-> sent[p],
                      meta  |-> IF KeepsMetadata THEN k ELSE NoMetadata]]

CloseCountsEveryUpload(p) ==
    /\ at[p] = "close"
    /\ PutIfAbsent(p)
    /\ Accept(p, "uploaded")
    /\ UNCHANGED <<mode, disk, dirty, info, decision, sent, attempts_left>>

(* `close`; ConditionNotMatch means another writer was first.               *)
Close(p) ==
    /\ at[p] = "close"
    /\ PutIfAbsent(p)
    /\ Accept(p, IF info[p].hash \in DOMAIN store THEN "existing" ELSE "uploaded")
    /\ UNCHANGED <<mode, disk, dirty, info, decision, sent, attempts_left>>

(* Any other error of `close`: the object may have materialized.            *)
CloseFails(p) ==
    /\ at[p] = "close"
    /\ store' = store \/ PutIfAbsent(p)
    /\ Return(p, Err("io"))
    /\ UNCHANGED <<mode, disk, dirty, info, decision, sent, attempts_left>>

-----------------------------------------------------------------------------

Step(p) ==
    \/ Stat(p) \/ HashFile(p) \/ VerifyExisting(p) \/ VerifyMissing(p)
    \/ OpenUpload(p) \/ Stream(p) \/ Close(p) \/ CloseFails(p) \/ IoFails(p)

AllDone == (\A p \in Paths : at[p] = "done") /\ UNCHANGED vars

Next ==
    \/ \E p \in Paths : Step(p) \/ \E c \in Contents : Rewrite(p, c)
    \/ AllDone

Spec == Init /\ [][Next]_vars

(* The runtime polls every worker task, and what it reads or requests       *)
(* answers, with a result or an error.  The latter is an assumption on the  *)
(* file system and the bucket: the storage operator (storage/mod.rs) sets   *)
(* no timeout.  Nothing is assumed of whoever rewrites the files.           *)
RequestsAreAnswered == \A p \in Paths : WF_vars(Step(p))

FairSpec == Spec /\ RequestsAreAnswered
-----------------------------------------------------------------------------
(* Properties *)

TypeOK ==
    /\ mode \in Modes
    /\ disk \in [Paths -> Contents] /\ dirty \in [Paths -> BOOLEAN]
    /\ DOMAIN store \subseteq Contents /\ store \in [DOMAIN store -> Objects]
    /\ at \in [Paths -> {"stat", "hash", "verify", "upload", "stream", "close", "done"}]
    /\ info \in [Paths -> [size : Nat, hash : Contents]]
    /\ decision \in [Paths -> {"observed", "unchanged"}]
    /\ sent \in [Paths -> Contents]
    /\ attempts_left \in [Paths -> 0 .. SOURCE_CHANGED_RETRIES]
    /\ outcome \in [Paths -> {Pending} \cup Accepted \cup {Err(e) : e \in Causes}]

(* The CAS invariant: an object stored with its checksum holds the bytes    *)
(* its key names, whatever happens to the files while they are read and     *)
(* whichever upload wins a race or fails.                                   *)
CasIntegrity == Credible(store)

(* Objects are written once and never replaced or removed, and every object *)
(* written, with or without metadata, holds the bytes its key names.        *)
WriteOnce ==
    [][\A k \in Contents :
         \/ k \in DOMAIN store /\ k \in DOMAIN store' /\ store'[k] = store[k]
         \/ k \notin DOMAIN store /\ (k \in DOMAIN store' => store'[k].bytes = k)]_store

(* Files whose blob is in the store, according to the outcome.              *)
Stored(p) ==
    outcome[p] \in Accepted /\ (mode = "ingest" \/ outcome[p].blob = "existing")

(* A file that an ingest accepts, with a row or as unchanged, has its blob  *)
(* in the store, and the blob carries no checksum but the row's hash; also  *)
(* when the upload lost a race and never looked at the winner's object.  A  *)
(* dry run promises it of the blobs it calls existing.                      *)
RowHasItsBlob ==
    \A p \in Paths : Stored(p) =>
        /\ info[p].hash \in DOMAIN store
        /\ store[info[p].hash].meta \in {info[p].hash, NoMetadata}

(* Length, hash and uploaded bytes come from three reads of a file that may *)
(* change between any two of them.  Still the length in the row is that of  *)
(* the stored blob, and the blob holds what the row's hash names: length    *)
(* and hash are of one version.  The exception is an object without         *)
(* checksum that was in the bucket: nobody compares more than its length.   *)
RowIsOneVersion ==
    \A p \in Paths : Stored(p) =>
        LET object == store[info[p].hash] IN
        /\ info[p].size = Size[object.bytes]
        /\ \/ object.bytes = info[p].hash
           \/ object.meta = NoMetadata /\ outcome[p].blob = "existing"

(* Each blob is counted as uploaded by at most one worker: of those that    *)
(* race for one key the others report it as existing.                       *)
OneUploader ==
    mode = "ingest" =>
        \A p, q \in Paths :
            /\ outcome[p] \in Accepted /\ outcome[p].blob = "uploaded"
            /\ outcome[q] \in Accepted /\ outcome[q].blob = "uploaded"
            /\ info[p].hash = info[q].hash
            => p = q

(* The decision is made before the requests that verify and upload, and     *)
(* used after them; still `unchanged` is said of the content that was       *)
(* stored, not of an earlier scan of the same path: a file that changed     *)
(* under the upload is decided again after the rescan.                      *)
UnchangedIsKnown ==
    \A p \in Paths :
        outcome[p] \in Accepted =>
            (outcome[p].kind = "unchanged"
               <=> mode # "offline" /\ p \in DOMAIN Known /\ Known[p] = info[p].hash)

(* Every file whose reads and requests are answered gets an outcome, though *)
(* it may change again at every moment: the rescan happens at most          *)
(* SOURCE_CHANGED_RETRIES times.                                            *)
EveryFileEnds == \A p \in Paths : <>(at[p] = "done")

(* IntegrityMismatch, "The stored object does not match the local file"     *)
(* (upload.rs), is raised only when the object under the file's key and the *)
(* file differ.  The length it compares is that of an earlier stat: a file  *)
(* rewritten between its stat and its hash gets the error for an object     *)
(* that is equal to it, and no rescan.                                      *)
MismatchIsReal ==
    \A p \in Paths :
        outcome[p] = Err("integrity_mismatch") =>
            store[info[p].hash].bytes # disk[p]
=============================================================================
