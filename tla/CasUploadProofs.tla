-------------------------- MODULE CasUploadProofs --------------------------
(***************************************************************************)
(* Theorems about CasUpload: the CAS invariant, objects written once and   *)
(* counted once, a blob of the recorded length behind every accepted file, *)
(* and `unchanged` only of what the catalog knows, for any number of       *)
(* workers, contents and rewrites.                                         *)
(***************************************************************************)
EXTENDS CasUpload, TLAPS

Positions == {"stat", "hash", "verify", "upload", "stream", "close", "done"}
Outcomes  == {Pending} \cup Accepted \cup {Err(e) : e \in Causes}

-----------------------------------------------------------------------------
(* The pieces of TypeOK, one action at a time *)

(* Outcomes are outcomes.                                                   *)
LEMMA OutcomesTyped ==
    /\ Pending \in Outcomes
    /\ \A k \in {"observed", "unchanged"}, b \in {"uploaded", "existing"} :
         [kind |-> k, blob |-> b] \in Accepted /\ [kind |-> k, blob |-> b] \in Outcomes
    /\ \A e \in Causes : Err(e) \in Outcomes /\ Err(e) \notin Accepted
    /\ Pending \notin Accepted
  BY DEF Outcomes, Accepted, Err, Pending, Causes

(* The store after a conditional put.                                       *)
LEMMA PutKeepsTheStore ==
    ASSUME TypeOK, NEW p \in Paths, PutIfAbsent(p)
    PROVE  /\ DOMAIN store' = DOMAIN store \cup {info[p].hash}
           /\ DOMAIN store' \subseteq Contents
           /\ store' \in [DOMAIN store' -> Objects]
           /\ \A k \in DOMAIN store : store'[k] = store[k]
           /\ info[p].hash \notin DOMAIN store =>
                /\ store'[info[p].hash].bytes = sent[p]
                /\ store'[info[p].hash].meta \in {info[p].hash, NoMetadata}
  <1>1. info[p].hash \in Contents /\ sent[p] \in Contents
    BY DEF TypeOK
  <1>2. DOMAIN store' = DOMAIN store \cup {info[p].hash}
    BY DEF PutIfAbsent
  <1>3. \A k \in DOMAIN store : store'[k] = store[k]
    BY DEF PutIfAbsent
  <1>4. ASSUME info[p].hash \notin DOMAIN store
        PROVE  /\ store'[info[p].hash].bytes = sent[p]
               /\ store'[info[p].hash].meta \in {info[p].hash, NoMetadata}
               /\ store'[info[p].hash] \in Objects
    BY <1>1, <1>4 DEF PutIfAbsent, Objects
  <1>5. DOMAIN store' \subseteq Contents
    BY <1>1, <1>2 DEF TypeOK
  <1>6. store' = [k \in DOMAIN store' |-> store'[k]]
    BY <1>2 DEF PutIfAbsent
  <1>7. \A k \in DOMAIN store' : store'[k] \in Objects
    BY <1>2, <1>3, <1>4 DEF TypeOK
  <1>. QED
    BY <1>2, <1>3, <1>4, <1>5, <1>6, <1>7

(* SourceChanged either sends the worker back to the scan or ends it.       *)
LEMMA SourceChangedTyped ==
    ASSUME TypeOK, NEW p \in Paths, SourceChanged(p)
    PROVE  /\ attempts_left' \in [Paths -> 0 .. SOURCE_CHANGED_RETRIES]
           /\ at' \in [Paths -> Positions] /\ outcome' \in [Paths -> Outcomes]
           /\ \A q \in Paths \ {p} : at'[q] = at[q] /\ outcome'[q] = outcome[q]
           /\ \/ at' = [at EXCEPT ![p] = "stat"] /\ outcome' = outcome
              \/ /\ at' = [at EXCEPT ![p] = "done"]
                 /\ outcome' = [outcome EXCEPT ![p] = Err("source_changed")]
  <1>1. Err("source_changed") \in Outcomes
    BY OutcomesTyped DEF Causes
  <1>2. /\ at \in [Paths -> Positions] /\ outcome \in [Paths -> Outcomes]
        /\ attempts_left \in [Paths -> 0 .. 1]
    BY DEF TypeOK, Positions, Outcomes, SOURCE_CHANGED_RETRIES
  <1>3. CASE attempts_left[p] > 0
    BY <1>2, <1>3 DEF SourceChanged, GoTo, Positions, SOURCE_CHANGED_RETRIES
  <1>4. CASE ~(attempts_left[p] > 0)
    BY <1>1, <1>2, <1>4 DEF SourceChanged, GoTo, Return, Positions, SOURCE_CHANGED_RETRIES
  <1>. QED
    BY <1>3, <1>4

(* A decision is one of the two verdicts.                                   *)
LEMMA DecisionTyped ==
    ASSUME TypeOK, NEW p \in Paths, NEW c \in Contents, Decide(p, c)
    PROVE  /\ decision' \in [Paths -> {"observed", "unchanged"}]
           /\ decision'[p] = Verdict(p, c)
           /\ \A q \in Paths \ {p} : decision'[q] = decision[q]
  <1>1. Verdict(p, c) \in {"observed", "unchanged"}
    BY DEF Verdict
  <1>. QED
    BY <1>1 DEF Decide, TypeOK

(* Accepting a file ends its worker with one of the accepted outcomes.      *)
LEMMA AcceptTyped ==
    ASSUME TypeOK, NEW p \in Paths, NEW b \in {"uploaded", "existing"}, Accept(p, b)
    PROVE  /\ at' = [at EXCEPT ![p] = "done"]
           /\ \E r \in Accepted : outcome' = [outcome EXCEPT ![p] = r] /\ r.blob = b
  <1>1. decision[p] \in {"observed", "unchanged"}
    BY DEF TypeOK
  <1>2. [kind |-> decision[p], blob |-> b] \in Accepted
    BY <1>1, OutcomesTyped
  <1>. QED
    BY <1>2 DEF Accept, Return, GoTo

-----------------------------------------------------------------------------
(* The inductive invariant.  A worker that is uploading found its key free; *)
(* an object under that key since then is one an upload has put there.      *)

Trusted(k) == store[k].bytes = k /\ store[k].meta \in {k, NoMetadata}

WorkerInv(p) ==
    /\ at[p] = "close" => Matches(p, sent[p])
    /\ at[p] \in {"upload", "stream", "close"} =>
         mode = "ingest" /\ (info[p].hash \in DOMAIN store => Trusted(info[p].hash))
    /\ outcome[p] \in Accepted => at[p] = "done"
    /\ Stored(p) => /\ info[p].hash \in DOMAIN store
                    /\ store[info[p].hash].meta \in {info[p].hash, NoMetadata}
                    /\ info[p].size = Size[store[info[p].hash].bytes]
                    /\ outcome[p].blob = "uploaded" =>
                         store[info[p].hash].bytes = info[p].hash

UInv == TypeOK /\ CasIntegrity /\ \A p \in Paths : WorkerInv(p)

(* The store gains at most objects that hold what their key names.          *)
StoreGrows ==
    /\ DOMAIN store \subseteq DOMAIN store'
    /\ \A k \in DOMAIN store : store'[k] = store[k]
    /\ \A k \in DOMAIN store' : k \notin DOMAIN store => Trusted(k)'

(* A worker is left alone by the steps of the others.                       *)
LeftAlone(q) ==
    /\ mode' = mode
    /\ at'[q] = at[q] /\ info'[q] = info[q] /\ decision'[q] = decision[q]
    /\ sent'[q] = sent[q] /\ outcome'[q] = outcome[q]

(* What another worker puts in the store does not disturb a worker.         *)
LEMMA OthersKeepTheirInv ==
    ASSUME NEW q \in Paths, WorkerInv(q), TypeOK, StoreGrows, LeftAlone(q)
    PROVE  WorkerInv(q)'
  <1>1. Matches(q, sent[q]) => Matches(q, sent[q])'
    BY DEF LeftAlone, Matches
  <1>2. Stored(q)' => Stored(q)
    BY DEF LeftAlone, Stored
  <1>3. info[q].hash \in DOMAIN store => info'[q].hash \in DOMAIN store'
                                          /\ store'[info'[q].hash] = store[info[q].hash]
    BY DEF LeftAlone, StoreGrows
  <1>4. (info[q].hash \in DOMAIN store => Trusted(info[q].hash)) =>
          (info'[q].hash \in DOMAIN store' => Trusted(info[q].hash)')
    BY <1>3 DEF LeftAlone, StoreGrows, Trusted
  <1>5. mode' = mode /\ at'[q] = at[q] /\ info'[q] = info[q] /\ outcome'[q] = outcome[q]
    BY DEF LeftAlone
  <1>. QED
    BY <1>1, <1>2, <1>3, <1>4, <1>5 DEF WorkerInv

(* The store is credible as long as it only gains trusted objects.          *)
LEMMA GrowingKeepsIntegrity ==
    ASSUME CasIntegrity, StoreGrows
    PROVE  CasIntegrity'
  BY DEF CasIntegrity, Credible, StoreGrows, Trusted

(* An unchanged store has grown by nothing.                                 *)
LEMMA SameStore == ASSUME store' = store PROVE StoreGrows
  BY DEF StoreGrows

LEMMA InitUInv == ASSUME Init PROVE UInv
  <1>1. TypeOK
    <2>1. DOMAIN store \subseteq Contents /\ store \in [DOMAIN store -> Objects]
      BY CasAssumption DEF Init
    <2>2. info \in [Paths -> [size : Nat, hash : Contents]]
      BY CasAssumption DEF Init
    <2>. QED
      BY <2>1, <2>2 DEF Init, TypeOK, SOURCE_CHANGED_RETRIES
  <1>2. CasIntegrity
    BY CasAssumption DEF Init, CasIntegrity
  <1>3. \A p \in Paths : WorkerInv(p)
    BY OutcomesTyped DEF Init, WorkerInv, Stored
  <1>. QED
    BY <1>1, <1>2, <1>3 DEF UInv

(* One step of one worker keeps the types, the store's growth, the other    *)
(* workers, and its own part of the invariant.                              *)
LEMMA WorkerStep ==
    ASSUME UInv, NEW p \in Paths, Step(p)
    PROVE  /\ TypeOK' /\ StoreGrows /\ WorkerInv(p)'
           /\ \A q \in Paths \ {p} : LeftAlone(q)
  <1>. USE DEF UInv
  <1>1. CASE Stat(p)
    <2>1. Size[disk[p]] \in Nat
      BY CasAssumption DEF TypeOK
    <2>2. TypeOK'
      BY <1>1, <2>1 DEF TypeOK, Stat, GoTo
    <2>3. WorkerInv(p)'
      BY <1>1 DEF TypeOK, Stat, GoTo, WorkerInv, Stored
    <2>. QED
      BY <1>1, <2>2, <2>3, SameStore DEF TypeOK, Stat, GoTo, LeftAlone
  <1>2. CASE HashFile(p)
    <2>1. PICK c \in Read(p) :
            /\ info' = [info EXCEPT ![p].hash = c]
            /\ \/ Return(p, [kind |-> "observed", blob |-> "uploaded"]) /\ decision' = decision
               \/ GoTo(p, "verify") /\ outcome' = outcome /\ Decide(p, c)
      BY <1>2 DEF HashFile
    <2>2. c \in Contents
      BY DEF Read, TypeOK
    <2>3. [kind |-> "observed", blob |-> "uploaded"] \in Outcomes
      BY OutcomesTyped
    <2>4. TypeOK' /\ \A q \in Paths \ {p} : LeftAlone(q)
      <3>1. info' \in [Paths -> [size : Nat, hash : Contents]]
        BY <2>1, <2>2 DEF TypeOK
      <3>2. \A q \in Paths \ {p} : info'[q] = info[q]
        BY <2>1 DEF TypeOK
      <3>3. CASE Return(p, [kind |-> "observed", blob |-> "uploaded"]) /\ decision' = decision
        BY <1>2, <2>3, <3>1, <3>2, <3>3 DEF TypeOK, HashFile, GoTo, Return, LeftAlone, Outcomes
      <3>4. CASE GoTo(p, "verify") /\ outcome' = outcome /\ Decide(p, c)
        BY <1>2, <2>2, <3>1, <3>2, <3>4, DecisionTyped DEF TypeOK, HashFile, GoTo, LeftAlone
      <3>. QED
        BY <1>2, <2>1, <3>3, <3>4 DEF HashFile
    <2>5. WorkerInv(p)'
      BY <1>2 DEF TypeOK, HashFile, GoTo, Return, WorkerInv, Stored
    <2>. QED
      BY <1>2, <2>4, <2>5, SameStore DEF HashFile
  <1>3. CASE VerifyExisting(p)
    <2>1. CASE Accept(p, "existing") /\ Agrees(p)
      <3>1. PICK r \in Accepted : outcome' = [outcome EXCEPT ![p] = r] /\ r.blob = "existing"
        BY <2>1, AcceptTyped
      <3>2. at' = [at EXCEPT ![p] = "done"]
        BY <2>1, AcceptTyped
      <3>3. TypeOK' /\ \A q \in Paths \ {p} : LeftAlone(q)
        BY <1>3, <3>1, <3>2 DEF TypeOK, VerifyExisting, LeftAlone
      <3>4. WorkerInv(p)'
        BY <1>3, <2>1, <3>1, <3>2 DEF TypeOK, VerifyExisting, WorkerInv, Stored, Agrees
      <3>. QED
        BY <1>3, <3>3, <3>4, SameStore DEF VerifyExisting
    <2>2. CASE Return(p, Err("integrity_mismatch"))
      <3>1. Err("integrity_mismatch") \in Outcomes \ Accepted
        BY OutcomesTyped DEF Causes
      <3>2. TypeOK' /\ \A q \in Paths \ {p} : LeftAlone(q)
        BY <1>3, <2>2, <3>1 DEF TypeOK, VerifyExisting, LeftAlone, Return, GoTo, Outcomes
      <3>3. WorkerInv(p)'
        BY <1>3, <2>2, <3>1 DEF TypeOK, VerifyExisting, WorkerInv, Stored, Return, GoTo
      <3>. QED
        BY <1>3, <3>2, <3>3, SameStore DEF VerifyExisting
    <2>. QED
      BY <1>3, <2>1, <2>2 DEF VerifyExisting
  <1>4. CASE VerifyMissing(p)
    <2>1. CASE mode = "ingest"
      <3>1. TypeOK' /\ \A q \in Paths \ {p} : LeftAlone(q)
        BY <1>4, <2>1 DEF TypeOK, VerifyMissing, LeftAlone, GoTo
      <3>2. WorkerInv(p)'
        BY <1>4, <2>1 DEF TypeOK, VerifyMissing, WorkerInv, Stored, GoTo
      <3>. QED
        BY <1>4, <3>1, <3>2, SameStore DEF VerifyMissing
    <2>2. CASE mode # "ingest"
      <3>1. Accept(p, "uploaded")
        BY <1>4, <2>2 DEF VerifyMissing
      <3>2. PICK r \in Accepted : outcome' = [outcome EXCEPT ![p] = r] /\ r.blob = "uploaded"
        BY <3>1, AcceptTyped
      <3>3. at' = [at EXCEPT ![p] = "done"]
        BY <3>1, AcceptTyped
      <3>4. TypeOK' /\ \A q \in Paths \ {p} : LeftAlone(q)
        BY <1>4, <3>2, <3>3 DEF TypeOK, VerifyMissing, LeftAlone
      <3>5. WorkerInv(p)'
        BY <1>4, <2>2, <3>2, <3>3 DEF TypeOK, VerifyMissing, WorkerInv, Stored
      <3>. QED
        BY <1>4, <3>4, <3>5, SameStore DEF VerifyMissing
    <2>. QED
      BY <2>1, <2>2
  <1>5. CASE OpenUpload(p)
    <2>1. CASE GoTo(p, "stream") /\ UNCHANGED <<outcome, attempts_left>>
      <3>1. TypeOK' /\ \A q \in Paths \ {p} : LeftAlone(q)
        BY <1>5, <2>1 DEF TypeOK, OpenUpload, LeftAlone, GoTo
      <3>2. WorkerInv(p)'
        BY <1>5, <2>1 DEF TypeOK, OpenUpload, WorkerInv, Stored, GoTo, Trusted
      <3>. QED
        BY <1>5, <3>1, <3>2, SameStore DEF OpenUpload
    <2>2. CASE SourceChanged(p)
      <3>1. TypeOK' /\ \A q \in Paths \ {p} : LeftAlone(q)
        BY <1>5, <2>2, SourceChangedTyped
           DEF TypeOK, OpenUpload, LeftAlone, Outcomes, Positions
      <3>2. WorkerInv(p)'
        BY <1>5, <2>2, SourceChangedTyped, OutcomesTyped
           DEF TypeOK, OpenUpload, WorkerInv, Stored, Causes
      <3>. QED
        BY <1>5, <3>1, <3>2, SameStore DEF OpenUpload
    <2>. QED
      BY <1>5, <2>1, <2>2 DEF OpenUpload
  <1>6. CASE Stream(p)
    <2>1. PICK c \in Read(p) :
            /\ sent' = [sent EXCEPT ![p] = c]
            /\ IF Matches(p, c)
                 THEN GoTo(p, "close") /\ UNCHANGED <<outcome, attempts_left>>
                 ELSE SourceChanged(p)
      BY <1>6 DEF Stream
    <2>2. c \in Contents
      BY DEF Read, TypeOK
    <2>3. CASE Matches(p, c)
      <3>1. TypeOK' /\ \A q \in Paths \ {p} : LeftAlone(q)
        BY <1>6, <2>1, <2>2, <2>3 DEF TypeOK, Stream, LeftAlone, GoTo
      <3>2. WorkerInv(p)'
        BY <1>6, <2>1, <2>3 DEF TypeOK, Stream, WorkerInv, Stored, GoTo, Trusted, Matches
      <3>. QED
        BY <1>6, <3>1, <3>2, SameStore DEF Stream
    <2>4. CASE ~Matches(p, c)
      <3>1. TypeOK' /\ \A q \in Paths \ {p} : LeftAlone(q)
        BY <1>6, <2>1, <2>2, <2>4, SourceChangedTyped
           DEF TypeOK, Stream, LeftAlone, Outcomes, Positions
      <3>2. WorkerInv(p)'
        BY <1>6, <2>1, <2>4, SourceChangedTyped, OutcomesTyped
           DEF TypeOK, Stream, WorkerInv, Stored, Causes
      <3>. QED
        BY <1>6, <3>1, <3>2, SameStore DEF Stream
    <2>. QED
      BY <2>3, <2>4
  <1>7. CASE Close(p)
    <2>1. sent[p] = info[p].hash /\ Size[sent[p]] = info[p].size
      BY <1>7 DEF Close, WorkerInv, Matches
    <2>2. PICK b \in {"uploaded", "existing"} : Accept(p, b)
      BY <1>7 DEF Close
    <2>3. PICK r \in Accepted : outcome' = [outcome EXCEPT ![p] = r]
      BY <2>2, AcceptTyped
    <2>4. at' = [at EXCEPT ![p] = "done"]
      BY <2>2, AcceptTyped
    <2>5. TypeOK' /\ \A q \in Paths \ {p} : LeftAlone(q)
      BY <1>7, <2>3, <2>4, PutKeepsTheStore DEF TypeOK, Close, LeftAlone
    <2>6. StoreGrows
      BY <1>7, <2>1, PutKeepsTheStore DEF StoreGrows, Close, Trusted
    <2>7. Trusted(info[p].hash)' /\ info[p].hash \in DOMAIN store'
      <3>1. CASE info[p].hash \in DOMAIN store
        BY <1>7, <3>1, PutKeepsTheStore DEF Close, WorkerInv, Trusted
      <3>2. CASE info[p].hash \notin DOMAIN store
        BY <1>7, <2>1, <3>2, PutKeepsTheStore DEF Close, Trusted
      <3>. QED
        BY <3>1, <3>2
    <2>8. WorkerInv(p)'
      BY <1>7, <2>1, <2>3, <2>4, <2>7 DEF TypeOK, Close, WorkerInv, Stored, Trusted
    <2>. QED
      BY <2>5, <2>6, <2>8
  <1>8. CASE CloseFails(p)
    <2>1. sent[p] = info[p].hash
      BY <1>8 DEF CloseFails, WorkerInv, Matches
    <2>2. Err("io") \in Outcomes \ Accepted
      BY OutcomesTyped DEF Causes
    <2>3. /\ DOMAIN store' \subseteq Contents /\ store' \in [DOMAIN store' -> Objects]
          /\ StoreGrows
      <3>1. CASE store' = store
        BY <3>1, SameStore DEF TypeOK
      <3>2. CASE PutIfAbsent(p)
        BY <2>1, <3>2, PutKeepsTheStore DEF StoreGrows, Trusted
      <3>. QED
        BY <1>8, <3>1, <3>2 DEF CloseFails
    <2>4. TypeOK' /\ \A q \in Paths \ {p} : LeftAlone(q)
      BY <1>8, <2>2, <2>3 DEF TypeOK, CloseFails, Return, GoTo, LeftAlone, Outcomes
    <2>5. WorkerInv(p)'
      BY <1>8, <2>2 DEF TypeOK, CloseFails, Return, GoTo, WorkerInv, Stored
    <2>. QED
      BY <2>3, <2>4, <2>5
  <1>9. CASE IoFails(p)
    <2>1. Err("io") \in Outcomes \ Accepted
      BY OutcomesTyped DEF Causes
    <2>2. TypeOK' /\ \A q \in Paths \ {p} : LeftAlone(q)
      BY <1>9, <2>1 DEF TypeOK, IoFails, Return, GoTo, LeftAlone, Outcomes
    <2>3. WorkerInv(p)'
      BY <1>9, <2>1 DEF TypeOK, IoFails, Return, GoTo, WorkerInv, Stored
    <2>. QED
      BY <1>9, <2>2, <2>3, SameStore DEF IoFails
  <1>. QED
    BY <1>1, <1>2, <1>3, <1>4, <1>5, <1>6, <1>7, <1>8, <1>9 DEF Step

(* A step of the workers or of whoever rewrites the files keeps the         *)
(* invariant, and the store only grows.                                     *)
LEMMA NextUInv ==
    ASSUME UInv, [Next]_vars
    PROVE  UInv' /\ StoreGrows
  <1>1. CASE UNCHANGED vars
    <2>1. UNCHANGED <<mode, disk, dirty, store, at, info, decision, sent, attempts_left, outcome>>
      BY <1>1 DEF vars, worker
    <2>2. TypeOK' /\ CasIntegrity' /\ StoreGrows
      BY <2>1, SameStore DEF UInv, TypeOK, CasIntegrity
    <2>3. \A q \in Paths : WorkerInv(q)'
      BY <2>1, <2>2, OthersKeepTheirInv DEF UInv, LeftAlone
    <2>. QED
      BY <2>2, <2>3 DEF UInv
  <1>2. ASSUME NEW p \in Paths, NEW c \in Contents, Rewrite(p, c)
        PROVE  UInv' /\ StoreGrows
    <2>1. UNCHANGED <<mode, store, at, info, decision, sent, attempts_left, outcome>>
      BY <1>2 DEF Rewrite, worker
    <2>2. TypeOK'
      BY <1>2, <2>1 DEF UInv, TypeOK, Rewrite
    <2>3. CasIntegrity' /\ StoreGrows
      BY <2>1, SameStore DEF UInv, CasIntegrity
    <2>4. \A q \in Paths : WorkerInv(q)'
      BY <2>1, <2>3, OthersKeepTheirInv DEF UInv, LeftAlone
    <2>. QED
      BY <2>2, <2>3, <2>4 DEF UInv
  <1>3. ASSUME NEW p \in Paths, Step(p)
        PROVE  UInv' /\ StoreGrows
    <2>1. TypeOK' /\ StoreGrows /\ WorkerInv(p)' /\ \A q \in Paths \ {p} : LeftAlone(q)
      BY <1>3, WorkerStep
    <2>2. \A q \in Paths \ {p} : WorkerInv(q)'
      BY <2>1, OthersKeepTheirInv DEF UInv
    <2>3. CasIntegrity'
      BY <2>1, GrowingKeepsIntegrity DEF UInv
    <2>. QED
      BY <2>1, <2>2, <2>3 DEF UInv
  <1>. QED
    BY <1>1, <1>2, <1>3 DEF Next, AllDone

-----------------------------------------------------------------------------
(* The theorems *)

(* The inductive invariant holds in every state of the workers              *)
(* (process_file).                                                          *)
THEOREM UploadInvariance == Spec => []UInv
  <1>1. Init => UInv
    BY InitUInv
  <1>2. UInv /\ [Next]_vars => UInv'
    BY NextUInv
  <1>. QED
    BY <1>1, <1>2, PTL DEF Spec

(* The CAS invariant of upload.rs: bytes stored under a key with their      *)
(* checksum hash to that key.                                               *)
THEOREM CasAlwaysSound == Spec => []CasIntegrity
  <1>1. UInv => CasIntegrity
    BY DEF UInv
  <1>. QED
    BY <1>1, UploadInvariance, PTL

(* No object is replaced or removed, and what an upload writes is what its  *)
(* key names.                                                               *)
THEOREM ObjectsAreWrittenOnce == Spec => WriteOnce
  <1>1. ASSUME UInv, [Next]_vars
        PROVE  \A k \in Contents :
                 \/ k \in DOMAIN store /\ k \in DOMAIN store' /\ store'[k] = store[k]
                 \/ k \notin DOMAIN store /\ (k \in DOMAIN store' => store'[k].bytes = k)
    BY <1>1, NextUInv DEF StoreGrows, Trusted
  <1>. QED
    BY <1>1, UploadInvariance, PTL DEF Spec, WriteOnce

(* Every file ingest accepts has its blob in the store.                     *)
THEOREM EveryRowHasItsBlob == Spec => []RowHasItsBlob
  <1>1. UInv => RowHasItsBlob
    BY DEF UInv, WorkerInv, RowHasItsBlob
  <1>. QED
    BY <1>1, UploadInvariance, PTL

(* The length of every accepted file is the length of its blob, and the     *)
(* blob is the content the row's hash names, unless the run found it in the *)
(* bucket without a checksum.                                               *)
THEOREM EveryRowIsOneVersion == Spec => []RowIsOneVersion
  <1>1. ASSUME UInv, NEW p \in Paths, Stored(p)
        PROVE  LET object == store[info[p].hash] IN
                 /\ info[p].size = Size[object.bytes]
                 /\ \/ object.bytes = info[p].hash
                    \/ object.meta = NoMetadata /\ outcome[p].blob = "existing"
    <2>1. /\ info[p].hash \in DOMAIN store
          /\ store[info[p].hash].meta \in {info[p].hash, NoMetadata}
          /\ info[p].size = Size[store[info[p].hash].bytes]
          /\ outcome[p].blob = "uploaded" => store[info[p].hash].bytes = info[p].hash
      BY <1>1 DEF UInv, WorkerInv
    <2>2. outcome[p].blob \in {"uploaded", "existing"}
      BY <1>1 DEF Stored, Accepted
    <2>3. store[info[p].hash].meta = info[p].hash =>
            store[info[p].hash].bytes = info[p].hash
      BY <1>1, <2>1 DEF UInv, CasIntegrity, Credible
    <2>. QED
      BY <2>1, <2>2, <2>3
  <1>2. UInv => RowIsOneVersion
    BY <1>1 DEF RowIsOneVersion
  <1>. QED
    BY <1>2, UploadInvariance, PTL

-----------------------------------------------------------------------------
(* What the outcomes count and call unchanged *)

Uploader(p) == outcome[p] \in Accepted /\ outcome[p].blob = "uploaded"

Decided(p) ==
    outcome[p] \in Accepted =>
        (outcome[p].kind = "unchanged"
           <=> mode # "offline" /\ p \in DOMAIN Known /\ Known[p] = info[p].hash)

(* Where a worker uses its decision.                                        *)
Requests == {"verify", "upload", "stream", "close"}

(* A worker requests only of a store.  While it does, and a rescan has not  *)
(* begun, its decision is about the hash it has; what it returned then      *)
(* stands for that hash.                                                    *)
Says(p) ==
    /\ at[p] \in Requests =>
         mode # "offline" /\ decision[p] = Verdict(p, info[p].hash)
    /\ Decided(p)

(* A worker that ends as an uploader found its key free at its close.       *)
LEMMA UploaderCloses ==
    ASSUME UInv, mode = "ingest", NEW p \in Paths, Step(p), Uploader(p)'
    PROVE  info'[p].hash \notin DOMAIN store
  <1>1. at[p] # "done" /\ ~Uploader(p) /\ outcome \in [Paths -> Outcomes]
    BY DEF UInv, WorkerInv, TypeOK, Step, Stat, HashFile, VerifyExisting, VerifyMissing,
           OpenUpload, Stream, Close, CloseFails, IoFails, Uploader, Outcomes
  <1>2. \A r : outcome' = [outcome EXCEPT ![p] = r] => outcome'[p] = r
    BY <1>1
  <1>3. outcome' # outcome /\ \A e \in Causes : ~Return(p, Err(e))
    BY <1>1, <1>2, OutcomesTyped DEF Uploader, Return
  <1>4. ~Accept(p, "existing")
    BY <1>2 DEF Accept, Return, Uploader
  <1>5. CASE Close(p)
    BY <1>4, <1>5 DEF Close
  <1>6. CASE HashFile(p) \/ VerifyExisting(p) \/ VerifyMissing(p)
    BY <1>3, <1>4, <1>6 DEF HashFile, VerifyExisting, VerifyMissing, Causes
  <1>7. CASE Stat(p) \/ OpenUpload(p) \/ Stream(p) \/ CloseFails(p) \/ IoFails(p)
    BY <1>3, <1>7 DEF Stat, OpenUpload, Stream, CloseFails, IoFails, SourceChanged, Causes
  <1>. QED
    BY <1>5, <1>6, <1>7 DEF Step

LEMMA StepSays ==
    ASSUME UInv, NEW p \in Paths, Says(p), Step(p)
    PROVE  Says(p)'
  <1>1. at[p] # "done" /\ outcome[p] \notin Accepted /\ TypeOK /\ mode' = mode
    BY DEF UInv, WorkerInv, Step, Stat, HashFile, VerifyExisting, VerifyMissing,
           OpenUpload, Stream, Close, CloseFails, IoFails
  <1>2. \A next : GoTo(p, next) => at'[p] = next
    BY <1>1 DEF GoTo, TypeOK
  <1>3. ASSUME outcome' = outcome, at'[p] \notin Requests PROVE Says(p)'
    BY <1>1, <1>3 DEF Says, Decided
  <1>4. ASSUME at[p] \in Requests, outcome' = outcome, info' = info, decision' = decision
        PROVE  Says(p)'
    BY <1>1, <1>4 DEF Says, Decided, Verdict
  <1>5. ASSUME NEW e \in Causes, Return(p, Err(e)) PROVE Says(p)'
    BY <1>1, <1>5, OutcomesTyped DEF Says, Decided, Return, GoTo, TypeOK, Requests
  <1>6. ASSUME NEW b \in {"uploaded", "existing"}, Accept(p, b), info' = info, at[p] \in Requests
        PROVE  Says(p)'
    <2>1. outcome'[p] = [kind |-> decision[p], blob |-> b] /\ at'[p] = "done"
      BY <1>1, <1>6 DEF Accept, Return, GoTo, TypeOK
    <2>2. mode' # "offline" /\ decision[p] = Verdict(p, info'[p].hash)
      BY <1>1, <1>6 DEF Says
    <2>. QED
      BY <2>1, <2>2 DEF Says, Decided, Verdict, Requests
  <1>7. CASE HashFile(p)
    <2>1. CASE mode = "offline"
      <3>1. outcome'[p].kind = "observed" /\ at'[p] = "done"
        BY <1>1, <1>7, <2>1 DEF HashFile, Return, GoTo, TypeOK
      <3>. QED
        BY <1>1, <2>1, <3>1 DEF Says, Decided, Requests
    <2>2. CASE mode # "offline"
      <3>1. PICK c \in Read(p) : info' = [info EXCEPT ![p].hash = c] /\ Decide(p, c)
        BY <1>7, <2>2 DEF HashFile
      <3>2. c \in Contents
        BY <1>1 DEF Read, TypeOK
      <3>3. info'[p].hash = c /\ decision'[p] = Verdict(p, c)
        BY <1>1, <3>1, <3>2, DecisionTyped DEF TypeOK
      <3>4. outcome' = outcome
        BY <1>7, <2>2 DEF HashFile
      <3>. QED
        BY <1>1, <2>2, <3>3, <3>4 DEF Says, Decided, Verdict
    <2>. QED
      BY <2>1, <2>2
  <1>8. CASE VerifyExisting(p) \/ VerifyMissing(p)
    <2>1. at[p] \in Requests /\ info' = info /\ decision' = decision
      BY <1>8 DEF VerifyExisting, VerifyMissing, Requests
    <2>. QED
      BY <1>4, <1>5, <1>6, <1>8, <2>1 DEF VerifyExisting, VerifyMissing, Causes
  <1>9. CASE Close(p)
    <2>1. at[p] \in Requests /\ info' = info
      BY <1>9 DEF Close, Requests
    <2>. QED
      BY <1>6, <1>9, <2>1 DEF Close
  <1>10. CASE OpenUpload(p) \/ Stream(p)
    <2>1. at[p] \in Requests /\ info' = info /\ decision' = decision
      BY <1>10 DEF OpenUpload, Stream, Requests
    <2>2. \/ outcome' = outcome \/ \E e \in Causes : Return(p, Err(e))
      BY <1>10 DEF OpenUpload, Stream, SourceChanged, Causes
    <2>. QED
      BY <1>4, <1>5, <2>1, <2>2
  <1>11. CASE Stat(p) \/ CloseFails(p) \/ IoFails(p)
    BY <1>2, <1>3, <1>5, <1>11 DEF Stat, CloseFails, IoFails, Causes, Requests
  <1>. QED
    BY <1>7, <1>8, <1>9, <1>10, <1>11 DEF Step

(* A rewrite, or nothing, leaves every worker alone.                        *)
LEMMA StepsOfWorkers ==
    ASSUME UInv, [Next]_vars
    PROVE  \/ UNCHANGED <<mode, at, info, decision, sent, outcome>>
           \/ \E p \in Paths : Step(p) /\ \A q \in Paths \ {p} : LeftAlone(q)
  <1>1. CASE UNCHANGED vars
    BY <1>1 DEF vars, worker
  <1>2. ASSUME NEW p \in Paths, NEW c \in Contents, Rewrite(p, c)
        PROVE  UNCHANGED <<mode, at, info, decision, sent, outcome>>
    BY <1>2 DEF Rewrite, worker
  <1>3. ASSUME NEW p \in Paths, Step(p) PROVE \A q \in Paths \ {p} : LeftAlone(q)
    BY <1>3, WorkerStep
  <1>. QED
    BY <1>1, <1>2, <1>3 DEF Next, AllDone

(* No blob is counted as uploaded twice: of the workers that race for a key *)
(* only the one that found it free at its close reports an upload.          *)
THEOREM UploadsAreCountedOnce == Spec => []OneUploader
  <1>1. Init => OneUploader
    BY OutcomesTyped DEF Init, OneUploader
  <1>2. ASSUME UInv, OneUploader, [Next]_vars PROVE OneUploader'
    <2>1. CASE UNCHANGED <<mode, at, info, decision, sent, outcome>>
      BY <1>2, <2>1 DEF OneUploader
    <2>2. ASSUME NEW p \in Paths, Step(p), \A q \in Paths \ {p} : LeftAlone(q)
          PROVE  OneUploader'
      <3>1. SUFFICES ASSUME mode' = "ingest", NEW q \in Paths \ {p}, Uploader(p)', Uploader(q)'
                     PROVE  info'[p].hash # info'[q].hash
        <4>1. \A x, y \in Paths \ {p} : mode' = "ingest" /\ Uploader(x)' /\ Uploader(y)'
                                         /\ info'[x].hash = info'[y].hash => x = y
          BY <1>2, <2>2 DEF LeftAlone, OneUploader, Uploader
        <4>. QED
          BY <4>1 DEF OneUploader, Uploader
      <3>2. mode = "ingest" /\ Uploader(q) /\ info'[q] = info[q]
        BY <2>2, <3>1 DEF LeftAlone, Uploader
      <3>3. info[q].hash \in DOMAIN store
        BY <1>2, <3>2 DEF UInv, WorkerInv, Stored, Uploader
      <3>4. info'[p].hash \notin DOMAIN store
        BY <1>2, <2>2, <3>1, <3>2, UploaderCloses
      <3>. QED
        BY <3>2, <3>3, <3>4
    <2>. QED
      BY <1>2, <2>1, <2>2, StepsOfWorkers
  <1>. QED
    BY <1>1, <1>2, UploadInvariance, PTL DEF Spec

(* `unchanged` is said of the content the worker ended with, after whatever *)
(* rescans, and of no other.                                                *)
THEOREM UnchangedMeansKnown == Spec => []UnchangedIsKnown
  <1> DEFINE AllSay == \A p \in Paths : Says(p)
  <1>1. Init => AllSay
    BY OutcomesTyped DEF Init, Says, Decided, Requests
  <1>2. ASSUME UInv, AllSay, [Next]_vars PROVE AllSay'
    <2>1. CASE UNCHANGED <<mode, at, info, decision, sent, outcome>>
      BY <1>2, <2>1 DEF Says, Decided, Verdict
    <2>2. ASSUME NEW p \in Paths, Step(p), \A q \in Paths \ {p} : LeftAlone(q)
          PROVE  AllSay'
      <3>1. \A q \in Paths \ {p} : Says(q)'
        BY <1>2, <2>2 DEF LeftAlone, Says, Decided, Verdict
      <3>. QED
        BY <1>2, <2>2, <3>1, StepSays
    <2>. QED
      BY <1>2, <2>1, <2>2, StepsOfWorkers
  <1>3. AllSay => UnchangedIsKnown
    BY DEF Says, Decided, UnchangedIsKnown
  <1> HIDE DEF AllSay
  <1>. QED
    BY <1>1, <1>2, <1>3, UploadInvariance, PTL DEF Spec
=============================================================================
