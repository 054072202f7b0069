---------------------- MODULE OverlappingIngestsProofs ----------------------
(***************************************************************************)
(* Theorems about two overlapping ingests (OverlappingIngests), for any    *)
(* source, batch size, clock and number of runs.                           *)
(*                                                                         *)
(* The lemmas of IngestRecoveryProofs about a step of one process are used *)
(* for both: as they stand for the first, and as P2!... for the second,    *)
(* whose memory P2 puts in place of the first's.  What a step of either    *)
(* does to the other goes through what they share, the catalog, the        *)
(* commits under way and the journals, and these say the same in both      *)
(* readings.                                                               *)
(***************************************************************************)
EXTENDS OverlappingIngests, IngestRecoveryProofs

P2 == INSTANCE IngestRecoveryProofs WITH
    me <- me2, pc <- pc2, known <- known2, open_runs <- open_runs2,
    counted <- counted2, todo <- todo2, seen <- seen2, rows <- rows2,
    writing <- writing2, batches <- batches2, failed <- failed2,
    errors <- errors2, journal <- journal2

-----------------------------------------------------------------------------
(* The two readings agree *)

LEMMA SameAssumption == P2!RecoveryAssumption
  BY RecoveryAssumption DEF P2!RecoveryAssumption

LEMMA SameRows == P2!Row = Row
  BY DEF P2!Row, Row

LEMMA SameCounts ==
    ASSUME NEW h
    PROVE  /\ P2!RowsCommitted(h) = RowsCommitted(h)
           /\ P2!RowsAreNumbers(h) <=> RowsAreNumbers(h)
  BY DEF P2!RowsCommitted, RowsCommitted, P2!RowsAreNumbers, RowsAreNumbers,
         P2!Acks, Acks, P2!IsAck, IsAck, P2!SumFunction, SumFunction,
         P2!SumFunctionOnSet, SumFunctionOnSet, P2!FoldFunctionOnSet, FoldFunctionOnSet,
         P2!MapThenFoldSet, MapThenFoldSet

LEMMA SameOutcome ==
    ASSUME NEW h
    PROVE  /\ P2!LastOwn(h) = LastOwn(h) /\ (P2!IsClosed(h) <=> IsClosed(h))
           /\ P2!IsFinal(h) <=> IsFinal(h)
           /\ P2!AHistory(h) <=> AHistory(h)
  BY DEF P2!LastOwn, LastOwn, P2!Max, Max, P2!IsFinal, IsFinal, P2!IsClosed, IsClosed,
         P2!IsClosure, IsClosure, P2!Started, Started, P2!AHistory, AHistory, P2!Range, Range

LEMMA SameStart == Second!Init <=> P2!Init
  BY DEF Second!Init, P2!Init

LEMMA SameOpen == ASSUME NEW h PROVE Second!IsOpen(h) <=> P2!IsOpen(h)
  <1>1. \A e : Second!IsClosure(e) <=> P2!IsClosure(e)
    BY DEF Second!IsClosure, P2!IsClosure
  <1>2. Second!LastOwn(h) = P2!LastOwn(h)
    BY DEF Second!LastOwn, P2!LastOwn, Second!IsClosure, P2!IsClosure, Second!Max, P2!Max,
           Second!Started, P2!Started
  <1>3. Second!IsClosed(h) <=> P2!IsClosed(h)
    BY <1>1 DEF Second!IsClosed, P2!IsClosed
  <1>4. Second!Outcome(h) = P2!Outcome(h)
    BY <1>2, <1>3 DEF Second!Outcome, P2!Outcome
  <1>. QED
    BY <1>4 DEF Second!IsOpen, P2!IsOpen

LEMMA SameLoading ==
    /\ Second!LoadState <=> P2!LoadState
    /\ Second!ReadJournals <=> P2!ReadJournals
    /\ \A r : Second!CountRows(r) <=> P2!CountRows(r)
  <1>1. Second!LoadState <=> P2!LoadState
    BY DEF Second!LoadState, P2!LoadState, Second!CurrentStates, P2!CurrentStates,
           Second!RowsOf, P2!RowsOf, Second!Latest, P2!Latest
  <1>2. Second!ReadJournals <=> P2!ReadJournals
    BY SameOpen DEF Second!ReadJournals, P2!ReadJournals, Second!world, P2!world
  <1>3. ASSUME NEW r PROVE Second!CountRows(r) <=> P2!CountRows(r)
    <2>1. Second!IsOpen(open_runs2[r]) <=> P2!IsOpen(open_runs2[r])
      BY SameOpen
    <2>. QED
      BY <2>1 DEF Second!CountRows, P2!CountRows, Second!world, P2!world,
                  Second!CountForRun, P2!CountForRun, Second!Cardinality, P2!Cardinality
  <1>. QED
    BY <1>1, <1>2, <1>3

LEMMA SameStarting ==
    /\ Second!CloseReconciled <=> P2!CloseReconciled
    /\ Second!StartRun <=> P2!StartRun
  <1>1. Second!CloseReconciled <=> P2!CloseReconciled
    BY DEF Second!CloseReconciled, P2!CloseReconciled, Second!ReconciledHistory,
           P2!ReconciledHistory, Second!Reconciled, P2!Reconciled, Second!Save, P2!Save,
           Second!world, P2!world
  <1>2. Second!ReadyToStart <=> P2!ReadyToStart
    BY SameOpen DEF Second!ReadyToStart, P2!ReadyToStart
  <1>3. Second!StartRun <=> P2!StartRun
    BY <1>2 DEF Second!StartRun, P2!StartRun, Second!Started, P2!Started,
                Second!Save, P2!Save, Second!world, P2!world
  <1>. QED
    BY <1>1, <1>3

LEMMA SameFiles ==
    \A p : /\ Second!Process(p) <=> P2!Process(p)
           /\ Second!FileFails(p) <=> P2!FileFails(p)
  BY DEF Second!Process, P2!Process, Second!FileFails, P2!FileFails, Second!Working,
         P2!Working, Second!Unchanged, P2!Unchanged, Second!world, P2!world

LEMMA SameRecord == ASSUME NEW e PROVE Second!Record(e) <=> P2!Record(e)
  BY DEF Second!Record, P2!Record, Second!Save, P2!Save

LEMMA SameCommits ==
    /\ Second!BeginCommit <=> P2!BeginCommit
    /\ Second!CommitOk <=> P2!CommitOk
    /\ Second!CommitErr <=> P2!CommitErr
  <1>1. Second!BatchLength = P2!BatchLength
    BY DEF Second!BatchLength, P2!BatchLength, Second!Min, P2!Min
  <1>2. Second!BeginCommit <=> P2!BeginCommit
    BY <1>1, SameRecord
       DEF Second!BeginCommit, P2!BeginCommit, Second!Working, P2!Working,
           Second!Committing, P2!Committing, Second!Record, P2!Record, Second!Save, P2!Save,
           Second!world, P2!world
  <1>3. Second!CommitOk <=> P2!CommitOk
    BY DEF Second!CommitOk, P2!CommitOk, Second!Working, P2!Working, Second!Appended,
           P2!Appended, Second!BatchCommitted, P2!BatchCommitted, Second!Record, P2!Record,
           Second!Save, P2!Save, Second!world, P2!world
  <1>4. Second!CommitErr <=> P2!CommitErr
    BY DEF Second!CommitErr, P2!CommitErr, Second!Working, P2!Working, Second!Unanswered,
           P2!Unanswered, Second!Appended, P2!Appended, Second!world, P2!world
  <1>. QED
    BY <1>2, <1>3, <1>4

LEMMA SameEnds ==
    /\ Second!Complete <=> P2!Complete
    /\ Second!GiveUp <=> P2!GiveUp
    /\ \A r : Second!Supersede(r) <=> P2!Supersede(r)
    /\ Second!Quit <=> P2!Quit
  <1>1. Second!Terminal = P2!Terminal
    BY DEF Second!Terminal, P2!Terminal, Second!CommitFailed, P2!CommitFailed,
           Second!BatchesCommitted, P2!BatchesCommitted, Second!Cardinality,
           P2!Cardinality, Second!Acks, P2!Acks,
           Second!IsAck, P2!IsAck, Second!Completed, P2!Completed,
           Second!Incomplete, P2!Incomplete
  <1>2. Second!Complete <=> P2!Complete
    BY <1>1 DEF Second!Complete, P2!Complete, Second!Working, P2!Working,
                Second!AllSeenThrough, P2!AllSeenThrough, Second!Record, P2!Record,
                Second!Save, P2!Save, Second!world, P2!world
  <1>3. Second!GiveUp <=> P2!GiveUp
    BY <1>1 DEF Second!GiveUp, P2!GiveUp, Second!AllSeenThrough, P2!AllSeenThrough,
                Second!Save, P2!Save, Second!Exit, P2!Exit, Second!world, P2!world
  <1>4. \A r : Second!Supersede(r) <=> P2!Supersede(r)
    BY DEF Second!Supersede, P2!Supersede, Second!SupersededHistory, P2!SupersededHistory,
           Second!SupersededBy, P2!SupersededBy, Second!Save, P2!Save,
           Second!world, P2!world
  <1>5. Second!Quit <=> P2!Quit
    BY DEF Second!Quit, P2!Quit, Second!Exit, P2!Exit, Second!Unanswered, P2!Unanswered,
           Second!Appended, P2!Appended, Second!world, P2!world
  <1>. QED
    BY <1>2, <1>3, <1>4, <1>5

LEMMA SameStep == Second!RunStep <=> P2!RunStep
  BY SameLoading, SameStarting, SameFiles, SameCommits, SameEnds
     DEF Second!RunStep, P2!RunStep, Second!Runs, P2!Runs

LEMMA SameGrowth == P2!CatalogGrows <=> CatalogGrows
  BY DEF P2!CatalogGrows, CatalogGrows

(* What the other process does to what both share is well typed for each.   *)
LEMMA SecondStaysTyped == ASSUME RTypeOK', P2!RTypeOK, UNCHANGED proc2 PROVE P2!RTypeOK'
  BY SameRows DEF RTypeOK, P2!RTypeOK, proc2

LEMMA FirstStaysTyped == ASSUME P2!RTypeOK', RTypeOK, UNCHANGED proc PROVE RTypeOK'
  BY SameRows DEF RTypeOK, P2!RTypeOK, proc

(* A step is one of the first process, of the second, or of neither.        *)
LEMMA WhoseStep ==
    ASSUME [ONext]_ovars
    PROVE  \/ RunStep /\ UNCHANGED proc2
           \/ P2!RunStep /\ UNCHANGED proc
           \/ (Environment \/ LateCommit \/ UNCHANGED vars) /\ UNCHANGED <<proc, proc2>>
  <1>1. CASE (Environment \/ LateCommit) /\ UNCHANGED <<proc2, undisturbed>>
    BY <1>1 DEF Environment, Edit, LateCommit, Land, Lose
  <1>2. CASE FirstSteps \/ SecondSteps
    BY <1>2, SameStep DEF FirstSteps, SecondSteps
  <1>3. CASE UNCHANGED ovars
    BY <1>3 DEF ovars, vars
  <1>. QED
    BY <1>1, <1>2, <1>3 DEF ONext

BothTyped == RTypeOK /\ P2!RTypeOK

LEMMA BothTypes == OSpec => []BothTyped
  <1>. P2!RecoveryAssumption
    BY SameAssumption
  <1>1. OInit => BothTyped
    BY TypeInit, P2!TypeInit, SameStart DEF OInit, BothTyped
  <1>2. BothTyped /\ [ONext]_ovars => BothTyped'
    <2>. SUFFICES ASSUME RTypeOK, P2!RTypeOK, [ONext]_ovars PROVE RTypeOK' /\ P2!RTypeOK'
      BY DEF BothTyped
    <2>1. CASE RunStep /\ UNCHANGED proc2
      BY <2>1, TypeNext, SecondStaysTyped DEF Next
    <2>2. CASE P2!RunStep /\ UNCHANGED proc
      BY <2>2, P2!TypeNext, FirstStaysTyped DEF P2!Next
    <2>3. CASE (Environment \/ LateCommit \/ UNCHANGED vars) /\ UNCHANGED <<proc, proc2>>
      BY <2>3, TypeNext, SecondStaysTyped DEF Next
    <2>. QED
      BY <2>1, <2>2, <2>3, WhoseStep
  <1>. QED
    BY <1>1, <1>2, PTL DEF OSpec

(* What either run has decided by or seen is recorded, or on its way.       *)
BothRemember == RInv /\ P2!RInv

LEMMA BothRememberNext ==
    ASSUME BothTyped, BothTyped', BothRemember, [ONext]_ovars
    PROVE  BothRemember'
  <1>. P2!RecoveryAssumption
    BY SameAssumption
  <1>. /\ RTypeOK /\ P2!RTypeOK /\ RTypeOK' /\ P2!RTypeOK' /\ RInv /\ P2!RInv
    BY DEF BothTyped, BothRemember
  <1>1. CASE RunStep /\ UNCHANGED proc2
    <2>1. RInv' /\ CatalogGrows
      BY <1>1, RNext, CatalogOnlyGrows DEF Next
    <2>2. P2!RInv'
      BY <1>1, <2>1, SameGrowth, P2!ROthers DEF proc2, P2!proc
    <2>. QED
      BY <2>1, <2>2 DEF BothRemember
  <1>2. CASE P2!RunStep /\ UNCHANGED proc
    <2>1. P2!RInv' /\ CatalogGrows
      BY <1>2, SameGrowth, P2!RNext, P2!CatalogOnlyGrows DEF P2!Next
    <2>2. RInv'
      BY <1>2, <2>1, ROthers
    <2>. QED
      BY <2>1, <2>2 DEF BothRemember
  <1>3. CASE (Environment \/ LateCommit \/ UNCHANGED vars) /\ UNCHANGED <<proc, proc2>>
    <2>1. CatalogGrows
      BY <1>3, CatalogOnlyGrows DEF Next
    <2>2. RInv'
      BY <1>3, <2>1, ROthers
    <2>3. P2!RInv'
      BY <1>3, <2>1, SameGrowth, P2!ROthers DEF proc2, P2!proc
    <2>. QED
      BY <2>2, <2>3 DEF BothRemember
  <1>. QED
    BY <1>1, <1>2, <1>3, WhoseStep

(* What a completed run read of its candidates is in the catalog, for both  *)
(* of two ingests that overlap in any way: an observation may be recorded   *)
(* twice, none is lost.                                                     *)
THEOREM NeitherLosesARow == OSpec => []BothRecorded
  <1>. P2!RecoveryAssumption
    BY SameAssumption
  <1>1. OInit => BothRemember
    <2>1. ASSUME Init PROVE RInv
      BY <2>1 DEF Init, RInv
    <2>2. ASSUME P2!Init PROVE P2!RInv
      BY <2>2 DEF P2!Init, P2!RInv
    <2>. QED
      BY <2>1, <2>2, SameStart DEF OInit, BothRemember
  <1>2. BothTyped /\ BothRemember => BothRecorded
    <2>1. Second!CompletedIsRecorded <=> P2!CompletedIsRecorded
      BY DEF Second!CompletedIsRecorded, P2!CompletedIsRecorded, Second!RowsOf, P2!RowsOf
    <2>. QED
      BY <2>1, RRecorded, P2!RRecorded DEF BothTyped, BothRemember, BothRecorded
  <1>. QED
    BY <1>1, <1>2, BothTypes, BothRememberNext, PTL DEF OSpec

-----------------------------------------------------------------------------
(* The journals tell the truth of either run *)

LEMMA SameCountIn == ASSUME NEW t, NEW r PROVE P2!CountIn(t, r) = CountIn(t, r)
  BY DEF P2!CountIn, CountIn, P2!Cardinality, Cardinality

LEMMA SameTelling == ASSUME NEW h, NEW n PROVE P2!Tells(h, n) <=> Tells(h, n)
  BY SameCounts, SameOutcome DEF P2!Tells, Tells

LEMMA SameStored == (P2!Stored <=> Stored) /\ (P2!Stored' <=> Stored')
  <1>1. P2!Stored <=> Stored
    BY SameCountIn, SameTelling, SameOutcome DEF P2!Stored, Stored
  <1>. QED
    BY <1>1, PTL

LEMMA SameLeaving == ASSUME NEW x PROVE P2!Leaves(x) <=> Leaves(x)
  <1>1. /\ \A r : P2!CountIn(catalog, r) = CountIn(catalog, r)
        /\ \A r : P2!CountIn(catalog', r) = CountIn(catalog', r)
    BY SameCountIn
  <1>. QED
    BY <1>1, SameOutcome DEF P2!Leaves, Leaves

(* Each process writes of its own run, and no two runs are the same.        *)
Apart == me \in 0 .. started /\ me2 \in 0 .. started /\ (me = me2 => me = 0)

BothTell == Apart /\ Stored /\ Mine /\ OwnBooks /\ P2!Mine /\ P2!OwnBooks

LEMMA FirstTells ==
    ASSUME BothTyped, BothTyped', BothTell, RunStep, UNCHANGED proc2
    PROVE  BothTell'
  <1>. P2!RecoveryAssumption
    BY SameAssumption
  <1>1. /\ RTypeOK /\ RTypeOK' /\ P2!RTypeOK /\ P2!RTypeOK' /\ started \in Nat
        /\ Apart /\ Stored /\ Mine /\ OwnBooks /\ P2!Mine /\ P2!OwnBooks /\ P2!Stored
    BY SameStored DEF BothTyped, BothTell, RTypeOK
  <1>2. Stored' /\ OwnBooks' /\ Mine'
    BY <1>1, LRunStep, MNext DEF Next
  <1>3. /\ (me' = me /\ started' = started) \/ (started' = started + 1 /\ me' = started')
        /\ UNCHANGED <<me2, pc2, rows2, writing2>> /\ UNCHANGED P2!proc
    BY <1>1, NewRuns DEF proc2, P2!proc
  <1>4. Apart' /\ started <= started'
    BY <1>1, <1>3 DEF Apart
  <1>5. P2!Mine'
    BY <1>1, <1>3 DEF P2!Mine
  <1>6. P2!OwnBooks'
    <2>1. pc2 # "idle" => me2 \in 1 .. started /\ me2 # me
      BY <1>1 DEF Apart, P2!OwnBooks
    <2>2. pc2 # "idle" => P2!Leaves(me2)
      BY <1>1, <2>1, LRunStep, SameLeaving
    <2>3. P2!Stored'
      BY <1>2, SameStored
    <2>. QED
      BY <1>1, <1>3, <1>4, <2>2, <2>3, P2!LOthers
  <1>. QED
    BY <1>2, <1>4, <1>5, <1>6 DEF BothTell

LEMMA SecondTells ==
    ASSUME BothTyped, BothTyped', BothTell, P2!RunStep, UNCHANGED proc
    PROVE  BothTell'
  <1>. P2!RecoveryAssumption
    BY SameAssumption
  <1>1. /\ RTypeOK /\ RTypeOK' /\ P2!RTypeOK /\ P2!RTypeOK' /\ started \in Nat
        /\ Apart /\ Stored /\ Mine /\ OwnBooks /\ P2!Mine /\ P2!OwnBooks /\ P2!Stored
    BY SameStored DEF BothTyped, BothTell, RTypeOK
  <1>2. P2!Stored' /\ P2!OwnBooks' /\ P2!Mine'
    BY <1>1, P2!LRunStep, P2!MNext DEF P2!Next
  <1>3. /\ (me2' = me2 /\ started' = started) \/ (started' = started + 1 /\ me2' = started')
        /\ UNCHANGED <<me, pc, rows, writing>>
    BY <1>1, P2!NewRuns DEF proc
  <1>4. Apart' /\ started <= started'
    BY <1>1, <1>3 DEF Apart
  <1>5. Mine'
    BY <1>1, <1>3 DEF Mine
  <1>6. Stored'
    BY <1>2, SameStored
  <1>7. OwnBooks'
    <2>1. pc # "idle" => me \in 1 .. started /\ me # me2
      BY <1>1 DEF Apart, OwnBooks
    <2>2. pc # "idle" => Leaves(me)
      BY <1>1, <2>1, P2!LRunStep, SameLeaving
    <2>. QED
      BY <1>1, <1>4, <1>6, <2>2, LOthers
  <1>. QED
    BY <1>2, <1>4, <1>5, <1>6, <1>7 DEF BothTell

LEMMA NeitherTells ==
    ASSUME BothTyped, BothTyped', BothTell,
           Environment \/ LateCommit \/ UNCHANGED vars, UNCHANGED <<proc, proc2>>
    PROVE  BothTell'
  <1>. P2!RecoveryAssumption
    BY SameAssumption
  <1>1. /\ RTypeOK /\ P2!RTypeOK /\ started \in Nat
        /\ Apart /\ Stored /\ Mine /\ OwnBooks /\ P2!Mine /\ P2!OwnBooks /\ P2!Stored
    BY SameStored DEF BothTyped, BothTell, RTypeOK
  <1>2. Stored' /\ OwnBooks' /\ Mine'
    BY <1>1, LNext, MNext DEF Next
  <1>3. P2!Environment \/ P2!LateCommit \/ UNCHANGED P2!vars
    <2>1. CASE Environment
      BY <2>1 DEF Environment, Edit, P2!Environment, P2!Edit, proc2, P2!proc
    <2>2. CASE LateCommit
      BY <2>2 DEF LateCommit, Land, Lose, Appended, world, P2!LateCommit, P2!Land, P2!Lose,
                  P2!Appended, P2!world, proc2, P2!proc
    <2>3. CASE UNCHANGED vars
      BY <2>3 DEF vars, world, proc2, P2!vars, P2!world, P2!proc
    <2>. QED
      BY <2>1, <2>2, <2>3
  <1>4. P2!OwnBooks' /\ P2!Mine'
    BY <1>1, <1>3, P2!LNext, P2!MNext DEF P2!Next
  <1>5. Apart'
    <2>1. UNCHANGED <<me, me2, started>>
      BY DEF proc, proc2, Environment, Edit, LateCommit, Land, Lose, vars, world
    <2>. QED
      BY <1>1, <2>1 DEF Apart
  <1>. QED
    BY <1>2, <1>4, <1>5 DEF BothTell

LEMMA BothAlwaysTell == OSpec => []BothTell
  <1>. P2!RecoveryAssumption
    BY SameAssumption
  <1>1. OInit => BothTell
    <2>1. ASSUME Init PROVE Mine /\ me = 0 /\ started = 0
      BY <2>1 DEF Init, Mine
    <2>2. ASSUME P2!Init PROVE P2!Mine /\ me2 = 0
      BY <2>2 DEF P2!Init, P2!Mine
    <2>. QED
      BY <2>1, <2>2, LInit, P2!LInit, SameStart DEF OInit, BothTell, Apart
  <1>2. BothTyped /\ BothTyped' /\ BothTell /\ [ONext]_ovars => BothTell'
    BY WhoseStep, FirstTells, SecondTells, NeitherTells
  <1>. QED
    BY <1>1, <1>2, BothTypes, PTL DEF OSpec

(* However two ingests overlap and overwrite each other's closures, no      *)
(* journal claims more rows than the catalog has of its run, a final one    *)
(* claims them all, and every row's run has a journal.                      *)
THEOREM NothingIsOverclaimed == OSpec => []NothingOverclaims
  <1>1. ASSUME Stored PROVE NothingOverclaims
    <2>1. ASSUME NEW r \in DOMAIN journals
          PROVE  /\ RowsCommitted(journals[r]) <= CountForRun(r)
                 /\ Outcome(journals[r]) \in {"completed", "incomplete"} =>
                      RowsCommitted(journals[r]) = CountForRun(r)
                 /\ \A i \in DOMAIN journals[r] :
                      journals[r][i].state = "reconciled" =>
                        journals[r][i].rows_in_catalog <= CountForRun(r)
      <3>1. Tells(journals[r], CountForRun(r))
        BY <1>1 DEF Stored, CountForRun, CountIn
      <3>2. Outcome(journals[r]) \in {"completed", "incomplete"} => IsFinal(journals[r])
        BY DEF Outcome, IsFinal
      <3>. QED
        BY <3>1, <3>2 DEF Tells
    <2>. QED
      BY <1>1, <2>1 DEF Stored, NothingOverclaims
  <1>2. BothTell => NothingOverclaims
    BY <1>1 DEF BothTell
  <1>. QED
    BY <1>2, BothAlwaysTell, PTL

-----------------------------------------------------------------------------
(* A run that is alone *)

(* The content of the newest rows of p, by the time of their observation.   *)
NewestIs(s, p, c) ==
    \E i \in DOMAIN s :
        /\ s[i].path = p /\ s[i].content = c
        /\ \A k \in DOMAIN s : s[k].path = p =>
              s[k].at < s[i].at \/ (s[k].at = s[i].at /\ s[k].content = c)

(* A row of run r is younger than every row recorded before it.             *)
OwnLater(s, r) ==
    \A i, j \in DOMAIN s : i < j /\ s[j].run = r => s[i].at < s[j].at

(* No row of run r repeats the observation made last before it.             *)
OwnNew(s, r) ==
    \A i, j \in DOMAIN s :
        /\ s[j].run = r /\ s[i].path = s[j].path /\ s[i].at < s[j].at
        /\ ~\E k \in DOMAIN s :
              s[k].path = s[j].path /\ s[i].at < s[k].at /\ s[k].at < s[j].at
        => s[i].content # s[j].content

Fine(s) == OwnLater(s, me) /\ Before(s, clock) /\ OwnNew(s, me)

KnownIsNewest(p) ==
    IF p \in DOMAIN known THEN NewestIs(log, p, known[p]) ELSE Absent(log, p)

(* Nothing of another run is under way, and at most one commit of this one, *)
(* once it failed or ended; what the run has read and will write is right.  *)
Lone ==
    /\ pc2 = "idle"
    /\ Fine(catalog) /\ (~failed => Fine(log))
    /\ \A q \in inflight : (failed \/ pc = "idle") /\ Fine(catalog \o q.batch)
    /\ \A q, q1 \in inflight : q = q1
    /\ pc \in {"loaded", "reconcile"} => \A p \in Paths : KnownIsNewest(p)
    /\ pc = "work" /\ ~failed => \A p \in todo : KnownIsNewest(p)
    /\ ~failed => \A p \in DOMAIN seen : p \notin todo /\ NewestIs(log, p, seen[p])

LoneInv == Hands /\ (undisturbed => Lone)

(* What is fine stays fine when rows of the run itself are cut off.         *)
LEMMA FinePrefix ==
    ASSUME NEW s \in Seq(Row), NEW t \in Seq(Row), NEW r, NEW n \in Nat,
           \A i \in DOMAIN t : t[i].run = r,
           OwnLater(s \o t, r), Before(s \o t, n), OwnNew(s \o t, r)
    PROVE  OwnLater(s, r) /\ Before(s, n) /\ OwnNew(s, r)
  <1> DEFINE u == s \o t
  <1>1. /\ Len(s) \in Nat /\ DOMAIN s = 1 .. Len(s) /\ Len(t) \in Nat /\ DOMAIN t = 1 .. Len(t)
        /\ DOMAIN u = 1 .. Len(s) + Len(t)
        /\ \A i \in DOMAIN s : i \in DOMAIN u /\ u[i] = s[i] /\ s[i] \in Row
        /\ \A i \in Len(s) + 1 .. Len(s) + Len(t) : u[i] = t[i - Len(s)]
    BY ConcatProperties, LenProperties, ElementOfSeq
  <1>2. \A k \in DOMAIN u : k \in DOMAIN s \/ (u[k].run = r /\ \A j \in DOMAIN s : j < k)
    <2>1. \A k \in Len(s) + 1 .. Len(s) + Len(t) : u[k].run = r
      <3>1. \A k \in Len(s) + 1 .. Len(s) + Len(t) : k - Len(s) \in DOMAIN t
        BY <1>1
      <3>. QED
        BY <1>1, <3>1
    <2>. QED
      BY <1>1, <2>1
  <1> HIDE DEF u
  <1>3. OwnLater(u, r) /\ Before(u, n) /\ OwnNew(u, r)
    BY DEF u
  <1>4. OwnLater(s, r) /\ Before(s, n)
    BY <1>1, <1>3 DEF OwnLater, Before
  <1>5. ASSUME NEW i \in DOMAIN s, NEW j \in DOMAIN s,
               s[j].run = r, s[i].path = s[j].path, s[i].at < s[j].at,
               ~\E k \in DOMAIN s :
                  s[k].path = s[j].path /\ s[i].at < s[k].at /\ s[k].at < s[j].at
        PROVE  s[i].content # s[j].content
    <2>1. ASSUME NEW k \in DOMAIN u, u[k].path = u[j].path,
                 u[i].at < u[k].at, u[k].at < u[j].at
          PROVE  FALSE
      <3>1. k \in DOMAIN s
        <4>1. SUFFICES ASSUME u[k].run = r, j < k PROVE FALSE
          BY <1>2
        <4>2. u[j].at < u[k].at
          BY <1>1, <1>3, <4>1 DEF OwnLater
        <4>3. u[j].at \in Nat
          BY <1>1 DEF Row
        <4>4. u[k].at \in Nat
          <5>1. u \in Seq(Row)
            BY ConcatProperties DEF u
          <5>2. u[k] \in Row
            BY <1>1, <5>1, ElementOfSeq, LenProperties
          <5>. QED
            BY <5>2 DEF Row
        <4>. QED
          BY <2>1, <4>2, <4>3, <4>4
      <3>. QED
        BY <1>1, <1>5, <2>1, <3>1
    <2>. QED
      BY <1>1, <1>3, <1>5, <2>1 DEF OwnNew
  <1>. QED
    BY <1>4, <1>5 DEF OwnNew

(* A row stamped by the clock, with another content than the newest of its  *)
(* path, is fine, and the newest now.                                       *)
LEMMA FineAppend ==
    ASSUME NEW s \in Seq(Row), NEW e \in Row, NEW r, e.run = r,
           OwnLater(s, r), Before(s, e.at), OwnNew(s, r), NEW c,
           Absent(s, e.path) \/ (NewestIs(s, e.path, c) /\ c # e.content)
    PROVE  /\ OwnLater(Append(s, e), r) /\ Before(Append(s, e), e.at + 1)
           /\ OwnNew(Append(s, e), r)
  <1> DEFINE t == Append(s, e)
  <1>1. /\ Len(s) \in Nat /\ DOMAIN s = 1 .. Len(s)
        /\ DOMAIN t = 1 .. Len(s) + 1 /\ t[Len(s) + 1] = e
        /\ \A i \in DOMAIN s : i \in DOMAIN t /\ t[i] = s[i] /\ s[i] \in Row
    BY AppendProperties, LenProperties, ElementOfSeq
  <1> HIDE DEF t
  <1>2. e.at \in Nat /\ \A i \in DOMAIN s : s[i].at \in Nat /\ s[i].at < e.at
    BY <1>1 DEF Row, Before
  <1>3. OwnLater(t, r)
    BY <1>1, <1>2 DEF OwnLater
  <1>4. Before(t, e.at + 1)
    BY <1>1, <1>2 DEF Before
  <1>5. ASSUME NEW i \in DOMAIN t, NEW j \in DOMAIN t,
               t[j].run = r, t[i].path = t[j].path, t[i].at < t[j].at,
               ~\E k \in DOMAIN t :
                  t[k].path = t[j].path /\ t[i].at < t[k].at /\ t[k].at < t[j].at
        PROVE  t[i].content # t[j].content
    <2>1. i \in DOMAIN s
      BY <1>1, <1>2, <1>5
    <2>2. CASE j \in DOMAIN s
      <3>1. ~\E k \in DOMAIN s :
               s[k].path = s[j].path /\ s[i].at < s[k].at /\ s[k].at < s[j].at
        BY <1>1, <1>5, <2>1, <2>2
      <3>. QED
        BY <1>1, <1>5, <2>1, <2>2, <3>1 DEF OwnNew
    <2>3. CASE j = Len(s) + 1
      <3>1. t[j] = e /\ s[i].path = e.path /\ t[i] = s[i]
        BY <1>1, <1>5, <2>1, <2>3
      <3>2. c # e.content
        BY <2>1, <3>1 DEF Absent
      <3>3. PICK l \in DOMAIN s :
               /\ s[l].path = e.path /\ s[l].content = c
               /\ \A k \in DOMAIN s : s[k].path = e.path =>
                     s[k].at < s[l].at \/ (s[k].at = s[l].at /\ s[k].content = c)
        BY <2>1, <3>1 DEF Absent, NewestIs
      <3>4. ~(s[i].at < s[l].at)
        BY <1>1, <1>2, <1>5, <2>1, <3>1, <3>3
      <3>. QED
        BY <1>2, <2>1, <3>1, <3>2, <3>3, <3>4
    <2>. QED
      BY <1>1, <2>2, <2>3
  <1>. QED
    BY <1>3, <1>4, <1>5 DEF OwnNew, t

LEMMA NewestAfterAppend ==
    ASSUME NEW s \in Seq(Row), NEW e \in Row, Before(s, e.at)
    PROVE  /\ NewestIs(Append(s, e), e.path, e.content)
           /\ \A p, c : p # e.path /\ NewestIs(s, p, c) => NewestIs(Append(s, e), p, c)
           /\ \A p : p # e.path /\ Absent(s, p) => Absent(Append(s, e), p)
  <1>1. /\ Len(s) \in Nat /\ DOMAIN s = 1 .. Len(s)
        /\ DOMAIN Append(s, e) = 1 .. Len(s) + 1
        /\ \A i \in DOMAIN s : Append(s, e)[i] = s[i]
        /\ Append(s, e)[Len(s) + 1] = e
    BY AppendProperties, LenProperties
  <1>2. NewestIs(Append(s, e), e.path, e.content)
    BY <1>1 DEF NewestIs, Before
  <1>3. ASSUME NEW p, NEW c, p # e.path, NewestIs(s, p, c)
        PROVE  NewestIs(Append(s, e), p, c)
    BY <1>1, <1>3 DEF NewestIs
  <1>4. ASSUME NEW p, p # e.path, Absent(s, p) PROVE Absent(Append(s, e), p)
    BY <1>1, <1>4 DEF Absent
  <1>. QED
    BY <1>2, <1>3, <1>4

(* reduce_latest finds the newest.                                          *)
LEMMA LatestIsNewest ==
    ASSUME RTypeOK, NEW p, NEW c, NewestIs(catalog, p, c)
    PROVE  Latest(p) = {c}
  <1>1. \A i \in DOMAIN catalog : catalog[i].at \in Nat
    <2>1. \A i \in DOMAIN catalog : catalog[i] \in Row
      BY ElementOfSeq, LenProperties DEF RTypeOK
    <2>. QED
      BY <2>1 DEF Row
  <1>2. PICK i \in DOMAIN catalog :
           /\ catalog[i].path = p /\ catalog[i].content = c
           /\ \A k \in DOMAIN catalog : catalog[k].path = p =>
                 catalog[k].at < catalog[i].at
                 \/ (catalog[k].at = catalog[i].at /\ catalog[k].content = c)
    BY DEF NewestIs
  <1>3. i \in RowsOf(p) /\ \A k \in RowsOf(p) : catalog[k].at <= catalog[i].at
    BY <1>1, <1>2 DEF RowsOf
  <1>4. \A j \in RowsOf(p) :
           (\A k \in RowsOf(p) : catalog[k].at <= catalog[j].at) => catalog[j].content = c
    BY <1>1, <1>2, <1>3 DEF RowsOf
  <1>. QED
    BY <1>2, <1>3, <1>4 DEF Latest

(* And where it names one content for each path, those are the newest.      *)
LEMMA NewestIsLatest ==
    ASSUME RTypeOK, NEW p, Cardinality(Latest(p)) <= 1
    PROVE  /\ \A c \in Latest(p) : NewestIs(catalog, p, c)
           /\ RowsOf(p) = {} => Absent(catalog, p)
  <1>1. /\ Len(catalog) \in Nat /\ DOMAIN catalog = 1 .. Len(catalog)
        /\ \A i \in DOMAIN catalog : catalog[i] \in Row
    BY ElementOfSeq, LenProperties DEF RTypeOK
  <1>2. \A i \in DOMAIN catalog : catalog[i].at \in Nat
    BY <1>1 DEF Row
  <1>3. IsFiniteSet(Latest(p))
    <2> DEFINE I == {j \in RowsOf(p) : \A k \in RowsOf(p) : catalog[k].at <= catalog[j].at}
               f == [j \in I |-> catalog[j].content]
    <2>1. I \subseteq 1 .. Len(catalog) /\ Latest(p) = {f[j] : j \in I}
      BY <1>1 DEF RowsOf, Latest
    <2>2. f \in Surjection(I, Latest(p))
      BY <2>1 DEF Surjection
    <2> HIDE DEF I, f
    <2>3. IsFiniteSet(I)
      <3>1. IsFiniteSet(1 .. Len(catalog))
        BY <1>1, FS_Interval
      <3>. QED
        BY <2>1, <3>1, FS_Subset
    <2>. QED
      BY <2>2, <2>3, FS_Surjection
  <1>4. \A c, d \in Latest(p) : c = d
    <2>1. SUFFICES ASSUME NEW c \in Latest(p), NEW d \in Latest(p), c # d PROVE FALSE
      OBVIOUS
    <2>2. Cardinality(Latest(p)) \in Nat /\ Cardinality({c}) = 1
      BY <1>3, FS_CardinalityType, FS_Singleton
    <2>3. {c} \in SUBSET Latest(p)
      BY <2>1
    <2>4. Cardinality({c}) = Cardinality(Latest(p))
      BY <1>3, <2>2, <2>3, FS_Subset
    <2>5. Latest(p) = {c}
      BY <1>3, <2>3, <2>4, FS_Subset
    <2>. QED
      BY <2>1, <2>5
  <1>5. ASSUME NEW c \in Latest(p) PROVE NewestIs(catalog, p, c)
    <2>1. PICK i \in RowsOf(p) : /\ c = catalog[i].content
                                 /\ \A k \in RowsOf(p) : catalog[k].at <= catalog[i].at
      BY <1>5 DEF Latest
    <2>2. ASSUME NEW k \in RowsOf(p), catalog[k].at = catalog[i].at PROVE catalog[k].content = c
      <3>1. catalog[k].content \in Latest(p)
        BY <2>1, <2>2 DEF Latest
      <3>. QED
        BY <1>4, <3>1
    <2>3. \A k \in RowsOf(p) : catalog[k].at < catalog[i].at
                                 \/ (catalog[k].at = catalog[i].at /\ catalog[k].content = c)
      BY <1>2, <2>1, <2>2 DEF RowsOf
    <2>. QED
      BY <2>1, <2>3 DEF NewestIs, RowsOf
  <1>. QED
    BY <1>5 DEF RowsOf, Absent

LEMMA HandsNext == ASSUME Hands, RunStep PROVE Hands'
  <1>1. CASE LoadState \/ ReadJournals \/ (\E r \in Runs : CountRows(r) \/ Supersede(r))
               \/ CloseReconciled \/ StartRun
    <2>1. UNCHANGED <<seen, writing, rows, failed>>
      BY <1>1 DEF LoadState, ReadJournals, CountRows, Supersede, CloseReconciled, StartRun
    <2>2. pc' # "work" => pc # "work" /\ todo' = todo
      BY <1>1 DEF LoadState, ReadJournals, CountRows, Supersede, CloseReconciled, StartRun
    <2>3. pc' \in {"idle", "loaded", "reconcile"} => pc \in {"idle", "loaded", "reconcile"}
      BY <1>1 DEF LoadState, ReadJournals, CountRows, Supersede, CloseReconciled, StartRun
    <2>. QED
      BY <2>1, <2>2, <2>3 DEF Hands
  <1>2. CASE \E p \in Paths : Process(p) \/ FileFails(p)
    BY <1>2 DEF Process, FileFails, Working, Hands
  <1>3. CASE BeginCommit \/ CommitOk \/ CommitErr \/ Complete
    BY <1>3 DEF BeginCommit, CommitOk, CommitErr, Complete, Working, AllSeenThrough, Hands
  <1>4. CASE GiveUp \/ Quit
    BY <1>4 DEF GiveUp, Quit, Exit, Hands
  <1>. QED
    BY <1>1, <1>2, <1>3, <1>4 DEF RunStep

(* Before any commit has failed none is under way.                          *)
LEMMA NoneUnderWay == ASSUME Lone, pc # "idle", ~failed PROVE inflight = {}
  BY DEF Lone

(* The commit in progress may be applied: what is there then is fine.       *)
LEMMA FineCommit ==
    ASSUME RTypeOK, Mine, Lone, ~failed
    PROVE  catalog \o writing \in Seq(Row) /\ Fine(catalog \o writing)
  <1>1. /\ catalog \o writing \in Seq(Row) /\ rows \in Seq(Row) /\ clock \in Nat
        /\ log = (catalog \o writing) \o rows /\ \A i \in DOMAIN rows : rows[i].run = me
    BY LogSplits DEF RTypeOK, Mine
  <1>2. Fine((catalog \o writing) \o rows)
    BY <1>1 DEF Lone
  <1>. QED
    BY <1>1, <1>2, FinePrefix DEF Fine

LEMMA NQuiet ==
    ASSUME Lone, UNCHANGED <<catalog, writing, rows, known, seen, clock, failed, me, pc2>>,
           inflight' \subseteq inflight, pc = "idle" => pc' = "idle",
           pc' \in {"loaded", "reconcile"} => pc \in {"loaded", "reconcile"},
           pc' = "work" /\ ~failed => \A p \in todo' : KnownIsNewest(p),
           ~failed => \A p \in DOMAIN seen : p \notin todo'
    PROVE  Lone'
  <1>1. log' = log
    BY DEF log
  <1>2. \A t : Fine(t) => Fine(t)'
    BY DEF Fine
  <1>3. Fine(catalog)' /\ (~failed' => Fine(log)')
    BY <1>1 DEF Lone, Fine
  <1>4. \A q \in inflight' : (failed' \/ pc' = "idle") /\ Fine(catalog \o q.batch)'
    BY DEF Lone, Fine
  <1>5. \A p : KnownIsNewest(p) => KnownIsNewest(p)'
    BY <1>1 DEF KnownIsNewest
  <1>6. ~failed => \A p \in DOMAIN seen : NewestIs(log', p, seen[p])
    BY <1>1 DEF Lone
  <1>. QED
    BY <1>3, <1>4, <1>5, <1>6 DEF Lone

LEMMA NRunQuiet ==
    ASSUME Hands, Lone, UNCHANGED pc2,
           \/ ReadJournals \/ (\E r \in Runs : CountRows(r) \/ Supersede(r))
           \/ CloseReconciled \/ StartRun \/ (\E p \in Paths : FileFails(p)) \/ Complete
    PROVE  Lone'
  <1>1. /\ UNCHANGED <<catalog, writing, rows, known, seen, clock, failed, me, inflight>>
        /\ pc # "idle"
        /\ pc' \in {"loaded", "reconcile"} => pc \in {"loaded", "reconcile"}
    BY DEF ReadJournals, CountRows, Supersede, CloseReconciled, StartRun, ReadyToStart,
           FileFails, Complete, Working, world
  <1>2. /\ pc' = "work" /\ ~failed => \A p \in todo' : KnownIsNewest(p)
        /\ ~failed => \A p \in DOMAIN seen : p \notin todo'
    <2>1. CASE StartRun
      BY <2>1 DEF StartRun, ReadyToStart, Hands, Lone
    <2>2. CASE ~StartRun
      <3>1. todo' \subseteq todo /\ (pc' = "work" => pc = "work")
        BY <2>2 DEF ReadJournals, CountRows, Supersede, CloseReconciled, FileFails, Complete,
                    Working
      <3>. QED
        BY <3>1 DEF Lone
    <2>. QED
      BY <2>1, <2>2
  <1>. QED
    BY <1>1, <1>2, NQuiet

(* The state loaded by a run that is alone is the newest of each path.      *)
LEMMA NLoad ==
    ASSUME RTypeOK, Hands, Stored, LoadState, Alone, UNCHANGED pc2
    PROVE  Lone'
  <1>1. /\ UNCHANGED <<catalog, inflight, writing, rows, seen, failed, todo>>
        /\ pc = "idle" /\ pc' = "loaded" /\ me' = started + 1 /\ known' \in CurrentStates
        /\ started \in Nat /\ DOMAIN seen = {} /\ todo = {} /\ ~failed
    BY DEF LoadState, RTypeOK, Hands
  <1>2. log' = catalog
    <2>1. log = catalog
      BY <1>1, NothingOnItsWay DEF RTypeOK, Hands
    <2>. QED
      BY <1>1, <2>1 DEF log
  <1>3. \A i \in DOMAIN catalog : catalog[i].run # me'
    <2>1. \A i \in DOMAIN catalog : catalog[i].run \in 1 .. started
      BY DEF Stored
    <2>. QED
      BY <1>1, <2>1
  <1>4. Fine(catalog)' /\ Fine(log)'
    BY <1>1, <1>2, <1>3 DEF Fine, OwnLater, OwnNew, Before, Alone
  <1>5. ASSUME NEW p \in Paths PROVE KnownIsNewest(p)'
    <2>1. /\ p \in DOMAIN known' => known'[p] \in Latest(p)
          /\ p \notin DOMAIN known' => RowsOf(p) = {}
      BY <1>1 DEF CurrentStates
    <2>2. Cardinality(Latest(p)) <= 1
      BY DEF Alone
    <2>3. IF p \in DOMAIN known' THEN NewestIs(catalog, p, known'[p]) ELSE Absent(catalog, p)
      BY <2>1, <2>2, NewestIsLatest
    <2>. QED
      BY <1>2, <2>3 DEF KnownIsNewest
  <1>6. pc2' = "idle" /\ inflight' = {}
    BY <1>1 DEF Alone
  <1>. QED
    BY <1>1, <1>4, <1>5, <1>6 DEF Lone

(* A processed file joins what was seen; its row, if it gets one, the log.  *)
LEMMA NProcess ==
    ASSUME RTypeOK, Lone, NEW p \in Paths, Process(p), UNCHANGED pc2
    PROVE  Lone'
  <1>1. /\ UNCHANGED <<catalog, inflight, writing, known, failed, pc, me>>
        /\ pc = "work" /\ ~failed /\ p \in todo /\ todo' = todo \ {p}
        /\ seen' = [x \in DOMAIN seen \cup {p} |-> IF x = p THEN disk[p] ELSE seen[x]]
    BY DEF Process, Working
  <1>2. /\ KnownIsNewest(p) /\ Fine(log) /\ Fine(catalog) /\ log \in Seq(Row)
        /\ clock \in Nat /\ inflight' = {}
    BY <1>1, LogIsASeq, NoneUnderWay DEF Lone, RTypeOK
  <1>3. \A q \in DOMAIN seen : q # p /\ seen'[q] = seen[q] /\ q \notin todo'
    BY <1>1 DEF Lone
  <1>4. CASE Unchanged(p)
    <2>1. UNCHANGED <<rows, clock>> /\ log' = log
      BY <1>1, <1>4 DEF Process, log
    <2>2. NewestIs(log, p, disk[p])
      BY <1>2, <1>4 DEF KnownIsNewest, Unchanged
    <2>3. \A q \in DOMAIN seen' : q \notin todo' /\ NewestIs(log', q, seen'[q])
      BY <1>1, <1>3, <2>1, <2>2 DEF Lone
    <2>4. \A q \in todo' : KnownIsNewest(q)'
      BY <1>1, <2>1 DEF Lone, KnownIsNewest
    <2>5. Fine(catalog)' /\ Fine(log)'
      BY <1>1, <1>2, <2>1 DEF Fine
    <2>. QED
      BY <1>1, <1>2, <2>3, <2>4, <2>5 DEF Lone
  <1>5. CASE ~Unchanged(p)
    <2>1. PICK e : e = [path |-> p, content |-> disk[p], run |-> me, at |-> clock]
      OBVIOUS
    <2>2. /\ e \in Row /\ e.run = me /\ e.at = clock /\ e.path = p /\ e.content = disk[p]
          /\ rows' = Append(rows, e) /\ clock' = clock + 1
      BY <1>1, <1>5, <2>1 DEF Process, RTypeOK, Row
    <2>3. log' = Append(log, e)
      BY <1>1, <2>2, LogAppended
    <2>4. Fine(log)'
      <3>1. Absent(log, e.path) \/ (NewestIs(log, e.path, known[p]) /\ known[p] # e.content)
        BY <1>2, <1>5, <2>2 DEF KnownIsNewest, Unchanged
      <3>2. /\ OwnLater(log, me) /\ Before(log, e.at) /\ OwnNew(log, me)
        BY <1>2, <2>2 DEF Fine
      <3>3. /\ OwnLater(Append(log, e), me) /\ Before(Append(log, e), e.at + 1)
            /\ OwnNew(Append(log, e), me)
        BY <1>2, <2>2, <3>1, <3>2, FineAppend
      <3>. QED
        BY <1>1, <2>2, <2>3, <3>3 DEF Fine
    <2>5. Fine(catalog)'
      <3>1. \A i \in DOMAIN catalog : catalog[i].at \in Nat
        <4>1. \A i \in DOMAIN catalog : catalog[i] \in Row
          BY LenProperties, ElementOfSeq DEF RTypeOK
        <4>. QED
          BY <4>1 DEF Row
      <3>2. Before(catalog, clock + 1)
        BY <1>2, <3>1 DEF Fine, Before
      <3>. QED
        BY <1>1, <1>2, <2>2, <3>2 DEF Fine
    <2>6. /\ NewestIs(log', p, disk[p])
          /\ \A q, c : q # p /\ NewestIs(log, q, c) => NewestIs(log', q, c)
          /\ \A q : q # p /\ Absent(log, q) => Absent(log', q)
      BY <1>2, <2>2, <2>3, NewestAfterAppend DEF Fine
    <2>7. \A q \in todo' : q # p /\ KnownIsNewest(q)
      BY <1>1 DEF Lone
    <2>8. \A q \in todo' : KnownIsNewest(q)'
      BY <1>1, <2>6, <2>7 DEF KnownIsNewest
    <2>9. \A q \in DOMAIN seen' : q \notin todo' /\ NewestIs(log', q, seen'[q])
      BY <1>1, <1>3, <2>6 DEF Lone
    <2>. QED
      BY <1>1, <1>2, <2>4, <2>5, <2>8, <2>9 DEF Lone
  <1>. QED
    BY <1>4, <1>5

LEMMA NBeginCommit ==
    ASSUME RTypeOK, Lone, BeginCommit, UNCHANGED pc2
    PROVE  Lone'
  <1>1. /\ UNCHANGED <<catalog, inflight, known, seen, clock, failed, pc, me, todo>>
        /\ pc = "work" /\ ~failed /\ writing = <<>>
    BY DEF BeginCommit, Working
  <1>2. log' = log
    BY <1>1, BatchIsCut, ConcatEmptySeq DEF log, RTypeOK
  <1>3. Fine(catalog)' /\ Fine(log)' /\ inflight' = {}
    BY <1>1, <1>2, NoneUnderWay DEF Lone, Fine
  <1>4. \A p : KnownIsNewest(p) => KnownIsNewest(p)'
    BY <1>1, <1>2 DEF KnownIsNewest
  <1>. QED
    BY <1>1, <1>2, <1>3, <1>4 DEF Lone

LEMMA NCommitOk ==
    ASSUME RTypeOK, Mine, Lone, CommitOk, UNCHANGED pc2
    PROVE  Lone'
  <1>1. /\ UNCHANGED <<inflight, rows, known, seen, clock, failed, pc, me, todo>>
        /\ pc = "work" /\ ~failed /\ catalog' = catalog \o writing /\ writing' = <<>>
    BY DEF CommitOk, Working, Appended
  <1>2. /\ catalog' \in Seq(Row) /\ rows \in Seq(Row) /\ log = catalog' \o rows
        /\ Fine(catalog \o writing)
    BY <1>1, LogSplits, FineCommit DEF RTypeOK
  <1>3. log' = log
    BY <1>1, <1>2, ConcatEmptySeq DEF log
  <1>4. Fine(catalog)' /\ Fine(log)' /\ inflight' = {}
    BY <1>1, <1>2, <1>3, NoneUnderWay DEF Lone, Fine
  <1>5. \A p : KnownIsNewest(p) => KnownIsNewest(p)'
    BY <1>1, <1>3 DEF KnownIsNewest
  <1>. QED
    BY <1>1, <1>3, <1>4, <1>5 DEF Lone

(* The batch nobody waits for any more is in the catalog, lost, or under    *)
(* way; whatever comes of it, what is there is fine.                        *)
LEMMA NUnanswered ==
    ASSUME RTypeOK, Mine, Lone, pc = "work", ~failed, Unanswered(writing), UNCHANGED <<clock, me>>
    PROVE  /\ Fine(catalog)' /\ \A q, q1 \in inflight' : q = q1
           /\ \A q \in inflight' : Fine(catalog \o q.batch)'
  <1>1. Fine(catalog) /\ Fine(catalog \o writing) /\ inflight = {}
    BY FineCommit, NoneUnderWay DEF Lone
  <1>2. \A t : Fine(t) => OwnLater(t, me') /\ Before(t, clock') /\ OwnNew(t, me')
    BY DEF Fine
  <1>3. /\ catalog' = catalog \/ catalog' = catalog \o writing
        /\ \A q \in inflight' : catalog' = catalog /\ q.batch = writing
        /\ \A q, q1 \in inflight' : q = q1
    BY <1>1 DEF Unanswered, Appended
  <1>. QED
    BY <1>1, <1>2, <1>3 DEF Fine

LEMMA NCommitErr ==
    ASSUME RTypeOK, Mine, Lone, CommitErr, UNCHANGED pc2
    PROVE  Lone'
  <1>1. /\ UNCHANGED <<clock, pc, me>> /\ pc = "work" /\ ~failed /\ failed' = TRUE
        /\ Unanswered(writing)
    BY DEF CommitErr, Working
  <1>2. /\ Fine(catalog)' /\ \A q, q1 \in inflight' : q = q1
        /\ \A q \in inflight' : Fine(catalog \o q.batch)'
    BY <1>1, NUnanswered
  <1>. QED
    BY <1>1, <1>2 DEF Lone

LEMMA NExit ==
    ASSUME RTypeOK, RTypeOK', Mine, Hands, Lone, GiveUp \/ Quit, UNCHANGED pc2
    PROVE  Lone'
  <1>1. /\ pc' = "idle" /\ DOMAIN seen' = {} /\ rows' = <<>> /\ writing' = <<>> /\ failed' = FALSE
        /\ UNCHANGED <<clock, me>>
    BY DEF GiveUp, Quit, Exit
  <1>2. /\ Fine(catalog)' /\ \A q, q1 \in inflight' : q = q1
        /\ \A q \in inflight' : Fine(catalog \o q.batch)'
    <2>1. CASE Quit /\ writing # <<>>
      BY <2>1, NUnanswered DEF Quit, Hands
    <2>2. CASE GiveUp \/ writing = <<>>
      <3>1. UNCHANGED <<catalog, inflight>>
        BY <2>2 DEF GiveUp, Quit
      <3>. QED
        BY <1>1, <3>1 DEF Lone, Fine
    <2>. QED
      BY <2>1, <2>2
  <1>3. log' = catalog'
    <2>1. catalog' \in Seq(Row)
      BY DEF RTypeOK
    <2>. QED
      BY <1>1, <2>1, ConcatEmptySeq, EmptySeq DEF log
  <1>4. Fine(log)'
    BY <1>2, <1>3 DEF Fine
  <1>. QED
    BY <1>1, <1>2, <1>4 DEF Lone

(* A commit that lands late is the one of the run, failed or gone.          *)
LEMMA NLand ==
    ASSUME RTypeOK, RTypeOK', Hands, Lone, NEW q \in inflight, Land(q), UNCHANGED pc2
    PROVE  Lone'
  <1>1. /\ UNCHANGED <<clock, me, pc, known, seen, todo, rows, writing, failed>>
        /\ catalog' = catalog \o q.batch /\ inflight' = inflight \ {q}
    BY DEF Land, Appended, proc
  <1>2. inflight' = {} /\ (failed \/ pc = "idle") /\ Fine(catalog \o q.batch)
    BY <1>1 DEF Lone
  <1>3. Fine(catalog)'
    BY <1>1, <1>2 DEF Fine
  <1>4. ~failed => rows = <<>> /\ writing = <<>> /\ todo = {} /\ DOMAIN seen = {}
    BY <1>2 DEF Hands
  <1>5. ~failed => log' = catalog'
    <2>1. catalog' \in Seq(Row)
      BY DEF RTypeOK
    <2>. QED
      BY <1>1, <1>4, <2>1, ConcatEmptySeq, EmptySeq DEF log
  <1>6. ~failed' => Fine(log)'
    BY <1>1, <1>3, <1>5 DEF Fine
  <1>7. /\ pc' \notin {"loaded", "reconcile"} /\ (pc' = "work" => failed')
        /\ ~failed' => DOMAIN seen' = {}
    BY <1>1, <1>2, <1>4 DEF Hands
  <1>. QED
    BY <1>1, <1>2, <1>3, <1>6, <1>7 DEF Lone

(* A step of the run itself.                                                *)
LEMMA NRunStep ==
    ASSUME RTypeOK, RTypeOK', Mine, Hands, Lone, RunStep, me' = me, me <= started,
           UNCHANGED pc2
    PROVE  Lone'
  <1>1. CASE LoadState
    BY <1>1 DEF LoadState, RTypeOK
  <1>2. CASE \/ ReadJournals \/ (\E r \in Runs : CountRows(r) \/ Supersede(r))
             \/ CloseReconciled \/ StartRun \/ (\E p \in Paths : FileFails(p)) \/ Complete
    BY <1>2, NRunQuiet
  <1>3. CASE BeginCommit \/ CommitOk \/ CommitErr \/ GiveUp \/ Quit \/ \E p \in Paths : Process(p)
    BY <1>3, NBeginCommit, NCommitOk, NCommitErr, NExit, NProcess
  <1>. QED
    BY <1>1, <1>2, <1>3 DEF RunStep

(* A step of neither.                                                       *)
LEMMA NOthers ==
    ASSUME RTypeOK, RTypeOK', Hands, Lone, Environment \/ LateCommit \/ UNCHANGED vars,
           UNCHANGED <<proc, pc2>>
    PROVE  Lone'
  <1>1. ASSUME NEW q \in inflight, Land(q) PROVE Lone'
    BY <1>1, NLand
  <1>2. CASE Environment \/ UNCHANGED vars \/ \E q \in inflight : Lose(q)
    <2>1. /\ UNCHANGED <<catalog, writing, rows, known, seen, clock, failed, me, pc2, pc, todo>>
          /\ inflight' \subseteq inflight
      BY <1>2 DEF Environment, Edit, Lose, vars, world, proc
    <2>2. /\ pc' = "work" /\ ~failed => \A p \in todo' : KnownIsNewest(p)
          /\ ~failed => \A p \in DOMAIN seen : p \notin todo'
      BY <2>1 DEF Lone
    <2>. QED
      BY <2>1, <2>2, NQuiet
  <1>. QED
    BY <1>1, <1>2 DEF LateCommit

(* What the other process does ends the peace, unless it does nothing.      *)
LEMMA SecondDisturbs ==
    ASSUME RTypeOK, Apart, P2!RunStep, pc2 = "idle" PROVE me2' # me2
  BY DEF P2!RunStep, P2!LoadState, P2!ReadJournals, P2!CountRows, P2!CloseReconciled,
         P2!StartRun, P2!ReadyToStart, P2!Process, P2!FileFails, P2!BeginCommit, P2!CommitOk,
         P2!CommitErr, P2!Complete, P2!GiveUp, P2!Supersede, P2!Quit, P2!Working,
         Apart, RTypeOK

LEMMA LoneNext ==
    ASSUME BothTyped, BothTyped', BothTell, LoneInv, [ONext]_ovars
    PROVE  LoneInv'
  <1>1. /\ RTypeOK /\ RTypeOK' /\ Apart /\ Mine /\ Stored /\ Hands
        /\ undisturbed => Lone
    BY DEF BothTyped, BothTell, LoneInv
  <1>2. me <= started
    BY <1>1 DEF Apart, RTypeOK
  <1>3. CASE FirstSteps
    <2>1. RunStep /\ UNCHANGED pc2 /\ Hands'
      BY <1>1, <1>3, HandsNext DEF FirstSteps, proc2
    <2>2. CASE me' = me
      <3>1. undisturbed' => undisturbed
        BY <1>3, <2>2 DEF FirstSteps
      <3>. QED
        BY <1>1, <1>2, <2>1, <2>2, <3>1, NRunStep DEF LoneInv
    <2>3. CASE me' # me
      <3>1. undisturbed' => Alone
        BY <1>3, <2>3 DEF FirstSteps
      <3>2. LoadState
        BY <2>1, <2>3 DEF RunStep, ReadJournals, CountRows, CloseReconciled, StartRun, Process,
                          FileFails, BeginCommit, CommitOk, CommitErr, Complete, GiveUp,
                          Supersede, Quit
      <3>. QED
        BY <1>1, <2>1, <3>1, <3>2, NLoad DEF LoneInv
    <2>. QED
      BY <2>2, <2>3
  <1>4. CASE SecondSteps
    <2>1. P2!RunStep /\ UNCHANGED proc /\ undisturbed' = (undisturbed /\ me2' = me2)
      BY <1>4, SameStep DEF SecondSteps
    <2>2. ~undisturbed'
      BY <1>1, <2>1, SecondDisturbs DEF Lone
    <2>3. Hands'
      BY <1>1, <2>1 DEF Hands, proc
    <2>. QED
      BY <2>2, <2>3 DEF LoneInv
  <1>5. CASE ((Environment \/ LateCommit) /\ UNCHANGED <<proc2, undisturbed>>) \/ UNCHANGED ovars
    <2>1. /\ Environment \/ LateCommit \/ UNCHANGED vars
          /\ UNCHANGED <<proc, pc2>> /\ undisturbed' = undisturbed
      BY <1>5 DEF Environment, Edit, LateCommit, Land, Lose, ovars, vars, proc2
    <2>2. Hands'
      BY <1>1, <2>1 DEF Hands, proc
    <2>. QED
      BY <1>1, <2>1, <2>2, NOthers DEF LoneInv
  <1>. QED
    BY <1>3, <1>4, <1>5 DEF ONext

(* A run that is alone from its load to its end is sound however the runs   *)
(* before it overlapped: it completes with what it read as the current      *)
(* state, and repeats no observation, also when its own commit lands late.  *)
THEOREM ALoneRunIsSound == OSpec => []LoneRunIsSound
  <1>1. OInit => LoneInv
    BY DEF OInit, Init, LoneInv, Hands
  <1>2. BothTyped /\ LoneInv => LoneRunIsSound
    <2>. SUFFICES ASSUME RTypeOK, Hands, Lone
                  PROVE  CompletedIsCurrent /\ OwnNew(catalog, me)
      BY DEF BothTyped, LoneInv, LoneRunIsSound, OwnNew, RowsOf
    <2>1. CompletedIsCurrent
      <3>1. SUFFICES ASSUME pc = "supersede", NEW p \in DOMAIN seen PROVE Latest(p) = {seen[p]}
        BY DEF CompletedIsCurrent
      <3>2. log = catalog /\ ~failed
        BY <3>1, NothingOnItsWay DEF RTypeOK, Hands
      <3>3. NewestIs(catalog, p, seen[p])
        BY <3>1, <3>2 DEF Lone
      <3>. QED
        BY <3>3, LatestIsNewest
    <2>. QED
      BY <2>1 DEF Lone, Fine
  <1>. QED
    BY <1>1, <1>2, BothAlwaysTell, BothTypes, LoneNext, PTL DEF OSpec
=============================================================================
