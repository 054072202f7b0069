----------------------- MODULE IngestRecoveryProofs -----------------------
(***************************************************************************)
(* Theorems about IngestRecovery.  As long as the clock is not set back    *)
(* and no commit lands late (Spec), reruns observe nothing twice and a run *)
(* that completes leaves the catalog current, for every number of paths,   *)
(* contents, runs and edits and every batch size.  With late commits and   *)
(* any clock, a completed run has recorded what it read, no journal loses  *)
(* an entry, and what `runs` lists is true; a reconciled count is a fact   *)
(* as long as no commit lands late.                                        *)
(*                                                                         *)
(* For the rows, the argument is about one sequence, the log: the catalog, *)
(* with the rows of the run that are on their way to it put at its end.    *)
(* Rows only ever join it there; committing a batch does not change it; a  *)
(* failure or a kill cuts it back to one of its prefixes.  For the journals*)
(* it is that only a run and those which saw it open write to its journal, *)
(* and that what it claims is at most what the catalog has of it.          *)
(***************************************************************************)
EXTENDS IngestRecovery, RunJournalProofs

Row == [path : Paths, content : Contents, run : Nat, at : Nat]

InOrder(s) == \A i, j \in DOMAIN s : i < j => s[i].at < s[j].at

Before(s, t) == \A i \in DOMAIN s : s[i].at < t

NoRepeat(s) ==
    \A i, j \in DOMAIN s :
        /\ i < j /\ s[i].path = s[j].path
        /\ \A k \in i + 1 .. j - 1 : s[k].path # s[i].path
        => s[i].content # s[j].content

(* The last row of p in s records c.                                        *)
LastIs(s, p, c) ==
    \E i \in DOMAIN s :
        /\ s[i].path = p /\ s[i].content = c
        /\ \A k \in i + 1 .. Len(s) : s[k].path # p

Absent(s, p) == \A i \in DOMAIN s : s[i].path # p

-----------------------------------------------------------------------------
(* Sequences of rows *)

(* What holds of a log holds of what a failure leaves of it.                *)
LEMMA PrefixKeeps ==
    ASSUME NEW s \in Seq(Row), NEW t \in Seq(Row), NEW n \in Nat,
           InOrder(s \o t), Before(s \o t, n), NoRepeat(s \o t)
    PROVE  InOrder(s) /\ Before(s, n) /\ NoRepeat(s)
  <1>1. /\ Len(s) \in Nat /\ DOMAIN s = 1 .. Len(s) /\ Len(t) \in Nat
        /\ DOMAIN (s \o t) = 1 .. Len(s) + Len(t)
        /\ \A i \in DOMAIN s : i \in DOMAIN (s \o t) /\ (s \o t)[i] = s[i]
    BY ConcatProperties, LenProperties
  <1>2. InOrder(s)
    BY <1>1 DEF InOrder
  <1>3. Before(s, n)
    BY <1>1 DEF Before
  <1>4. NoRepeat(s)
    <2>1. SUFFICES ASSUME NEW i \in DOMAIN s, NEW j \in DOMAIN s, i < j,
                          s[i].path = s[j].path,
                          \A k \in i + 1 .. j - 1 : s[k].path # s[i].path
                   PROVE  s[i].content # s[j].content
      BY DEF NoRepeat
    <2>2. \A k \in i + 1 .. j - 1 : (s \o t)[k].path # (s \o t)[i].path
      BY <1>1, <2>1
    <2>. QED
      BY <1>1, <2>1, <2>2 DEF NoRepeat
  <1>. QED
    BY <1>2, <1>3, <1>4

(* A row that is stamped by the clock keeps the order.                      *)
LEMMA StampedInOrder ==
    ASSUME NEW s \in Seq(Row), NEW e \in Row, InOrder(s), Before(s, e.at)
    PROVE  InOrder(Append(s, e)) /\ Before(Append(s, e), e.at + 1)
  <1>1. /\ Len(s) \in Nat /\ DOMAIN s = 1 .. Len(s)
        /\ DOMAIN Append(s, e) = 1 .. Len(s) + 1
        /\ \A i \in DOMAIN s : Append(s, e)[i] = s[i]
        /\ Append(s, e)[Len(s) + 1] = e
    BY AppendProperties, LenProperties
  <1>2. \A i \in DOMAIN s : s[i] \in Row
    BY <1>1, ElementOfSeq
  <1>3. e.at \in Nat /\ \A i \in DOMAIN s : s[i].at \in Nat
    BY <1>2 DEF Row
  <1>. QED
    BY <1>1, <1>3 DEF InOrder, Before

(* A row that differs from its path's last one repeats nothing.             *)
LEMMA NewRowRepeatsNothing ==
    ASSUME NEW s \in Seq(Row), NEW e \in Row, NEW c, NoRepeat(s),
           Absent(s, e.path) \/ (LastIs(s, e.path, c) /\ c # e.content)
    PROVE  NoRepeat(Append(s, e))
  <1>1. /\ Len(s) \in Nat /\ DOMAIN s = 1 .. Len(s)
        /\ DOMAIN Append(s, e) = 1 .. Len(s) + 1
        /\ \A i \in DOMAIN s : Append(s, e)[i] = s[i]
        /\ Append(s, e)[Len(s) + 1] = e
    BY AppendProperties, LenProperties
  <1> DEFINE t == Append(s, e)
  <1>2. SUFFICES ASSUME NEW i \in DOMAIN t, NEW j \in DOMAIN t, i < j,
                        t[i].path = t[j].path,
                        \A k \in i + 1 .. j - 1 : t[k].path # t[i].path
                 PROVE  t[i].content # t[j].content
    BY DEF NoRepeat
  <1>3. i \in 1 .. Len(s) /\ j \in 1 .. Len(s) + 1 /\ t[i] = s[i]
    BY <1>1, <1>2
  <1>4. CASE j \in DOMAIN s
    <2>1. \A k \in i + 1 .. j - 1 : s[k].path # s[i].path
      BY <1>1, <1>2, <1>3, <1>4
    <2>. QED
      BY <1>1, <1>2, <1>3, <1>4, <2>1 DEF NoRepeat
  <1>5. CASE j = Len(s) + 1
    <2>1. t[j] = e /\ s[i].path = e.path
      BY <1>1, <1>2, <1>3, <1>5
    <2>2. PICK l \in DOMAIN s : /\ s[l].path = e.path /\ s[l].content = c
                                /\ \A k \in l + 1 .. Len(s) : s[k].path # e.path
      BY <1>1, <1>3, <2>1 DEF Absent, LastIs
    <2>3. \A k \in i + 1 .. Len(s) : s[k].path # e.path
      BY <1>1, <1>2, <1>3, <1>5, <2>1
    <2>4. i = l
      BY <1>1, <1>3, <2>1, <2>2, <2>3
    <2>. QED
      BY <1>1, <1>3, <2>1, <2>2, <2>4 DEF Absent
  <1>. QED
    BY <1>1, <1>3, <1>4, <1>5

(* Appending a row makes it the last of its path, and of no other.          *)
LEMMA LastAfterAppend ==
    ASSUME NEW s \in Seq(Row), NEW e \in Row
    PROVE  /\ LastIs(Append(s, e), e.path, e.content)
           /\ \A p, c : p # e.path /\ LastIs(s, p, c) => LastIs(Append(s, e), p, c)
           /\ \A p : p # e.path /\ Absent(s, p) => Absent(Append(s, e), p)
  <1>1. /\ Len(s) \in Nat /\ DOMAIN s = 1 .. Len(s)
        /\ DOMAIN Append(s, e) = 1 .. Len(s) + 1 /\ Len(Append(s, e)) = Len(s) + 1
        /\ \A i \in DOMAIN s : Append(s, e)[i] = s[i]
        /\ Append(s, e)[Len(s) + 1] = e
    BY AppendProperties, LenProperties
  <1>2. LastIs(Append(s, e), e.path, e.content)
    BY <1>1 DEF LastIs
  <1>3. ASSUME NEW p, NEW c, p # e.path, LastIs(s, p, c)
        PROVE  LastIs(Append(s, e), p, c)
    <2>1. PICK i \in DOMAIN s : /\ s[i].path = p /\ s[i].content = c
                                /\ \A k \in i + 1 .. Len(s) : s[k].path # p
      BY <1>3 DEF LastIs
    <2>2. \A k \in i + 1 .. Len(s) + 1 : Append(s, e)[k].path # p
      BY <1>1, <1>3, <2>1
    <2>. QED
      BY <1>1, <2>1, <2>2 DEF LastIs
  <1>4. ASSUME NEW p, p # e.path, Absent(s, p)
        PROVE  Absent(Append(s, e), p)
    BY <1>1, <1>4 DEF Absent
  <1>. QED
    BY <1>2, <1>3, <1>4

(* In a catalog in order the latest row of a path, which the next run will  *)
(* decide by, is the last one.                                              *)
LEMMA LatestIsLast ==
    ASSUME catalog \in Seq(Row), InOrder(catalog), NEW p
    PROVE  /\ \A c : LastIs(catalog, p, c) => Latest(p) = {c}
           /\ \A c \in Latest(p) : LastIs(catalog, p, c)
           /\ RowsOf(p) = {} => Absent(catalog, p)
  <1>1. /\ Len(catalog) \in Nat /\ DOMAIN catalog = 1 .. Len(catalog)
        /\ \A i \in DOMAIN catalog : catalog[i] \in Row
    BY LenProperties, ElementOfSeq
  <1>2. \A i \in DOMAIN catalog : catalog[i].at \in Nat
    BY <1>1 DEF Row
  <1>3. ASSUME NEW c, LastIs(catalog, p, c) PROVE Latest(p) = {c}
    <2>1. PICK i \in DOMAIN catalog :
             /\ catalog[i].path = p /\ catalog[i].content = c
             /\ \A k \in i + 1 .. Len(catalog) : catalog[k].path # p
      BY <1>3 DEF LastIs
    <2>2. \A k \in RowsOf(p) : k \in 1 .. i
      BY <1>1, <2>1 DEF RowsOf
    <2>3. \A k \in RowsOf(p) : k = i \/ catalog[k].at < catalog[i].at
      BY <1>1, <2>1, <2>2 DEF RowsOf, InOrder
    <2>4. i \in RowsOf(p)
      BY <2>1 DEF RowsOf
    <2>5. {j \in RowsOf(p) : \A k \in RowsOf(p) : catalog[k].at <= catalog[j].at} = {i}
      BY <1>2, <2>3, <2>4 DEF RowsOf
    <2>. QED
      BY <2>1, <2>5 DEF Latest
  <1>4. ASSUME NEW c \in Latest(p) PROVE LastIs(catalog, p, c)
    <2>1. PICK i \in RowsOf(p) : /\ c = catalog[i].content
                                 /\ \A k \in RowsOf(p) : catalog[k].at <= catalog[i].at
      BY <1>4 DEF Latest
    <2>2. \A k \in i + 1 .. Len(catalog) : catalog[k].path # p
      <3>1. SUFFICES ASSUME NEW k \in i + 1 .. Len(catalog), catalog[k].path = p
                     PROVE  FALSE
        OBVIOUS
      <3>2. k \in DOMAIN catalog /\ i \in DOMAIN catalog /\ i < k
        BY <1>1, <3>1 DEF RowsOf
      <3>3. catalog[i].at < catalog[k].at /\ k \in RowsOf(p)
        BY <3>1, <3>2 DEF InOrder, RowsOf
      <3>. QED
        BY <1>2, <2>1, <3>2, <3>3
    <2>. QED
      BY <2>1, <2>2 DEF LastIs, RowsOf
  <1>5. RowsOf(p) = {} => Absent(catalog, p)
    BY DEF RowsOf, Absent
  <1>. QED
    BY <1>3, <1>4, <1>5

-----------------------------------------------------------------------------
(* The invariant *)

log == catalog \o (writing \o rows)

(* What the run will decide by is the last the log has of the path.         *)
KnownIsLast(p) ==
    IF p \in DOMAIN known THEN LastIs(log, p, known[p]) ELSE Absent(log, p)

RTypeOK ==
    /\ disk \in [Paths -> Contents] /\ clock \in Nat /\ started \in Nat /\ me \in Nat
    /\ catalog \in Seq(Row) /\ writing \in Seq(Row) /\ rows \in Seq(Row)
    /\ inflight \subseteq [batch : Seq(Row), base : Nat]
    /\ todo \subseteq Paths /\ DOMAIN seen \subseteq Paths
    /\ failed \in BOOLEAN
    /\ pc \in {"idle", "loaded", "reconcile", "work", "supersede"}

Sound(s) == InOrder(s) /\ Before(s, clock) /\ NoRepeat(s)

(* Outside of `work` nothing is on its way; a failed run sends nothing.     *)
Hands ==
    /\ pc # "work" => writing = <<>> /\ rows = <<>> /\ todo = {} /\ ~failed
    /\ pc \in {"idle", "loaded", "reconcile"} => DOMAIN seen = {}
    /\ failed => writing = <<>>

(* Until its decision each candidate's last row is the one known, after it  *)
(* the one that records what was seen.                                      *)
Memory ==
    /\ pc \in {"loaded", "reconcile"} => \A p \in Paths : KnownIsLast(p)
    /\ pc = "work" /\ ~failed => \A p \in todo : KnownIsLast(p)
    /\ ~failed => \A p \in DOMAIN seen : p \notin todo /\ LastIs(log, p, seen[p])

HInv ==
    /\ RTypeOK
    /\ Hands
    /\ Sound(catalog)
    /\ ~failed => Sound(log)
    /\ Memory

(* A batch is cut off the front of the rows.                                *)
LEMMA BatchIsCut ==
    ASSUME RTypeOK, BeginCommit
    PROVE  /\ writing' \in Seq(Row) /\ rows' \in Seq(Row)
           /\ writing' \o rows' = rows
  <1>1. /\ rows # <<>>
        /\ writing' = SubSeq(rows, 1, BatchLength)
        /\ rows' = SubSeq(rows, BatchLength + 1, Len(rows))
    BY DEF BeginCommit
  <1>2. rows \in Seq(Row) /\ Len(rows) \in Nat \ {0} /\ BatchSize \in Nat \ {0}
    BY <1>1, EmptySeq, LenProperties, RecoveryAssumption DEF RTypeOK
  <1>3. BatchLength \in 1 .. Len(rows)
    <2>1. \E x \in {BatchSize, Len(rows)} : \A y \in {BatchSize, Len(rows)} : x <= y
      BY <1>2
    <2>2. BatchLength \in {BatchSize, Len(rows)} /\ BatchLength <= Len(rows)
      BY <2>1 DEF BatchLength, Min
    <2>. QED
      BY <1>2, <2>2
  <1>4. \A i \in 1 .. Len(rows) : rows[i] \in Row
    BY <1>2, ElementOfSeq
  <1>5. writing' \in Seq(Row) /\ rows' \in Seq(Row)
    BY <1>1, <1>2, <1>3, <1>4, SubSeqProperties
  <1>6. writing' \o rows' = SubSeq(rows, 1, Len(rows))
    BY <1>1, <1>2, <1>3, ConcatAdjacentSubSeq
  <1>. QED
    BY <1>2, <1>5, <1>6, SubSeqFull

LEMMA TypeInit == ASSUME Init PROVE RTypeOK
  <1>1. catalog \in Seq(Row) /\ writing \in Seq(Row) /\ rows \in Seq(Row)
    BY EmptySeq DEF Init
  <1>2. DOMAIN seen = {}
    BY DEF Init
  <1>. QED
    BY <1>1, <1>2 DEF Init, RTypeOK

(* What can become of a batch nobody waits for.                             *)
LEMMA TypeUnanswered ==
    ASSUME RTypeOK, Unanswered(writing)
    PROVE  catalog' \in Seq(Row) /\ inflight' \subseteq [batch : Seq(Row), base : Nat]
  <1>1. CASE Appended(writing) /\ inflight' = inflight
    BY <1>1, ConcatProperties DEF RTypeOK, Appended
  <1>2. CASE UNCHANGED <<catalog, inflight>>
    BY <1>2 DEF RTypeOK
  <1>3. CASE /\ inflight' = inflight \cup {[batch |-> writing, base |-> Len(catalog)]}
             /\ catalog' = catalog
    BY <1>3, LenProperties DEF RTypeOK
  <1>. QED
    BY <1>1, <1>2, <1>3 DEF Unanswered

LEMMA TypeNext == ASSUME RTypeOK, [Next \/ LateCommit]_vars PROVE RTypeOK'
  <1>1. CASE Environment
    BY <1>1 DEF Environment, Edit, RTypeOK, proc
  <1>2. CASE LateCommit
    <2>1. PICK request \in inflight : Land(request) \/ Lose(request)
      BY <1>2 DEF LateCommit
    <2>2. catalog \in Seq(Row) /\ request.batch \in Seq(Row)
      BY DEF RTypeOK
    <2>3. catalog \o request.batch \in Seq(Row)
      BY <2>2, ConcatProperties
    <2>4. catalog' \in Seq(Row) /\ inflight' \subseteq inflight
      BY <2>1, <2>2, <2>3 DEF Land, Lose, Appended
    <2>. QED
      BY <2>1, <2>4 DEF Land, Lose, RTypeOK, world, proc
  <1>3. CASE LoadState
    BY <1>3 DEF LoadState, RTypeOK
  <1>4. CASE ReadJournals \/ (\E r \in Runs : CountRows(r) \/ Supersede(r))
               \/ CloseReconciled \/ StartRun \/ Complete
    BY <1>4 DEF ReadJournals, CountRows, Supersede, CloseReconciled, StartRun, Complete,
                world, RTypeOK
  <1>5. ASSUME NEW p \in Paths, Process(p) PROVE RTypeOK'
    <2> DEFINE e == [path |-> p, content |-> disk[p], run |-> me, at |-> clock]
    <2>1. e \in Row
      BY DEF RTypeOK, Row
    <2>2. rows' \in Seq(Row) /\ clock' \in Nat
      <3>1. rows \in Seq(Row) /\ clock \in Nat
        BY DEF RTypeOK
      <3>2. Append(rows, e) \in Seq(Row)
        BY <2>1, <3>1, AppendProperties
      <3>. QED
        BY <1>5, <3>1, <3>2 DEF Process
    <2>3. DOMAIN seen' \subseteq Paths
      BY <1>5 DEF Process, RTypeOK
    <2>. QED
      BY <1>5, <2>2, <2>3 DEF Process, RTypeOK, world
  <1>6. ASSUME NEW p \in Paths, FileFails(p) PROVE RTypeOK'
    BY <1>6 DEF FileFails, RTypeOK, world
  <1>7. CASE BeginCommit
    BY <1>7, BatchIsCut DEF BeginCommit, RTypeOK, world
  <1>8. CASE CommitOk
    BY <1>8, ConcatProperties, EmptySeq DEF CommitOk, Appended, RTypeOK, world
  <1>9. CASE CommitErr
    BY <1>9, TypeUnanswered, EmptySeq DEF CommitErr, RTypeOK, world
  <1>10. ASSUME Exit, catalog' \in Seq(Row), UNCHANGED <<world, clock, me>>,
                inflight' \subseteq [batch : Seq(Row), base : Nat]
         PROVE  RTypeOK'
    <2>1. rows' = <<>> /\ writing' = <<>> /\ DOMAIN seen' = {}
      BY <1>10 DEF Exit
    <2>. QED
      BY <1>10, <2>1, EmptySeq DEF Exit, RTypeOK, world
  <1>11. CASE GiveUp
    BY <1>10, <1>11 DEF GiveUp, RTypeOK
  <1>12. CASE Quit
    BY <1>10, <1>12, TypeUnanswered DEF Quit, RTypeOK
  <1>13. CASE Stopped \/ UNCHANGED vars
    BY <1>13 DEF Stopped, vars, world, proc, RTypeOK
  <1>. QED
    BY <1>1, <1>2, <1>3, <1>4, <1>5, <1>6, <1>7, <1>8, <1>9, <1>11, <1>12, <1>13
       DEF Next, RunStep

(* Where nothing is on its way the log is the catalog.                      *)
LEMMA NothingOnItsWay ==
    ASSUME catalog \in Seq(Row), writing = <<>>, rows = <<>>
    PROVE  log = catalog
  BY ConcatEmptySeq, EmptySeq DEF log

LEMMA LogIsASeq == ASSUME RTypeOK PROVE log \in Seq(Row)
  BY ConcatProperties DEF RTypeOK, log

LEMMA HInit == ASSUME Init PROVE HInv
  <1>1. RTypeOK
    BY TypeInit
  <1>2. log = <<>> /\ DOMAIN catalog = {}
    BY <1>1, NothingOnItsWay DEF Init, RTypeOK
  <1>3. Sound(catalog) /\ Sound(log)
    BY <1>2 DEF Init, Sound, InOrder, Before, NoRepeat
  <1>4. Hands /\ Memory
    BY DEF Init, Hands, Memory
  <1>. QED
    BY <1>1, <1>3, <1>4 DEF HInv

(* A commit moves the boundary inside the log, and nothing else.            *)
LEMMA LogSplits ==
    ASSUME RTypeOK
    PROVE  /\ catalog \o writing \in Seq(Row)
           /\ log = (catalog \o writing) \o rows
  <1>1. catalog \in Seq(Row) /\ writing \in Seq(Row) /\ rows \in Seq(Row)
    BY DEF RTypeOK
  <1>2. catalog \o writing \in Seq(Row)
    BY <1>1, ConcatProperties
  <1>3. catalog \o (writing \o rows) = (catalog \o writing) \o rows
    BY <1>1, ConcatAssociative
  <1>. QED
    BY <1>2, <1>3 DEF log

(* A row is observed.                                                       *)
LEMMA LogAppended ==
    ASSUME RTypeOK, NEW e \in Row, UNCHANGED <<catalog, writing>>, rows' = Append(rows, e)
    PROVE  log' = Append(log, e)
  <1>1. /\ catalog \in Seq(Row) /\ writing \in Seq(Row) /\ rows \in Seq(Row)
        /\ <<e>> \in Seq(Row) /\ writing \o rows \in Seq(Row) /\ log \in Seq(Row)
    BY ConcatProperties DEF RTypeOK, log
  <1>2. rows' = rows \o <<e>> /\ Append(log, e) = log \o <<e>>
    BY <1>1, AppendIsConcat
  <1>3. writing \o (rows \o <<e>>) = (writing \o rows) \o <<e>>
    BY <1>1, ConcatAssociative
  <1>4. catalog \o ((writing \o rows) \o <<e>>) = log \o <<e>>
    BY <1>1, ConcatAssociative DEF log
  <1>. QED
    BY <1>2, <1>3, <1>4 DEF log

(* So what a failure or a kill leaves of a sound log is sound.              *)
LEMMA SoundPrefix ==
    ASSUME HInv
    PROVE  ~failed => Sound(catalog \o writing)
  <1>1. catalog \o writing \in Seq(Row) /\ rows \in Seq(Row) /\ clock \in Nat
    BY LogSplits DEF HInv, RTypeOK
  <1>2. ~failed => Sound((catalog \o writing) \o rows)
    BY LogSplits DEF HInv
  <1>. QED
    BY <1>1, <1>2, PrefixKeeps DEF Sound

(* An action that neither touches the log nor the memory of what is known   *)
(* and seen keeps what is said of them.                                     *)
LEMMA LogStands ==
    ASSUME HInv, UNCHANGED <<catalog, writing, rows, known, seen, clock, failed>>
    PROVE  /\ log' = log
           /\ Sound(catalog)' /\ (~failed' => Sound(log)')
           /\ \A p : KnownIsLast(p) => KnownIsLast(p)'
           /\ \A p : LastIs(log, p, seen[p]) => LastIs(log, p, seen[p])'
  <1>1. log' = log
    BY DEF log
  <1>2. Sound(catalog)' /\ (~failed' => Sound(log)')
    BY <1>1 DEF HInv, Sound
  <1>3. \A p : KnownIsLast(p) => KnownIsLast(p)'
    BY <1>1 DEF KnownIsLast
  <1>4. \A p : LastIs(log, p, seen[p]) => LastIs(log, p, seen[p])'
    BY <1>1 DEF LastIs
  <1>. QED
    BY <1>1, <1>2, <1>3, <1>4

LEMMA HEdit == ASSUME HInv, NEW p \in Paths, NEW c \in Contents, Edit(p, c), RTypeOK' PROVE HInv'
  <1>1. /\ UNCHANGED <<catalog, writing, rows, known, seen, clock, failed, todo, pc, me, started>>
        /\ disk' \in [Paths -> Contents]
    BY DEF Edit, proc, HInv, RTypeOK
  <1>. QED
    BY <1>1, LogStands DEF HInv, Hands, Memory

(* The state that is loaded is the last of each path.                       *)
LEMMA HLoadState == ASSUME ~ClockStepsBack, HInv, LoadState, RTypeOK' PROVE HInv'
  <1>1. /\ UNCHANGED <<disk, catalog, writing, rows, seen, clock, failed, todo>>
        /\ pc = "idle" /\ pc' = "loaded" /\ me' \in Nat /\ started' \in Nat
        /\ known' \in CurrentStates
    BY DEF LoadState, HInv, RTypeOK
  <1>3. log = catalog /\ log' = catalog
    BY <1>1, NothingOnItsWay DEF HInv, RTypeOK, Hands, log
  <1>4. Sound(catalog)' /\ Sound(log)'
    BY <1>1, <1>3 DEF HInv, Hands, Sound
  <1>5. ASSUME NEW p \in Paths PROVE KnownIsLast(p)'
    <2>1. catalog \in Seq(Row) /\ InOrder(catalog)
      BY DEF HInv, RTypeOK, Sound
    <2>2. /\ p \in DOMAIN known' => known'[p] \in Latest(p)
          /\ p \notin DOMAIN known' => RowsOf(p) = {}
      BY <1>1 DEF CurrentStates
    <2>3. IF p \in DOMAIN known' THEN LastIs(catalog, p, known'[p]) ELSE Absent(catalog, p)
      BY <2>1, <2>2, LatestIsLast
    <2>. QED
      BY <1>3, <2>3 DEF KnownIsLast
  <1>6. Hands' /\ Memory'
    BY <1>1, <1>5 DEF HInv, Hands, Memory
  <1>. QED
    BY <1>1, <1>4, <1>6 DEF HInv

(* Nothing of the reconciliation, and no closure, touches the log.          *)
LEMMA HJournals ==
    ASSUME HInv, ReadJournals \/ (\E r \in Runs : CountRows(r) \/ Supersede(r)) \/ CloseReconciled,
           RTypeOK'
    PROVE  HInv'
  <1>1. /\ UNCHANGED <<disk, catalog, writing, rows, known, seen, clock, failed, todo, me, started>>
        /\ pc' = pc \/ (pc = "loaded" /\ pc' = "reconcile")
    BY DEF ReadJournals, CountRows, Supersede, CloseReconciled, world
  <1>. QED
    BY <1>1, LogStands DEF HInv, Hands, Memory

LEMMA HStartRun == ASSUME HInv, StartRun, RTypeOK' PROVE HInv'
  <1>1. /\ UNCHANGED <<disk, catalog, writing, rows, known, seen, clock, failed, me, started>>
        /\ pc = "reconcile" /\ pc' = "work" /\ todo' \subseteq Paths
    BY DEF StartRun, ReadyToStart, world
  <1>. QED
    BY <1>1, LogStands DEF HInv, Hands, Memory

LEMMA HFileFails == ASSUME HInv, NEW p \in Paths, FileFails(p), RTypeOK' PROVE HInv'
  <1>1. /\ UNCHANGED <<disk, catalog, writing, rows, known, seen, clock, failed, pc, me, started>>
        /\ pc = "work" /\ todo' = todo \ {p}
    BY DEF FileFails, Working, world
  <1>. QED
    BY <1>1, LogStands DEF HInv, Hands, Memory

(* A processed file joins what was seen; its row, if it gets one, the log.  *)
LEMMA HProcess == ASSUME HInv, NEW p \in Paths, Process(p), RTypeOK' PROVE HInv'
  <1>1. /\ UNCHANGED <<disk, catalog, writing, known, failed, pc, me, started>>
        /\ pc = "work" /\ ~failed /\ p \in todo /\ todo' = todo \ {p}
        /\ seen' = [x \in DOMAIN seen \cup {p} |-> IF x = p THEN disk[p] ELSE seen[x]]
    BY DEF Process, Working, world
  <1>2. /\ KnownIsLast(p) /\ Sound(log) /\ Sound(catalog) /\ log \in Seq(Row)
        /\ clock \in Nat
    BY <1>1, LogIsASeq DEF HInv, Memory, RTypeOK
  <1>3. \A q \in DOMAIN seen : q # p /\ seen'[q] = seen[q]
    BY <1>1 DEF HInv, Memory
  <1>4. CASE Unchanged(p)
    <2>1. UNCHANGED <<rows, clock>> /\ log' = log
      BY <1>1, <1>4 DEF Process, log
    <2>3. LastIs(log, p, disk[p])
      BY <1>2, <1>4 DEF KnownIsLast, Unchanged
    <2>4. \A q \in DOMAIN seen' : q \notin todo' /\ LastIs(log, q, seen'[q])
      BY <1>1, <1>3, <2>3 DEF HInv, Memory
    <2>5. Memory'
      BY <1>1, <2>1, <2>4 DEF HInv, Memory, KnownIsLast
    <2>6. Sound(catalog)' /\ Sound(log)'
      BY <1>1, <1>2, <2>1 DEF Sound
    <2>. QED
      BY <1>1, <2>5, <2>6 DEF HInv, Hands
  <1>5. CASE ~Unchanged(p)
    <2> DEFINE e == [path |-> p, content |-> disk[p], run |-> me, at |-> clock]
    <2>1. rows' = Append(rows, e) /\ clock' = clock + 1
      BY <1>1, <1>5 DEF Process
    <2>2. e \in Row
      BY DEF HInv, RTypeOK, Row
    <2>4. log' = Append(log, e)
      BY <1>1, <2>1, <2>2, LogAppended DEF HInv
    <2>5. Sound(log)'
      <3>1. InOrder(Append(log, e)) /\ Before(Append(log, e), clock + 1)
        BY <1>2, <2>2, StampedInOrder DEF Sound
      <3>2. Absent(log, p) \/ (LastIs(log, p, known[p]) /\ known[p] # disk[p])
        BY <1>2, <1>5 DEF KnownIsLast, Unchanged
      <3>3. NoRepeat(Append(log, e))
        BY <1>2, <2>2, <3>2, NewRowRepeatsNothing DEF Sound
      <3>. QED
        BY <2>1, <2>4, <3>1, <3>3 DEF Sound
    <2>6. Sound(catalog)'
      <3>1. \A i \in DOMAIN catalog : catalog[i].at \in Nat
        <4>1. \A i \in DOMAIN catalog : catalog[i] \in Row
          BY LenProperties, ElementOfSeq DEF HInv, RTypeOK
        <4>. QED
          BY <4>1 DEF Row
      <3>2. Before(catalog, clock + 1)
        BY <1>2, <3>1 DEF Sound, Before
      <3>. QED
        BY <1>1, <1>2, <2>1, <3>2 DEF Sound
    <2>7. /\ LastIs(log', p, disk[p])
          /\ \A q, c : q # p /\ LastIs(log, q, c) => LastIs(log', q, c)
          /\ \A q : q # p /\ Absent(log, q) => Absent(log', q)
      BY <1>2, <2>2, <2>4, LastAfterAppend
    <2>8. \A q \in todo' : q # p /\ KnownIsLast(q) /\ (KnownIsLast(q) => KnownIsLast(q)')
      BY <1>1, <2>7 DEF HInv, Memory, KnownIsLast
    <2>9. \A q \in DOMAIN seen' : q \notin todo' /\ LastIs(log', q, seen'[q])
      BY <1>1, <1>3, <2>7 DEF HInv, Memory
    <2>10. Memory'
      BY <1>1, <2>8, <2>9 DEF Memory, LastIs
    <2>. QED
      BY <1>1, <2>5, <2>6, <2>10 DEF HInv, Hands
  <1>. QED
    BY <1>4, <1>5

LEMMA HBeginCommit == ASSUME HInv, BeginCommit, RTypeOK' PROVE HInv'
  <1>1. /\ UNCHANGED <<disk, catalog, known, seen, clock, failed, pc, me, started, todo>>
        /\ pc = "work" /\ ~failed /\ writing = <<>>
    BY DEF BeginCommit, Working, world
  <1>2. log' = log
    BY <1>1, BatchIsCut, ConcatEmptySeq DEF log, HInv, RTypeOK
  <1>3. Sound(catalog)' /\ Sound(log)'
    BY <1>1, <1>2 DEF HInv, Sound
  <1>4. Memory'
    BY <1>1, <1>2 DEF HInv, Memory, KnownIsLast
  <1>. QED
    BY <1>1, <1>3, <1>4 DEF HInv, Hands

LEMMA HCommitOk == ASSUME HInv, CommitOk, RTypeOK' PROVE HInv'
  <1>1. /\ UNCHANGED <<disk, rows, known, seen, clock, failed, pc, me, started, todo>>
        /\ pc = "work" /\ ~failed /\ catalog' = catalog \o writing /\ writing' = <<>>
    BY DEF CommitOk, Working, Appended, world
  <1>2. /\ catalog' \in Seq(Row) /\ rows \in Seq(Row) /\ log = catalog' \o rows
        /\ Sound(catalog \o writing)
    BY <1>1, LogSplits, SoundPrefix DEF HInv, RTypeOK
  <1>3. log' = log
    BY <1>1, <1>2, ConcatEmptySeq DEF log
  <1>5. Sound(catalog)' /\ Sound(log)'
    BY <1>1, <1>2, <1>3 DEF HInv, Sound
  <1>6. Memory'
    BY <1>1, <1>3 DEF HInv, Memory, KnownIsLast
  <1>. QED
    BY <1>1, <1>5, <1>6 DEF HInv, Hands

(* The failed batch may be in the catalog or not; the rest of the rows is   *)
(* never sent.                                                              *)
LEMMA HCommitErr == ASSUME HInv, CommitErr, RTypeOK' PROVE HInv'
  <1>1. /\ UNCHANGED <<disk, rows, known, seen, clock, pc, me, started, todo>>
        /\ pc = "work" /\ ~failed /\ failed' = TRUE /\ writing' = <<>>
        /\ catalog' = catalog \/ catalog' = catalog \o writing
    BY DEF CommitErr, Working, Unanswered, Appended, world
  <1>2. catalog' \in Seq(Row) /\ Sound(catalog')
    BY <1>1, LogSplits, SoundPrefix DEF HInv, RTypeOK
  <1>4. Sound(catalog)'
    BY <1>1, <1>2 DEF Sound
  <1>. QED
    BY <1>1, <1>4 DEF HInv, Hands, Memory

LEMMA HComplete == ASSUME HInv, Complete, RTypeOK' PROVE HInv'
  <1>1. /\ UNCHANGED <<disk, catalog, writing, rows, known, seen, clock, failed, me, started, todo>>
        /\ ~failed /\ pc = "work" /\ pc' = "supersede"
        /\ todo = {} /\ writing = <<>> /\ rows = <<>>
    BY DEF Complete, Working, AllSeenThrough, world
  <1>. QED
    BY <1>1, LogStands DEF HInv, Hands, Memory

(* The end of a process, whatever became of the batch it was committing.    *)
LEMMA HExit ==
    ASSUME HInv, Exit, UNCHANGED <<disk, clock, me, started>>,
           catalog' = catalog \/ catalog' = catalog \o writing,
           RTypeOK'
    PROVE  HInv'
  <1>1. /\ pc' = "idle" /\ writing' = <<>> /\ rows' = <<>> /\ todo' = {}
        /\ failed' = FALSE /\ DOMAIN seen' = {}
    BY DEF Exit
  <1>2. catalog' \in Seq(Row) /\ Sound(catalog')
    <2>1. CASE failed
      <3>1. catalog \in Seq(Row) /\ writing = <<>> /\ Sound(catalog)
        BY <2>1 DEF HInv, RTypeOK, Hands
      <3>2. catalog' = catalog
        BY <3>1, ConcatEmptySeq
      <3>. QED
        BY <3>1, <3>2 DEF Sound
    <2>2. CASE ~failed
      <3>1. catalog \in Seq(Row) /\ catalog \o writing \in Seq(Row)
        BY LogSplits DEF HInv, RTypeOK
      <3>2. Sound(catalog) /\ Sound(catalog \o writing)
        BY <2>2, SoundPrefix DEF HInv
      <3>. QED
        BY <3>1, <3>2 DEF Sound
    <2>. QED
      BY <2>1, <2>2
  <1>4. log' = catalog'
    BY <1>1, <1>2, ConcatEmptySeq, EmptySeq DEF log
  <1>5. Sound(catalog)' /\ Sound(log)'
    BY <1>2, <1>4 DEF Sound
  <1>. QED
    BY <1>1, <1>5 DEF HInv, Hands, Memory

LEMMA HGiveUp == ASSUME HInv, GiveUp, RTypeOK' PROVE HInv'
  BY HExit DEF GiveUp, world

LEMMA HQuit == ASSUME HInv, Quit, RTypeOK' PROVE HInv'
  BY HExit DEF Quit, Unanswered, Appended, world

LEMMA HStutter == ASSUME HInv, UNCHANGED vars, RTypeOK' PROVE HInv'
  <1>1. UNCHANGED <<disk, catalog, writing, rows, known, seen, clock, failed, pc, me, started, todo>>
    BY DEF vars, world, proc
  <1>. QED
    BY <1>1, LogStands DEF HInv, Hands, Memory

LEMMA HNext == ASSUME ~ClockStepsBack, HInv, [Next]_vars PROVE HInv'
  <1>. RTypeOK'
    BY TypeNext DEF HInv
  <1>1. CASE Environment
    BY <1>1, HEdit DEF Environment
  <1>2. CASE LoadState
    BY <1>2, HLoadState
  <1>3. CASE ReadJournals \/ (\E r \in Runs : CountRows(r)) \/ CloseReconciled
               \/ (\E r \in Runs : Supersede(r))
    BY <1>3, HJournals
  <1>4. CASE StartRun
    BY <1>4, HStartRun
  <1>5. CASE \E p \in Paths : Process(p) \/ FileFails(p)
    BY <1>5, HProcess, HFileFails
  <1>6. CASE BeginCommit \/ CommitOk \/ CommitErr
    BY <1>6, HBeginCommit, HCommitOk, HCommitErr
  <1>7. CASE Complete \/ GiveUp \/ Quit
    BY <1>7, HComplete, HGiveUp, HQuit
  <1>8. CASE Stopped \/ UNCHANGED vars
    BY <1>8, HStutter DEF Stopped
  <1>. QED
    BY <1>1, <1>2, <1>3, <1>4, <1>5, <1>6, <1>7, <1>8 DEF Next, RunStep

-----------------------------------------------------------------------------
(* What follows from it *)

(* Shapes and bounds, with late commits and any clock.                      *)
THEOREM RecoveryTypes == LateSpec => []RTypeOK
  BY TypeInit, TypeNext, PTL DEF LateSpec

(* The invariant holds of every reachable state while the clock is not set  *)
(* back and commits do not land late.                                       *)
THEOREM RecoveryInvariance == ASSUME ~ClockStepsBack PROVE Spec => []HInv
  BY HInit, HNext, PTL DEF Spec

(* Repeated ingest of unchanged content appends nothing: no run observes a  *)
(* path with the content of its last row, through any number of failed,     *)
(* killed and unacknowledged runs.                                          *)
THEOREM NothingObservedTwice == ASSUME ~ClockStepsBack PROVE Spec => []NoDoubleObservation
  <1>1. HInv => NoDoubleObservation
    BY DEF HInv, Sound, NoRepeat, NoDoubleObservation
  <1>. QED
    BY <1>1, RecoveryInvariance, PTL

(* A run that completes leaves the current state of each of its candidates  *)
(* at what it read of it, which is what the next run will decide by.        *)
THEOREM CompletedRunsAreCurrent == ASSUME ~ClockStepsBack PROVE Spec => []CompletedIsCurrent
  <1>1. ASSUME HInv PROVE CompletedIsCurrent
    <2>1. SUFFICES ASSUME pc = "supersede", NEW p \in DOMAIN seen
                   PROVE  Latest(p) = {seen[p]}
      BY DEF CompletedIsCurrent
    <2>2. catalog \in Seq(Row) /\ InOrder(catalog) /\ log = catalog /\ ~failed
      BY <1>1, <2>1, NothingOnItsWay DEF HInv, RTypeOK, Hands, Sound
    <2>3. LastIs(catalog, p, seen[p])
      BY <1>1, <2>1, <2>2 DEF HInv, Memory
    <2>. QED
      BY <2>2, <2>3, LatestIsLast
  <1>. QED
    BY <1>1, RecoveryInvariance, PTL

-----------------------------------------------------------------------------
(* What remains with late commits, any clock, and other writers *)

HasRow(s, p, c) == \E i \in DOMAIN s : s[i].path = p /\ s[i].content = c

(* What a run decides by is in the catalog, what it has seen in the log.    *)
RInv ==
    /\ pc # "work" => writing = <<>> /\ rows = <<>> /\ ~failed
    /\ \A p \in DOMAIN known : HasRow(catalog, p, known[p])
    /\ ~failed => \A p \in DOMAIN seen : HasRow(log, p, seen[p])

CatalogGrows ==
    \A i \in DOMAIN catalog : i \in DOMAIN catalog' /\ catalog'[i] = catalog[i]

LEMMA ContainsConcat ==
    ASSUME NEW s \in Seq(Row), NEW t \in Seq(Row), NEW p, NEW c
    PROVE  HasRow(s \o t, p, c) <=> HasRow(s, p, c) \/ HasRow(t, p, c)
  <1>1. /\ Len(s) \in Nat /\ DOMAIN s = 1 .. Len(s) /\ Len(t) \in Nat /\ DOMAIN t = 1 .. Len(t)
        /\ DOMAIN (s \o t) = 1 .. Len(s) + Len(t)
        /\ \A i \in 1 .. Len(s) + Len(t) :
              (s \o t)[i] = IF i <= Len(s) THEN s[i] ELSE t[i - Len(s)]
    BY ConcatProperties, LenProperties
  <1>2. ASSUME HasRow(s \o t, p, c) PROVE HasRow(s, p, c) \/ HasRow(t, p, c)
    <2>1. PICK i \in 1 .. Len(s) + Len(t) : (s \o t)[i].path = p /\ (s \o t)[i].content = c
      BY <1>1, <1>2 DEF HasRow
    <2>2. CASE i <= Len(s)
      BY <1>1, <2>1, <2>2 DEF HasRow
    <2>3. CASE ~(i <= Len(s))
      <3>1. i - Len(s) \in DOMAIN t
        BY <1>1, <2>1, <2>3
      <3>. QED
        BY <1>1, <2>1, <2>3, <3>1 DEF HasRow
    <2>. QED
      BY <2>2, <2>3
  <1>3. ASSUME HasRow(s, p, c) PROVE HasRow(s \o t, p, c)
    BY <1>1, <1>3 DEF HasRow
  <1>4. ASSUME HasRow(t, p, c) PROVE HasRow(s \o t, p, c)
    <2>1. PICK i \in 1 .. Len(t) : t[i].path = p /\ t[i].content = c
      BY <1>1, <1>4 DEF HasRow
    <2>2. i + Len(s) \in DOMAIN (s \o t) /\ (s \o t)[i + Len(s)] = t[i]
      BY <1>1, <2>1
    <2>. QED
      BY <2>1, <2>2 DEF HasRow
  <1>. QED
    BY <1>2, <1>3, <1>4

LEMMA ContainsLog ==
    ASSUME RTypeOK, NEW p, NEW c
    PROVE  HasRow(log, p, c) <=>
              HasRow(catalog, p, c) \/ HasRow(writing, p, c) \/ HasRow(rows, p, c)
  <1>1. /\ catalog \in Seq(Row) /\ writing \in Seq(Row) /\ rows \in Seq(Row)
        /\ writing \o rows \in Seq(Row)
    BY ConcatProperties DEF RTypeOK
  <1>. QED
    BY <1>1, ContainsConcat DEF log

(* Whoever writes to the catalog, what is in it stays.                      *)
LEMMA CatalogOnlyGrows ==
    ASSUME RTypeOK, [Next \/ LateCommit]_vars
    PROVE  CatalogGrows
  <1>1. ASSUME NEW t \in Seq(Row), catalog' = catalog \o t PROVE CatalogGrows
    BY <1>1, ConcatProperties, LenProperties DEF CatalogGrows, RTypeOK
  <1>2. CASE UNCHANGED catalog
    BY <1>2 DEF CatalogGrows
  <1>3. CASE CommitOk \/ CommitErr \/ Quit
    BY <1>1, <1>2, <1>3 DEF CommitOk, CommitErr, Quit, Unanswered, Appended, RTypeOK
  <1>4. CASE LateCommit
    <2>1. PICK request \in inflight : Land(request) \/ Lose(request)
      BY <1>4 DEF LateCommit
    <2>2. request.batch \in Seq(Row)
      BY DEF RTypeOK
    <2>. QED
      BY <1>1, <1>2, <2>1, <2>2 DEF Land, Lose, Appended
  <1>5. CASE UNCHANGED vars \/ Stopped \/ Environment \/ (RunStep /\ ~(CommitOk \/ CommitErr \/ Quit))
    BY <1>2, <1>5 DEF vars, world, Stopped, Environment, Edit, RunStep, LoadState, ReadJournals,
                      CountRows, CloseReconciled, StartRun, Process, FileFails, BeginCommit,
                      Complete, GiveUp, Supersede
  <1>. QED
    BY <1>3, <1>4, <1>5 DEF Next

LEMMA LogGrows ==
    ASSUME RTypeOK, RTypeOK', CatalogGrows, UNCHANGED <<writing, rows>>,
           NEW p, NEW c, HasRow(log, p, c)
    PROVE  HasRow(log', p, c)
  <1>1. HasRow(catalog, p, c) => HasRow(catalog', p, c)
    BY DEF CatalogGrows, HasRow
  <1>2. HasRow(catalog', p, c) \/ HasRow(writing', p, c) \/ HasRow(rows', p, c)
    BY <1>1, ContainsLog
  <1>3. /\ catalog' \in Seq(Row) /\ writing' \in Seq(Row) /\ rows' \in Seq(Row)
        /\ writing' \o rows' \in Seq(Row) /\ log' = catalog' \o (writing' \o rows')
    BY ConcatProperties DEF RTypeOK, log
  <1>. QED
    BY <1>2, <1>3, ContainsConcat

(* Steps of others, and those of the run that neither forget nor learn.     *)
LEMMA RStands ==
    ASSUME RInv, CatalogGrows, UNCHANGED <<known, seen, failed>>,
           \A p, c : HasRow(log, p, c) => HasRow(log', p, c),
           pc' # "work" => writing' = <<>> /\ rows' = <<>> /\ ~failed'
    PROVE  RInv'
  <1>1. \A p, c : HasRow(catalog, p, c) => HasRow(catalog', p, c)
    BY DEF CatalogGrows, HasRow
  <1>. QED
    BY <1>1 DEF RInv

LEMMA RLoadState == ASSUME RTypeOK, RTypeOK', RInv, LoadState PROVE RInv'
  <1>1. /\ UNCHANGED <<catalog, writing, rows, seen, failed>> /\ known' \in CurrentStates
        /\ pc = "idle"
    BY DEF LoadState
  <1>2. ASSUME NEW p \in DOMAIN known' PROVE HasRow(catalog, p, known'[p])
    BY <1>1 DEF CurrentStates, Latest, RowsOf, HasRow
  <1>3. log' = log
    BY <1>1 DEF log
  <1>. QED
    BY <1>1, <1>2, <1>3 DEF RInv

LEMMA RProcess == ASSUME RTypeOK, RTypeOK', RInv, NEW p \in Paths, Process(p) PROVE RInv'
  <1>1. /\ UNCHANGED <<catalog, known, failed, pc, writing>> /\ pc = "work" /\ ~failed
        /\ seen' = [x \in DOMAIN seen \cup {p} |-> IF x = p THEN disk[p] ELSE seen[x]]
    BY DEF Process, Working
  <1>2. /\ \A q, c : HasRow(log, q, c) => HasRow(log', q, c)
        /\ HasRow(log', p, disk[p])
    <2>1. CASE Unchanged(p)
      <3>1. log' = log /\ HasRow(catalog, p, disk[p])
        BY <1>1, <2>1 DEF Process, Unchanged, RInv, log
      <3>. QED
        BY <3>1, ContainsLog
    <2>2. CASE ~Unchanged(p)
      <3> DEFINE e == [path |-> p, content |-> disk[p], run |-> me, at |-> clock]
      <3>1. e \in Row /\ rows \in Seq(Row) /\ rows' = Append(rows, e)
        BY <1>1, <2>2 DEF Process, RTypeOK, Row
      <3>2. \A q, c : HasRow(rows, q, c) => HasRow(rows', q, c)
        BY <3>1, AppendProperties, LenProperties DEF HasRow
      <3>3. HasRow(rows', p, disk[p])
        BY <3>1, AppendProperties, LenProperties DEF HasRow
      <3>4. \A q, c : HasRow(log', q, c) <=>
                HasRow(catalog', q, c) \/ HasRow(writing', q, c) \/ HasRow(rows', q, c)
        <4>1. /\ catalog' \in Seq(Row) /\ writing' \in Seq(Row) /\ rows' \in Seq(Row)
              /\ writing' \o rows' \in Seq(Row) /\ log' = catalog' \o (writing' \o rows')
          BY ConcatProperties DEF RTypeOK, log
        <4>. QED
          BY <4>1, ContainsConcat
      <3>. QED
        BY <1>1, <3>2, <3>3, <3>4, ContainsLog
    <2>. QED
      BY <2>1, <2>2
  <1>. QED
    BY <1>1, <1>2 DEF RInv

LEMMA RNext ==
    ASSUME RTypeOK, RInv, RunStep
    PROVE  RInv'
  <1>1. RTypeOK' /\ CatalogGrows
    BY TypeNext, CatalogOnlyGrows DEF Next
  <1>2. \A p, c : UNCHANGED <<writing, rows>> /\ HasRow(log, p, c) => HasRow(log', p, c)
    BY <1>1, LogGrows
  <1>3. CASE LoadState
    BY <1>1, <1>3, RLoadState
  <1>4. ASSUME NEW p \in Paths, Process(p) PROVE RInv'
    BY <1>1, <1>4, RProcess
  <1>5. CASE ReadJournals \/ (\E r \in Runs : CountRows(r) \/ Supersede(r)) \/ CloseReconciled
               \/ StartRun \/ Complete \/ \E p \in Paths : FileFails(p)
    <2>1. UNCHANGED <<known, seen, failed, writing, rows>>
      BY <1>5 DEF ReadJournals, CountRows, Supersede, CloseReconciled, StartRun, Complete, FileFails
    <2>2. pc' # "work" => writing' = <<>> /\ rows' = <<>> /\ ~failed'
      BY <1>5 DEF ReadJournals, CountRows, Supersede, CloseReconciled, StartRun, Complete,
                  FileFails, RInv, AllSeenThrough, Working
    <2>. QED
      BY <1>1, <1>2, <2>1, <2>2, RStands
  <1>6. CASE BeginCommit \/ CommitOk
    <2>1. UNCHANGED <<known, seen, failed, pc>> /\ pc = "work"
      BY <1>6 DEF BeginCommit, CommitOk, Working
    <2>2. log' = log
      <3>1. /\ catalog \in Seq(Row) /\ writing \in Seq(Row) /\ rows \in Seq(Row)
        BY DEF RTypeOK
      <3>2. CASE BeginCommit
        BY <3>1, <3>2, BatchIsCut, ConcatEmptySeq DEF BeginCommit, log
      <3>3. CASE CommitOk
        BY <3>1, <3>3, LogSplits, ConcatEmptySeq DEF CommitOk, Appended, log
      <3>. QED
        BY <1>6, <3>2, <3>3
    <2>. QED
      BY <1>1, <2>1, <2>2, RStands
  <1>7. CASE CommitErr
    <2>1. /\ UNCHANGED known /\ failed' = TRUE /\ pc' = "work"
          /\ \A p, c : HasRow(catalog, p, c) => HasRow(catalog', p, c)
      BY <1>1, <1>7 DEF CommitErr, Working, CatalogGrows, HasRow
    <2>. QED
      BY <2>1 DEF RInv
  <1>8. CASE GiveUp \/ Quit
    BY <1>8 DEF GiveUp, Quit, Exit, RInv
  <1>. QED
    BY <1>3, <1>4, <1>5, <1>6, <1>7, <1>8 DEF RunStep

(* What every other step leaves to the run.                                 *)
LEMMA ROthers ==
    ASSUME RTypeOK, RTypeOK', RInv, CatalogGrows, UNCHANGED proc
    PROVE  RInv'
  <1>1. UNCHANGED <<known, seen, failed, writing, rows, pc>>
    BY DEF proc
  <1>2. \A p, c : HasRow(log, p, c) => HasRow(log', p, c)
    BY <1>1, LogGrows
  <1>. QED
    BY <1>1, <1>2, RStands DEF RInv

LEMMA RRecorded == ASSUME RTypeOK, RInv PROVE CompletedIsRecorded
  <1>1. SUFFICES ASSUME pc = "supersede", NEW p \in DOMAIN seen
                 PROVE  \E i \in RowsOf(p) : catalog[i].content = seen[p]
    BY DEF CompletedIsRecorded
  <1>2. HasRow(catalog, p, seen[p])
    BY <1>1, NothingOnItsWay DEF RTypeOK, RInv
  <1>. QED
    BY <1>2 DEF HasRow, RowsOf

(* What a completed run has read of its candidates is in the catalog, even  *)
(* when commits land late and the clock is set back.                        *)
THEOREM CompletedRunsAreRecorded == LateSpec => []CompletedIsRecorded
  <1>1. Init => RInv
    BY DEF Init, RInv
  <1>2. ASSUME RTypeOK, RInv, [Next \/ LateCommit]_vars PROVE RInv'
    <2>1. RTypeOK' /\ CatalogGrows
      BY <1>2, TypeNext, CatalogOnlyGrows
    <2>2. CASE RunStep
      BY <1>2, <2>2, RNext
    <2>3. CASE ~RunStep
      <3>1. UNCHANGED proc
        BY <1>2, <2>3 DEF Next, Environment, Edit, LateCommit, Land, Lose, Stopped, vars
      <3>. QED
        BY <1>2, <2>1, <3>1, ROthers
    <2>. QED
      BY <2>2, <2>3
  <1>. QED
    BY <1>1, <1>2, RecoveryTypes, RRecorded, PTL DEF LateSpec

-----------------------------------------------------------------------------
(* The journals survive the runs *)

(* The entries of a history may be of any shape.                            *)
AHistory(h) == h \in Seq(Range(h))

-----------------------------------------------------------------------------
(* Histories *)

LEMMA HistoryShape ==
    ASSUME NEW h, AHistory(h)
    PROVE  Len(h) \in Nat /\ DOMAIN h = 1 .. Len(h)
  BY LenProperties DEF AHistory

(* A history grows by an entry.                                             *)
LEMMA Longer ==
    ASSUME NEW h, AHistory(h), NEW e
    PROVE  /\ AHistory(Append(h, e))
           /\ DOMAIN Append(h, e) = 1 .. Len(h) + 1 /\ Len(Append(h, e)) = Len(h) + 1
           /\ \A i \in 1 .. Len(h) : Append(h, e)[i] = h[i]
           /\ Append(h, e)[Len(h) + 1] = e
  <1> DEFINE S == Range(h) \cup {e}
  <1>1. h \in Seq(S)
    BY SeqMonotonic DEF AHistory
  <1>2. Append(h, e) \in Seq(S)
    BY <1>1, AppendProperties
  <1>3. AHistory(Append(h, e))
    BY <1>2, SeqOfRange DEF AHistory
  <1>. QED
    BY <1>1, <1>2, <1>3, AppendProperties, LenProperties

(* What a prefix is, entry by entry.                                        *)
LEMMA Prefix ==
    ASSUME NEW g, NEW h, AHistory(g), AHistory(h)
    PROVE  IsPrefix(g, h) <=> Len(g) <= Len(h) /\ \A i \in 1 .. Len(g) : g[i] = h[i]
  <1>1. Len(g) \in Nat /\ Len(h) \in Nat
    BY HistoryShape
  <1>2. /\ SubSeq(g, 1, Len(g)) = [i \in 1 .. Len(g) |-> g[i]]
        /\ SubSeq(h, 1, Len(g)) = [i \in 1 .. Len(g) |-> h[i]]
    BY <1>1
  <1>. QED
    BY <1>1, <1>2 DEF IsPrefix

(* Whatever is a prefix of a history is one of the longer history.          *)
LEMMA PrefixOfLonger ==
    ASSUME NEW g, NEW h, AHistory(g), AHistory(h), NEW e, IsPrefix(g, h)
    PROVE  IsPrefix(g, Append(h, e))
  <1>1. Len(g) \in Nat /\ Len(h) \in Nat
    BY HistoryShape
  <1>2. Len(g) <= Len(h) /\ \A i \in 1 .. Len(g) : g[i] = h[i]
    BY Prefix
  <1>3. /\ AHistory(Append(h, e)) /\ Len(Append(h, e)) = Len(h) + 1
        /\ \A i \in 1 .. Len(g) : Append(h, e)[i] = g[i]
    BY <1>1, <1>2, Longer
  <1> DEFINE t == Append(h, e)
  <1>4. AHistory(t) /\ Len(g) <= Len(t) /\ \A i \in 1 .. Len(g) : g[i] = t[i]
    BY <1>1, <1>2, <1>3
  <1> HIDE DEF t
  <1>5. IsPrefix(g, t)
    BY <1>4, Prefix
  <1>. QED
    BY <1>5 DEF t

LEMMA PrefixOfItself == ASSUME NEW h, AHistory(h) PROVE IsPrefix(h, h)
  BY HistoryShape, Prefix

-----------------------------------------------------------------------------
(* Every save writes a history that extends the one it replaces *)

Grows ==
    \A r \in DOMAIN journals :
        r \in DOMAIN journals' /\ IsPrefix(journals[r], journals'[r])

(* The journals a run has read are as they are stored, until it closes      *)
(* them; its own is new, and what is stored of it is a prefix of what it    *)
(* has in memory.                                                           *)
GInv ==
    /\ started \in Nat /\ me = started /\ (pc # "idle" => started > 0)
    /\ DOMAIN journals \subseteq 1 .. started
    /\ \A r \in DOMAIN journals : AHistory(journals[r])
    /\ pc = "idle" => DOMAIN open_runs = {}
    /\ \A r \in DOMAIN open_runs :
          r \in DOMAIN journals /\ r # me /\ open_runs[r] = journals[r]
    /\ counted # <<>> => pc = "reconcile" /\ counted[1] \in DOMAIN open_runs
    /\ pc \in {"loaded", "reconcile"} => me \notin DOMAIN journals
    /\ pc \in {"work", "supersede"} =>
          /\ AHistory(journal)
          /\ me \in DOMAIN journals /\ IsPrefix(journals[me], journal)

LEMMA Saved ==
    ASSUME GInv, NEW r \in 1 .. started, NEW h, AHistory(h), Save(r, h),
           r \in DOMAIN journals => IsPrefix(journals[r], h)
    PROVE  /\ Grows
           /\ DOMAIN journals' = DOMAIN journals \cup {r} /\ journals'[r] = h
           /\ DOMAIN journals' \subseteq 1 .. started
           /\ \A x \in DOMAIN journals' : AHistory(journals'[x])
           /\ \A x \in DOMAIN journals \ {r} : journals'[x] = journals[x]
  <1>1. journals' = [x \in DOMAIN journals \cup {r} |-> IF x = r THEN h ELSE journals[x]]
    BY DEF Save
  <1>2. \A x \in DOMAIN journals : IsPrefix(journals[x], journals[x])
    BY PrefixOfItself DEF GInv
  <1>3. Grows
    BY <1>1, <1>2 DEF Grows
  <1>. QED
    BY <1>1, <1>3 DEF GInv

LEMMA NothingSaved == ASSUME GInv, UNCHANGED journals PROVE Grows
  BY PrefixOfItself DEF GInv, Grows

(* A record of the run itself, saved or not.                                *)
LEMMA Recorded ==
    ASSUME GInv, pc = "work", NEW e, Record(e), UNCHANGED <<started, me, open_runs, counted>>,
           pc' \in {"work", "supersede"}
    PROVE  GInv' /\ Grows
  <1>1. /\ AHistory(journal) /\ me \in DOMAIN journals /\ me \in 1 .. started
        /\ AHistory(journals[me]) /\ IsPrefix(journals[me], journal)
        /\ journal' = Append(journal, e) /\ counted = <<>>
    BY DEF GInv, Record
  <1>2. AHistory(journal') /\ IsPrefix(journals[me], journal')
    BY <1>1, Longer, PrefixOfLonger
  <1>3. CASE Save(me, journal')
    <2>1. /\ Grows /\ DOMAIN journals' = DOMAIN journals /\ journals'[me] = journal'
          /\ \A x \in DOMAIN journals' : AHistory(journals'[x])
          /\ \A x \in DOMAIN journals \ {me} : journals'[x] = journals[x]
      BY <1>1, <1>2, <1>3, Saved
    <2>2. IsPrefix(journals'[me], journal')
      BY <1>2, <2>1, PrefixOfItself
    <2>. QED
      BY <1>1, <1>2, <2>1, <2>2 DEF GInv
  <1>4. CASE journals' = journals
    BY <1>1, <1>2, <1>4, NothingSaved DEF GInv
  <1>. QED
    BY <1>3, <1>4 DEF Record

LEMMA GInit == ASSUME Init PROVE GInv
  BY DEF Init, GInv

(* Steps that leave the stored journals alone.                              *)
LEMMA GQuiet ==
    ASSUME GInv, UNCHANGED <<started, me, journals, open_runs, counted, journal, pc>>
    PROVE  GInv' /\ Grows
  BY NothingSaved DEF GInv

LEMMA GLoadState == ASSUME GInv, LoadState PROVE GInv' /\ Grows
  BY NothingSaved DEF GInv, LoadState

LEMMA GReadJournals == ASSUME GInv, ReadJournals PROVE GInv' /\ Grows
  BY NothingSaved DEF GInv, ReadJournals, world

LEMMA GCountRows == ASSUME GInv, NEW r \in Runs, CountRows(r) PROVE GInv' /\ Grows
  BY NothingSaved DEF GInv, CountRows, world

LEMMA GCloseReconciled == ASSUME GInv, CloseReconciled PROVE GInv' /\ Grows
  <1> DEFINE r == counted[1]
             h == ReconciledHistory(r)
  <1>1. /\ r \in DOMAIN open_runs /\ r \in DOMAIN journals /\ r # me /\ r \in 1 .. started
        /\ open_runs[r] = journals[r] /\ AHistory(journals[r])
    BY DEF GInv, CloseReconciled
  <1>2. AHistory(h) /\ IsPrefix(journals[r], h)
    BY <1>1, Longer, PrefixOfLonger, PrefixOfItself DEF ReconciledHistory
  <1>3. /\ open_runs' = [open_runs EXCEPT ![r] = h] /\ open_runs'[r] = h
        /\ Save(r, h) /\ counted' = <<>>
        /\ UNCHANGED <<started, me, pc, journal>> /\ pc = "reconcile"
    BY <1>1 DEF CloseReconciled, world
  <1> HIDE DEF r, h
  <1>4. /\ Grows /\ DOMAIN journals' = DOMAIN journals /\ journals'[r] = h
        /\ \A x \in DOMAIN journals' : AHistory(journals'[x])
        /\ \A x \in DOMAIN journals \ {r} : journals'[x] = journals[x]
    BY <1>1, <1>2, <1>3, Saved
  <1>5. \A x \in DOMAIN open_runs' : x \in DOMAIN journals' /\ x # me' /\ open_runs'[x] = journals'[x]
    BY <1>1, <1>3, <1>4 DEF GInv
  <1>. QED
    BY <1>3, <1>4, <1>5 DEF GInv

(* A run's own journal is new.                                              *)
LEMMA GStartRun == ASSUME GInv, StartRun PROVE GInv' /\ Grows
  <1>1. /\ pc = "reconcile" /\ pc' = "work" /\ counted = <<>>
        /\ journal' = <<Started>> /\ Save(me, journal')
        /\ UNCHANGED <<started, me, open_runs, counted>>
    BY DEF StartRun, ReadyToStart, world
  <1>2. me \notin DOMAIN journals /\ me \in Nat /\ started = me
    BY <1>1 DEF GInv
  <1>3. AHistory(journal')
    BY <1>1 DEF AHistory, Range
  <1>4. me \in 1 .. started
    BY <1>1, <1>2 DEF GInv
  <1>5. /\ Grows /\ DOMAIN journals' \subseteq 1 .. started
        /\ me \in DOMAIN journals' /\ journals'[me] = journal'
        /\ \A x \in DOMAIN journals : x \in DOMAIN journals'
        /\ \A x \in DOMAIN journals' : AHistory(journals'[x])
        /\ \A x \in DOMAIN journals : journals'[x] = journals[x]
    BY <1>1, <1>2, <1>3, <1>4, Saved
  <1>6. IsPrefix(journals'[me], journal')
    BY <1>3, <1>5, PrefixOfItself
  <1>. QED
    BY <1>1, <1>3, <1>5, <1>6 DEF GInv

(* What is recorded while the run works.                                    *)
LEMMA GWork == ASSUME GInv, BeginCommit \/ CommitOk \/ Complete PROVE GInv' /\ Grows
  <1>1. CASE BeginCommit
    BY <1>1, Recorded DEF BeginCommit, Working, world
  <1>2. CASE CommitOk
    BY <1>2, Recorded DEF CommitOk, Working, world
  <1>3. CASE Complete
    BY <1>3, Recorded DEF Complete, Working, world
  <1>. QED
    BY <1>1, <1>2, <1>3

LEMMA GSupersede == ASSUME GInv, NEW r \in Runs, Supersede(r) PROVE GInv' /\ Grows
  <1> DEFINE h == SupersededHistory(r)
  <1>1. /\ r \in DOMAIN open_runs /\ r \in DOMAIN journals /\ r # me /\ r \in 1 .. started
        /\ open_runs[r] = journals[r] /\ AHistory(journals[r])
        /\ me \in DOMAIN journals /\ pc = "supersede" /\ counted = <<>>
    BY DEF GInv, Supersede
  <1>2. AHistory(h) /\ IsPrefix(journals[r], h)
    BY <1>1, Longer, PrefixOfLonger, PrefixOfItself DEF SupersededHistory
  <1>3. /\ open_runs' = [x \in DOMAIN open_runs \ {r} |-> open_runs[x]]
        /\ UNCHANGED <<started, me, pc, journal, counted>>
        /\ Save(r, h) \/ journals' = journals
    BY DEF Supersede, world
  <1> HIDE DEF h
  <1>4. CASE Save(r, h)
    <2>1. /\ Grows /\ DOMAIN journals' = DOMAIN journals
          /\ \A x \in DOMAIN journals' : AHistory(journals'[x])
          /\ \A x \in DOMAIN journals \ {r} : journals'[x] = journals[x]
      BY <1>1, <1>2, <1>4, Saved
    <2>. QED
      BY <1>1, <1>3, <2>1 DEF GInv
  <1>5. CASE journals' = journals
    BY <1>1, <1>3, <1>5, NothingSaved DEF GInv
  <1>. QED
    BY <1>3, <1>4, <1>5

LEMMA GGiveUp == ASSUME GInv, GiveUp PROVE GInv' /\ Grows
  <1> DEFINE h == Append(journal, Terminal)
  <1>1. /\ pc = "work" /\ pc' = "idle" /\ UNCHANGED <<started, me>>
        /\ DOMAIN open_runs' = {} /\ counted' = <<>>
        /\ Save(me, h) \/ journals' = journals
    BY DEF GiveUp, Exit, world
  <1>2. AHistory(h) /\ me \in 1 .. started /\ IsPrefix(journals[me], h)
    BY <1>1, Longer, PrefixOfLonger DEF GInv
  <1> HIDE DEF h
  <1>3. CASE Save(me, h)
    BY <1>1, <1>2, <1>3, Saved DEF GInv
  <1>4. CASE journals' = journals
    BY <1>1, <1>4, NothingSaved DEF GInv
  <1>. QED
    BY <1>1, <1>3, <1>4

LEMMA GQuit == ASSUME GInv, Quit PROVE GInv' /\ Grows
  <1>1. /\ pc' = "idle" /\ UNCHANGED <<started, me, journals>>
        /\ DOMAIN open_runs' = {} /\ counted' = <<>>
    BY DEF Quit, Exit, world
  <1>. QED
    BY <1>1, NothingSaved DEF GInv

LEMMA GNext == ASSUME GInv, [Next \/ LateCommit]_vars PROVE GInv' /\ Grows
  <1>1. CASE \/ Environment \/ LateCommit \/ Stopped \/ UNCHANGED vars
             \/ CommitErr \/ \E p \in Paths : Process(p) \/ FileFails(p)
    BY <1>1, GQuiet DEF Environment, Edit, LateCommit, Land, Lose, Stopped, CommitErr,
                        Process, FileFails, vars, world, proc
  <1>2. CASE LoadState \/ ReadJournals
    BY <1>2, GLoadState, GReadJournals
  <1>3. CASE CloseReconciled \/ \E r \in Runs : CountRows(r) \/ Supersede(r)
    BY <1>3, GCountRows, GCloseReconciled, GSupersede
  <1>4. CASE StartRun \/ BeginCommit \/ CommitOk \/ Complete
    BY <1>4, GStartRun, GWork
  <1>5. CASE GiveUp \/ Quit
    BY <1>5, GGiveUp, GQuit
  <1>. QED
    BY <1>1, <1>2, <1>3, <1>4, <1>5 DEF Next, RunStep

THEOREM JournalInvariance == LateSpec => []GInv
  BY GInit, GNext, PTL DEF LateSpec

(* A journal object is only ever extended, with late commits and a clock    *)
(* that is set back, although each save writes a whole history that was     *)
(* read, or begun, earlier.                                                 *)
THEOREM HistoriesOnlyGrow == LateSpec => HistoryOnlyGrows
  <1>1. GInv /\ [Next \/ LateCommit]_vars => [Grows]_journals
    BY GNext
  <1>. QED
    BY <1>1, JournalInvariance, PTL DEF LateSpec, HistoryOnlyGrows, Grows

-----------------------------------------------------------------------------
(* A reconciled count is a fact *)

NoFact(h) == \A i \in DOMAIN h : h[i].state # "reconciled"

(* The rows on their way are the run's own.                                 *)
Mine ==
    /\ pc # "work" => rows = <<>> /\ writing = <<>>
    /\ \A i \in DOMAIN rows : rows[i].run = me
    /\ \A i \in DOMAIN writing : writing[i].run = me

(* A count that was answered or recorded is right; and no run counts itself. *)
FInv ==
    /\ counted # <<>> => counted[2] = CountForRun(counted[1])
    /\ pc \in {"work", "supersede"} => NoFact(journal)
    /\ ReconciledIsAFact

LEMMA MNext == ASSUME RTypeOK, Mine, [Next \/ LateCommit]_vars PROVE Mine'
  <1>1. CASE \/ Environment \/ LateCommit \/ Stopped \/ UNCHANGED vars
             \/ ReadJournals \/ (\E r \in Runs : CountRows(r) \/ Supersede(r))
             \/ CloseReconciled \/ StartRun \/ (\E p \in Paths : FileFails(p))
    <2>1. UNCHANGED <<me, rows, writing>> /\ (pc' = pc \/ pc \in {"loaded", "reconcile"})
      BY <1>1 DEF Environment, Edit, LateCommit, Land, Lose, Stopped, vars, world, proc,
                  ReadJournals, CountRows, Supersede, CloseReconciled, StartRun,
                  ReadyToStart, FileFails
    <2>. QED
      BY <2>1 DEF Mine
  <1>2. CASE LoadState
    BY <1>2 DEF LoadState, Mine
  <1>3. ASSUME NEW p \in Paths, Process(p) PROVE Mine'
    <2> DEFINE e == [path |-> p, content |-> disk[p], run |-> me, at |-> clock]
    <2>1. /\ UNCHANGED <<me, pc, writing>> /\ pc = "work"
          /\ rows' = rows \/ rows' = Append(rows, e)
      BY <1>3 DEF Process, Working
    <2>2. e \in Row /\ rows \in Seq(Row)
      BY DEF RTypeOK, Row
    <2>3. \A i \in DOMAIN rows' : rows'[i].run = me
      BY <2>1, <2>2, AppendProperties, LenProperties DEF Mine
    <2>. QED
      BY <2>1, <2>3 DEF Mine
  <1>4. CASE BeginCommit
    <2>1. UNCHANGED <<me, pc>> /\ pc = "work"
      BY <1>4 DEF BeginCommit, Working
    <2>2. /\ writing' \in Seq(Row) /\ rows' \in Seq(Row) /\ writing' \o rows' = rows
      BY <1>4, BatchIsCut
    <2>3. /\ Len(writing') \in Nat /\ DOMAIN writing' = 1 .. Len(writing')
          /\ Len(rows') \in Nat /\ DOMAIN rows' = 1 .. Len(rows')
      BY <2>2, LenProperties
    <2>4. /\ DOMAIN rows = 1 .. Len(writing') + Len(rows')
          /\ \A i \in 1 .. Len(writing') + Len(rows') :
                rows[i] = IF i <= Len(writing') THEN writing'[i] ELSE rows'[i - Len(writing')]
      BY <2>2, ConcatProperties, LenProperties
    <2>5. /\ \A i \in DOMAIN writing' : writing'[i] = rows[i] /\ i \in DOMAIN rows
          /\ \A i \in DOMAIN rows' :
                rows'[i] = rows[i + Len(writing')] /\ i + Len(writing') \in DOMAIN rows
      BY <2>3, <2>4
    <2>. QED
      BY <2>1, <2>5 DEF Mine
  <1>5. CASE CommitOk \/ CommitErr
    BY <1>5 DEF CommitOk, CommitErr, Working, Mine
  <1>6. CASE Complete
    BY <1>6 DEF Complete, AllSeenThrough, Mine
  <1>7. CASE GiveUp \/ Quit
    BY <1>7 DEF GiveUp, Quit, Exit, Mine
  <1>. QED
    BY <1>1, <1>2, <1>3, <1>4, <1>5, <1>6, <1>7 DEF Next, RunStep

THEOREM RowsAreTheRunsOwn == LateSpec => []Mine
  <1>1. Init => Mine
    BY DEF Init, Mine
  <1>. QED
    BY <1>1, MNext, RecoveryTypes, PTL DEF LateSpec

(* A commit changes the count of no other run.                              *)
CountsStand == \A r \in Nat : r # me => CountForRun(r)' = CountForRun(r)

LEMMA OwnCommit ==
    ASSUME RTypeOK, Mine, catalog' = catalog \o writing
    PROVE  CountsStand
  <1>1. /\ catalog \in Seq(Row) /\ writing \in Seq(Row)
        /\ Len(catalog) \in Nat /\ DOMAIN catalog = 1 .. Len(catalog)
        /\ Len(writing) \in Nat /\ DOMAIN writing = 1 .. Len(writing)
    BY LenProperties DEF RTypeOK
  <1>2. /\ DOMAIN catalog' = 1 .. Len(catalog) + Len(writing)
        /\ \A i \in 1 .. Len(catalog) + Len(writing) :
              catalog'[i] = IF i <= Len(catalog) THEN catalog[i] ELSE writing[i - Len(catalog)]
    BY <1>1, ConcatProperties, LenProperties
  <1>3. ASSUME NEW r \in Nat, r # me
        PROVE  {i \in DOMAIN catalog' : catalog'[i].run = r} = {i \in DOMAIN catalog : catalog[i].run = r}
    BY <1>1, <1>2, <1>3 DEF Mine
  <1>. QED
    BY <1>3 DEF CountsStand, CountForRun

LEMMA SameCatalog == ASSUME UNCHANGED catalog PROVE \A r : CountForRun(r)' = CountForRun(r)
  BY DEF CountForRun

(* What is stored of a run at work holds no count.                          *)
LEMMA NoOwnFact ==
    ASSUME GInv, FInv, pc \in {"work", "supersede"}
    PROVE  NoFact(journals[me])
  <1>1. /\ AHistory(journal) /\ AHistory(journals[me]) /\ IsPrefix(journals[me], journal)
        /\ NoFact(journal)
    BY DEF GInv, FInv
  <1>2. /\ Len(journals[me]) \in Nat /\ DOMAIN journals[me] = 1 .. Len(journals[me])
        /\ Len(journal) \in Nat /\ DOMAIN journal = 1 .. Len(journal)
    BY <1>1, HistoryShape
  <1>3. Len(journals[me]) <= Len(journal)
        /\ \A i \in 1 .. Len(journals[me]) : journals[me][i] = journal[i]
    BY <1>1, Prefix
  <1>. QED
    BY <1>1, <1>2, <1>3 DEF NoFact

LEMMA NoFactAppended ==
    ASSUME NEW h, AHistory(h), NoFact(h), NEW e, e.state # "reconciled"
    PROVE  NoFact(Append(h, e))
  <1>1. /\ Len(h) \in Nat /\ DOMAIN h = 1 .. Len(h)
        /\ DOMAIN Append(h, e) = 1 .. Len(h) + 1
        /\ \A i \in 1 .. Len(h) : Append(h, e)[i] = h[i]
        /\ Append(h, e)[Len(h) + 1] = e
    BY Longer, HistoryShape
  <1>. QED
    BY <1>1 DEF NoFact

(* A save into one journal, while the counts that are recorded stand.       *)
LEMMA FactsStand ==
    ASSUME GInv, FInv, NEW r \in 1 .. started, NEW h,
           Save(r, h) \/ UNCHANGED journals,
           \A i \in DOMAIN h : h[i].state = "reconciled" => h[i].rows_in_catalog = CountForRun(r)',
           \/ CountsStand /\ r = me /\ (me \in DOMAIN journals => NoFact(journals[me]))
           \/ UNCHANGED catalog
    PROVE  ReconciledIsAFact'
  <1>1. SUFFICES ASSUME NEW x \in DOMAIN journals', NEW i \in DOMAIN journals'[x],
                        journals'[x][i].state = "reconciled"
                 PROVE  journals'[x][i].rows_in_catalog = CountForRun(x)'
    BY DEF ReconciledIsAFact
  <1>2. (x = r /\ journals'[x] = h) \/ (x \in DOMAIN journals /\ journals'[x] = journals[x])
    BY DEF Save
  <1>3. CASE x \in DOMAIN journals /\ journals'[x] = journals[x]
    <2>1. journals[x][i].rows_in_catalog = CountForRun(x) /\ x \in Nat
      BY <1>1, <1>3 DEF FInv, ReconciledIsAFact, GInv
    <2>2. CountForRun(x)' = CountForRun(x)
      BY <1>1, <1>3, <2>1, SameCatalog DEF CountsStand, NoFact
    <2>. QED
      BY <1>3, <2>1, <2>2
  <1>. QED
    BY <1>1, <1>2, <1>3

LEMMA FInit == ASSUME Init PROVE FInv
  BY DEF Init, FInv, ReconciledIsAFact, NoFact

(* Steps that touch neither the catalog nor a journal.                      *)
LEMMA FQuiet ==
    ASSUME FInv, UNCHANGED <<catalog, journals, journal, counted>>
    PROVE  /\ ReconciledIsAFact'
           /\ counted' # <<>> => (counted[2] = CountForRun(counted[1]))'
  <1>1. \A r : CountForRun(r)' = CountForRun(r)
    BY SameCatalog
  <1>2. ReconciledIsAFact'
    BY <1>1 DEF FInv, ReconciledIsAFact
  <1>. QED
    BY <1>1, <1>2 DEF FInv, CountForRun

(* The run's own entries hold no count, and its commits change none.        *)
LEMMA FRecorded ==
    ASSUME RTypeOK, GInv, Mine, FInv, pc = "work", NEW e, e.state # "reconciled", Record(e),
           UNCHANGED <<me, counted>>, UNCHANGED catalog \/ catalog' = catalog \o writing
    PROVE  ReconciledIsAFact' /\ NoFact(journal') /\ counted' = <<>>
  <1>1. /\ AHistory(journal) /\ NoFact(journal) /\ me \in 1 .. started /\ counted = <<>>
        /\ journal' = Append(journal, e) /\ (Save(me, journal') \/ UNCHANGED journals)
    BY DEF GInv, FInv, Record
  <1>2. NoFact(journal')
    BY <1>1, NoFactAppended
  <1>3. CountsStand /\ NoFact(journals[me])
    BY OwnCommit, SameCatalog, NoOwnFact DEF CountsStand
  <1>4. ReconciledIsAFact'
    BY <1>1, <1>2, <1>3, FactsStand DEF NoFact
  <1>. QED
    BY <1>1, <1>2, <1>4

LEMMA FCloseReconciled == ASSUME GInv, FInv, CloseReconciled PROVE FInv'
  <1>1. PICK r \in DOMAIN open_runs : r = counted[1]
    BY DEF GInv, CloseReconciled
  <1>2. PICK h : h = ReconciledHistory(r)
    OBVIOUS
  <1>3. /\ r \in DOMAIN journals /\ r \in 1 .. started
        /\ open_runs[r] = journals[r] /\ AHistory(journals[r]) /\ counted[2] = CountForRun(r)
    BY <1>1 DEF GInv, FInv, CloseReconciled
  <1>4. /\ Save(r, h) /\ counted' = <<>>
        /\ UNCHANGED <<catalog, me, rows, writing, pc, journal>>
    BY <1>1, <1>2 DEF CloseReconciled, world
  <1>5. /\ Len(journals[r]) \in Nat /\ DOMAIN journals[r] = 1 .. Len(journals[r])
        /\ DOMAIN h = 1 .. Len(journals[r]) + 1
        /\ \A i \in 1 .. Len(journals[r]) : h[i] = journals[r][i]
        /\ h[Len(journals[r]) + 1] = Reconciled(CountForRun(r))
    BY <1>2, <1>3, HistoryShape, Longer DEF ReconciledHistory
  <1>6. \A i \in DOMAIN h : h[i].state = "reconciled" => h[i].rows_in_catalog = CountForRun(r)
    BY <1>3, <1>5 DEF FInv, ReconciledIsAFact, Reconciled
  <1>7. CountForRun(r)' = CountForRun(r)
    BY <1>4, SameCatalog
  <1>8. ReconciledIsAFact'
    BY <1>3, <1>4, <1>6, <1>7, FactsStand
  <1>. QED
    BY <1>4, <1>8 DEF FInv

LEMMA FSupersede == ASSUME GInv, FInv, NEW r \in Runs, Supersede(r) PROVE FInv'
  <1>1. PICK h : h = SupersededHistory(r)
    OBVIOUS
  <1>2. /\ r \in DOMAIN journals /\ r \in 1 .. started /\ pc = "supersede"
        /\ open_runs[r] = journals[r] /\ AHistory(journals[r]) /\ counted = <<>>
        /\ UNCHANGED <<catalog, me, rows, writing, pc, journal, counted>>
        /\ Save(r, h) \/ UNCHANGED journals
    BY <1>1 DEF GInv, Supersede, world
  <1>3. /\ Len(journals[r]) \in Nat /\ DOMAIN journals[r] = 1 .. Len(journals[r])
        /\ DOMAIN h = 1 .. Len(journals[r]) + 1
        /\ \A i \in 1 .. Len(journals[r]) : h[i] = journals[r][i]
        /\ h[Len(journals[r]) + 1] = SupersededBy(me)
    BY <1>1, <1>2, HistoryShape, Longer DEF SupersededHistory
  <1>4. CountForRun(r)' = CountForRun(r)
    BY <1>2, SameCatalog
  <1>5. \A i \in DOMAIN h : h[i].state = "reconciled" => h[i].rows_in_catalog = CountForRun(r)
    BY <1>2, <1>3 DEF FInv, ReconciledIsAFact, SupersededBy
  <1>6. ReconciledIsAFact'
    BY <1>2, <1>4, <1>5, FactsStand
  <1>. QED
    BY <1>2, <1>6 DEF FInv, NoFact

LEMMA FStartRun == ASSUME RTypeOK, GInv, Mine, FInv, StartRun, GInv' PROVE FInv'
  <1>1. PICK h : h = <<Started>>
    OBVIOUS
  <1>2. /\ counted = <<>> /\ pc = "reconcile" /\ pc' = "work" /\ journal' = h /\ Save(me, h)
        /\ UNCHANGED <<catalog, me, rows, writing, counted>> /\ me \in 1 .. started
    BY <1>1 DEF GInv, StartRun, ReadyToStart, world
  <1>3. NoFact(h)
    BY <1>1 DEF NoFact, Started
  <1>4. ReconciledIsAFact'
    BY <1>2, <1>3, FactsStand DEF NoFact
  <1>. QED
    BY <1>2, <1>3, <1>4 DEF FInv, NoFact

(* The end of a process: its batch may be in the catalog, its last entry    *)
(* stored.                                                                  *)
LEMMA FExit ==
    ASSUME RTypeOK, GInv, Mine, FInv, Exit, UNCHANGED <<me>>, pc # "idle",
           UNCHANGED catalog \/ catalog' = catalog \o writing,
           NEW h, Save(me, h) \/ UNCHANGED journals, NoFact(h)
    PROVE  FInv'
  <1>1. /\ rows' = <<>> /\ writing' = <<>> /\ counted' = <<>> /\ pc' = "idle"
    BY DEF Exit
  <1>2. me \in 1 .. started
    BY DEF GInv
  <1>3. CountsStand
    BY OwnCommit, SameCatalog DEF CountsStand
  <1>4. me \in DOMAIN journals => NoFact(journals[me])
    BY NoOwnFact DEF GInv, RTypeOK
  <1>5. ReconciledIsAFact'
    BY <1>2, <1>3, <1>4, FactsStand DEF NoFact
  <1>. QED
    BY <1>1, <1>5 DEF FInv

LEMMA FGiveUp == ASSUME RTypeOK, GInv, Mine, FInv, GiveUp PROVE FInv'
  <1>1. PICK h : h = Append(journal, Terminal)
    OBVIOUS
  <1>2. /\ pc = "work" /\ Exit /\ UNCHANGED <<me, catalog>>
        /\ Save(me, h) \/ UNCHANGED journals
    BY <1>1 DEF GiveUp
  <1>3. NoFact(h)
    <2>1. AHistory(journal) /\ NoFact(journal)
      BY <1>2 DEF GInv, FInv
    <2>2. Terminal.state # "reconciled"
      BY DEF Terminal, CommitFailed, Completed, Incomplete
    <2>. QED
      BY <1>1, <2>1, <2>2, NoFactAppended
  <1>. QED
    BY <1>2, <1>3, FExit

LEMMA FQuit == ASSUME RTypeOK, GInv, Mine, FInv, Quit PROVE FInv'
  <1>1. NoFact(<<>>)
    BY DEF NoFact
  <1>. QED
    BY <1>1, FExit DEF Quit, Unanswered, Appended

LEMMA FNext == ASSUME RTypeOK, GInv, Mine, FInv, [Next]_vars PROVE FInv'
  <1>1. CASE Environment \/ ReadJournals \/ Stopped \/ UNCHANGED vars
             \/ \E p \in Paths : FileFails(p)
    BY <1>1, FQuiet DEF Environment, Edit, ReadJournals, Stopped, FileFails, FInv, NoFact,
                        vars, world, proc, Working
  <1>2. CASE LoadState
    BY <1>2, FQuiet, GNext DEF LoadState, FInv, GInv, RTypeOK
  <1>3. ASSUME NEW r \in Runs, CountRows(r) PROVE FInv'
    <2>1. UNCHANGED <<catalog, journals, journal, me, rows, writing, pc>>
          /\ counted' = <<r, CountForRun(r)>> /\ pc = "reconcile"
      BY <1>3 DEF CountRows, world
    <2>2. \A x : CountForRun(x)' = CountForRun(x)
      BY <2>1, SameCatalog
    <2>3. ReconciledIsAFact'
      BY <2>1, <2>2 DEF FInv, ReconciledIsAFact
    <2>4. (counted[2] = CountForRun(counted[1]))'
      BY <2>1 DEF CountForRun
    <2>. QED
      BY <2>1, <2>3, <2>4 DEF FInv
  <1>4. ASSUME NEW p \in Paths, Process(p) PROVE FInv'
    <2>1. UNCHANGED <<catalog, journals, journal, counted, pc>> /\ pc = "work"
      BY <1>4 DEF Process, Working
    <2>2. ReconciledIsAFact' /\ counted' = <<>> /\ NoFact(journal')
      BY <2>1, FQuiet DEF FInv, GInv
    <2>. QED
      BY <2>1, <2>2 DEF FInv
  <1>5. CASE BeginCommit
    <2>1. UNCHANGED <<catalog, me, counted, pc>> /\ pc = "work" /\ Record(Committing(batches'))
      BY <1>5 DEF BeginCommit, Working, world
    <2>2. ReconciledIsAFact' /\ NoFact(journal') /\ counted' = <<>>
      BY <2>1, FRecorded DEF Committing
    <2>. QED
      BY <2>1, <2>2 DEF FInv
  <1>6. CASE CommitOk
    <2>1. /\ UNCHANGED <<rows, me, counted, pc>> /\ pc = "work" /\ writing' = <<>>
          /\ catalog' = catalog \o writing /\ Record(BatchCommitted(batches, Len(writing)))
      BY <1>6 DEF CommitOk, Working, Appended, world
    <2>2. ReconciledIsAFact' /\ NoFact(journal') /\ counted' = <<>>
      BY <2>1, FRecorded DEF BatchCommitted
    <2>. QED
      BY <2>1, <2>2 DEF FInv
  <1>7. CASE CommitErr
    <2>1. /\ UNCHANGED <<rows, me, counted, pc, journals, journal>> /\ pc = "work"
          /\ writing' = <<>>
          /\ UNCHANGED catalog \/ catalog' = catalog \o writing
      BY <1>7 DEF CommitErr, Working, Unanswered, Appended
    <2>2. CountsStand /\ NoFact(journals[me]) /\ me \in 1 .. started /\ counted = <<>>
      BY <2>1, OwnCommit, SameCatalog, NoOwnFact DEF CountsStand, GInv
    <2>3. NoFact(<<>>)
      BY DEF NoFact
    <2>4. ReconciledIsAFact'
      BY <2>1, <2>2, <2>3, FactsStand DEF NoFact
    <2>. QED
      BY <2>1, <2>2, <2>4 DEF FInv
  <1>8. CASE Complete
    <2>1. /\ UNCHANGED <<catalog, rows, me, counted, writing>> /\ pc = "work" /\ pc' = "supersede"
          /\ rows = <<>> /\ writing = <<>> /\ Record(Terminal)
      BY <1>8 DEF Complete, Working, AllSeenThrough, world
    <2>2. Terminal.state # "reconciled"
      BY DEF Terminal, CommitFailed, Completed, Incomplete
    <2>3. ReconciledIsAFact' /\ NoFact(journal') /\ counted' = <<>>
      BY <2>1, <2>2, FRecorded
    <2>. QED
      BY <2>1, <2>3 DEF FInv
  <1>9. CASE StartRun
    BY <1>9, FStartRun, GNext DEF Next, RunStep
  <1>10. CASE CloseReconciled \/ GiveUp \/ Quit \/ \E r \in Runs : Supersede(r)
    BY <1>10, FCloseReconciled, FGiveUp, FQuit, FSupersede
  <1>. QED
    BY <1>1, <1>2, <1>3, <1>4, <1>5, <1>6, <1>7, <1>8, <1>9, <1>10 DEF Next, RunStep

(* Without late commits a journal that was closed with a count says how     *)
(* many rows of its run the catalog holds, now and ever after; the clock    *)
(* does not matter.                                                         *)
THEOREM ReconciledStaysTrue == Spec => []ReconciledIsAFact
  <1>1. Spec => LateSpec
    BY PTL DEF Spec, LateSpec
  <1>2. FInv => ReconciledIsAFact
    BY DEF FInv
  <1>. QED
    BY <1>1, <1>2, RecoveryTypes, JournalInvariance, RowsAreTheRunsOwn, FInit, FNext,
       PTL DEF Spec

-----------------------------------------------------------------------------
(* What the journals say of the rows is so *)

CountIn(s, r) == Cardinality({i \in DOMAIN s : s[i].run = r})

IsFinal(h) == LastOwn(h).state \in {"completed", "incomplete"}

(* A journal of a run with n rows in the catalog claims no more than those, *)
(* neither committed nor reconciled, and all of them once it is final; and  *)
(* it is final or closed, not both.                                         *)
Tells(h, n) ==
    /\ AHistory(h) /\ RowsAreNumbers(h) /\ RowsCommitted(h) <= n
    /\ IsFinal(h) => ~IsClosed(h) /\ RowsCommitted(h) = n
    /\ \A i \in DOMAIN h : h[i].state = "reconciled" => h[i].rows_in_catalog \in 0 .. n

(* The bucket and the catalog: every row belongs to a journal that tells,   *)
(* and a commit on its way to one that is not final.                        *)
Stored ==
    /\ DOMAIN journals \subseteq 1 .. started
    /\ \A r \in DOMAIN journals : Tells(journals[r], CountIn(catalog, r))
    /\ \A i \in DOMAIN catalog : catalog[i].run \in DOMAIN journals
    /\ \A q \in inflight : \A i \in DOMAIN q.batch :
          q.batch[i].run \in DOMAIN journals /\ ~IsFinal(journals[q.batch[i].run])

(* As long as no commit of the run failed, none of its rows is late.        *)
Settled == pc \in {"loaded", "reconcile", "supersede"} \/ (pc = "work" /\ ~failed)

NoneLate == \A q \in inflight : \A i \in DOMAIN q.batch : q.batch[i].run # me

(* What the run has in memory: the journals of others, which tell and are   *)
(* not final, and its own, which tells all until a commit fails.            *)
OwnBooks ==
    /\ me \in 0 .. started /\ (pc # "idle" => me > 0)
    /\ pc = "idle" => DOMAIN open_runs = {}
    /\ \A r \in DOMAIN open_runs :
          r \in DOMAIN journals /\ ~IsFinal(open_runs[r])
            /\ Tells(open_runs[r], CountIn(catalog, r))
    /\ counted # <<>> =>
          /\ pc = "reconcile" /\ counted[1] \in DOMAIN open_runs
          /\ counted[2] \in 0 .. CountIn(catalog, counted[1])
    /\ pc \in {"loaded", "reconcile"} => me \notin DOMAIN journals
    /\ pc = "work" =>
          /\ me \in DOMAIN journals /\ ~IsFinal(journals[me])
          /\ AHistory(journal) /\ Ordinary(journal) /\ RowsAreNumbers(journal)
          /\ RowsCommitted(journal) <= CountIn(catalog, me)
          /\ ~failed => RowsCommitted(journal) = CountIn(catalog, me)
    /\ Settled => NoneLate

(* What the steps of one process leave to the run x of another.             *)
Leaves(x) ==
    /\ DOMAIN journals \subseteq DOMAIN journals'
    /\ x \in DOMAIN journals' => x \in DOMAIN journals
    /\ x \in DOMAIN journals /\ ~IsFinal(journals[x]) => ~IsFinal(journals'[x])
    /\ \A r : CountIn(catalog, r) <= CountIn(catalog', r)
    /\ CountIn(catalog', x) = CountIn(catalog, x)
    /\ \A q \in inflight' : q \in inflight \/ \A i \in DOMAIN q.batch : q.batch[i].run # x

(* Rows of a run that join the catalog, and rows of others.                 *)
LEMMA CountConcat ==
    ASSUME NEW s \in Seq(Row), NEW t \in Seq(Row), NEW r
    PROVE  /\ CountIn(s, r) \in Nat /\ CountIn(s \o t, r) \in Nat
           /\ CountIn(s, r) <= CountIn(s \o t, r)
           /\ (\A i \in DOMAIN t : t[i].run # r) => CountIn(s \o t, r) = CountIn(s, r)
           /\ (\A i \in DOMAIN t : t[i].run = r) => CountIn(s \o t, r) = CountIn(s, r) + Len(t)
  <1> DEFINE of == {i \in DOMAIN s : s[i].run = r}
             all == {i \in DOMAIN (s \o t) : (s \o t)[i].run = r}
             new == Len(s) + 1 .. Len(s) + Len(t)
  <1>1. /\ Len(s) \in Nat /\ DOMAIN s = 1 .. Len(s) /\ Len(t) \in Nat /\ DOMAIN t = 1 .. Len(t)
        /\ DOMAIN (s \o t) = 1 .. Len(s) + Len(t)
        /\ \A i \in 1 .. Len(s) + Len(t) :
              (s \o t)[i] = IF i <= Len(s) THEN s[i] ELSE t[i - Len(s)]
    BY ConcatProperties, LenProperties
  <1>2. of \subseteq all /\ of \cap new = {}
    BY <1>1
  <1>3. IsFiniteSet(all) /\ IsFiniteSet(of)
    <2>1. all \subseteq 1 .. Len(s) + Len(t) /\ Len(s) + Len(t) \in Nat
      BY <1>1
    <2> HIDE DEF all
    <2>2. IsFiniteSet(1 .. Len(s) + Len(t))
      BY <2>1, FS_Interval
    <2>. QED
      BY <1>2, <2>1, <2>2, FS_Subset
  <1>4. IsFiniteSet(new) /\ Cardinality(new) = Len(t)
    <2> DEFINE a == Len(s) + 1
               b == Len(s) + Len(t)
    <2>1. /\ a \in Int /\ b \in Int /\ b - a + 1 = Len(t) /\ (a > b => Len(t) = 0)
          /\ new = a .. b
      BY <1>1
    <2> HIDE DEF new, a, b
    <2>. QED
      BY <2>1, FS_Interval
  <1>5. (\A i \in DOMAIN t : t[i].run # r) => all = of
    <2>1. \A i \in new : i - Len(s) \in DOMAIN t /\ (s \o t)[i] = t[i - Len(s)]
      BY <1>1
    <2>. QED
      BY <1>1, <2>1
  <1>6. (\A i \in DOMAIN t : t[i].run = r) => all = of \cup new
    <2>1. \A i \in new : i - Len(s) \in DOMAIN t /\ (s \o t)[i] = t[i - Len(s)]
      BY <1>1
    <2>. QED
      BY <1>1, <2>1
  <1>7. CountIn(s, r) = Cardinality(of) /\ CountIn(s \o t, r) = Cardinality(all)
    BY DEF CountIn
  <1> HIDE DEF of, all, new
  <1>8. Cardinality(of) \in Nat /\ Cardinality(all) \in Nat /\ Cardinality(of) <= Cardinality(all)
    BY <1>2, <1>3, FS_CardinalityType, FS_Subset
  <1>9. Cardinality(of \cup new) = Cardinality(of) + Len(t)
    <2>1. Cardinality(of \cup new) = Cardinality(of) + Cardinality(new) - Cardinality({})
      BY <1>2, <1>3, <1>4, FS_Union
    <2>. QED
      BY <1>1, <1>4, <1>8, <2>1, FS_EmptySet
  <1>. QED
    BY <1>5, <1>6, <1>7, <1>8, <1>9

LEMMA CountIsNat == ASSUME RTypeOK, NEW r PROVE CountIn(catalog, r) \in Nat
  <1>1. catalog \in Seq(Row) /\ <<>> \in Seq(Row)
    BY EmptySeq DEF RTypeOK
  <1>. QED
    BY <1>1, CountConcat

(* The lemmas on journals, for histories of any shape.                      *)
LEMMA Extended ==
    ASSUME NEW h, AHistory(h), RowsAreNumbers(h), NEW e, IsAck(e) => e.rows \in Nat
    PROVE  /\ RowsAreNumbers(Append(h, e)) /\ RowsCommitted(h) \in Nat
           /\ RowsCommitted(Append(h, e)) = RowsCommitted(h) + (IF IsAck(e) THEN e.rows ELSE 0)
           /\ IsClosure(e) => LastOwn(Append(h, e)) = LastOwn(h)
           /\ ~IsClosure(e) /\ Ordinary(h) =>
                LastOwn(Append(h, e)) = e /\ ~IsClosed(Append(h, e))
  <1> DEFINE S == Range(h) \cup {e}
  <1>1. h \in Seq(S) /\ e \in S
    BY SeqMonotonic DEF AHistory
  <1> HIDE DEF S
  <1>. QED
    BY <1>1, AppendCounts, CountsAreNumbers, ClosureAppended, TerminalSpeaks

(* Nothing a run has stored of an unfinished history is final or closed.    *)
LEMMA OrdinaryHistory ==
    ASSUME NEW h, AHistory(h), Ordinary(h)
    PROVE  /\ IsOpen(h) /\ ~IsClosed(h) /\ ~IsFinal(h)
           /\ \A g : AHistory(g) /\ IsPrefix(g, h) => Ordinary(g)
           /\ \A e : e.state \in {"started", "committing", "batch_committed"} =>
                        Ordinary(Append(h, e))
  <1>1. IsOpen(h) /\ ~IsClosed(h) /\ ~IsFinal(h)
    BY OrdinaryIsOpen DEF AHistory, IsFinal
  <1>2. ASSUME NEW g, AHistory(g), IsPrefix(g, h) PROVE Ordinary(g)
    <2>1. /\ Len(g) \in Nat /\ DOMAIN g = 1 .. Len(g) /\ Len(h) \in Nat /\ DOMAIN h = 1 .. Len(h)
          /\ Len(g) <= Len(h) /\ \A i \in 1 .. Len(g) : g[i] = h[i]
      BY <1>2, HistoryShape, Prefix
    <2>. QED
      BY <2>1 DEF Ordinary
  <1>3. ASSUME NEW e, e.state \in {"started", "committing", "batch_committed"}
        PROVE  Ordinary(Append(h, e))
    <2>1. /\ Len(h) \in Nat /\ DOMAIN h = 1 .. Len(h)
          /\ DOMAIN Append(h, e) = 1 .. Len(h) + 1
          /\ \A i \in 1 .. Len(h) : Append(h, e)[i] = h[i]
          /\ Append(h, e)[Len(h) + 1] = e
      BY Longer, HistoryShape
    <2>. QED
      BY <1>3, <2>1 DEF Ordinary
  <1>. QED
    BY <1>1, <1>2, <1>3

(* More rows in the catalog make a journal that is not final claim less.    *)
LEMMA TellsMore ==
    ASSUME NEW h, NEW n \in Nat, NEW m \in Nat, Tells(h, n), n <= m, IsFinal(h) => m = n
    PROVE  Tells(h, m)
  <1>1. RowsCommitted(h) \in Nat
    BY CountsAreNumbers DEF Tells, AHistory
  <1>. QED
    BY <1>1 DEF Tells

(* A closure adds nothing to what a journal claims, but a count it may.     *)
LEMMA TellsClosed ==
    ASSUME NEW h, NEW n \in Nat, Tells(h, n), ~IsFinal(h), NEW e, IsClosure(e),
           e.state = "reconciled" => e.rows_in_catalog \in 0 .. n
    PROVE  Tells(Append(h, e), n) /\ ~IsFinal(Append(h, e))
  <1>1. ~IsAck(e) /\ AHistory(h)
    BY DEF IsAck, IsClosure, Tells
  <1>2. /\ RowsAreNumbers(Append(h, e)) /\ LastOwn(Append(h, e)) = LastOwn(h)
        /\ RowsCommitted(Append(h, e)) = RowsCommitted(h) + 0 /\ RowsCommitted(h) \in Nat
    BY <1>1, Extended DEF Tells
  <1>3. /\ Len(h) \in Nat /\ DOMAIN h = 1 .. Len(h) /\ AHistory(Append(h, e))
        /\ DOMAIN Append(h, e) = 1 .. Len(h) + 1
        /\ \A i \in 1 .. Len(h) : Append(h, e)[i] = h[i]
        /\ Append(h, e)[Len(h) + 1] = e
    BY <1>1, Longer, HistoryShape
  <1>4. \A i \in 1 .. Len(h) + 1 :
          Append(h, e)[i].state = "reconciled" => Append(h, e)[i].rows_in_catalog \in 0 .. n
    BY <1>3 DEF Tells
  <1>. QED
    BY <1>2, <1>3, <1>4 DEF Tells, IsFinal

(* A history the run wrote alone has no count in it.                        *)
LEMMA OrdinaryTells ==
    ASSUME NEW h, AHistory(h), Ordinary(h), RowsAreNumbers(h),
           NEW n \in Nat, RowsCommitted(h) <= n
    PROVE  Tells(h, n) /\ ~IsFinal(h)
  BY OrdinaryHistory DEF Tells, Ordinary

LEMMA LInit == ASSUME Init PROVE Stored /\ OwnBooks
  BY DEF Init, Stored, OwnBooks, Settled

(* Steps that leave the catalog, the journals and the run's own alone.      *)
LEMMA LQuiet ==
    ASSUME Stored, OwnBooks, RTypeOK, inflight' \subseteq inflight,
           UNCHANGED <<catalog, started, me, journals, pc, failed, journal, open_runs, counted>>
    PROVE  Stored' /\ OwnBooks' /\ \A x \in 1 .. started : Leaves(x)
  <1>1. \A r : CountIn(catalog, r) \in Nat
    BY CountIsNat
  <1>. QED
    BY <1>1 DEF Stored, OwnBooks, Settled, NoneLate, Leaves

CountsGrow ==
    \A r : /\ CountIn(catalog, r) \in Nat /\ CountIn(catalog', r) \in Nat
           /\ CountIn(catalog, r) <= CountIn(catalog', r)

(* More rows make no stored journal claim too much; a final one gets none.  *)
LEMMA CatalogGrew ==
    ASSUME RTypeOK, Stored, NEW t \in Seq(Row), catalog' = catalog \o t,
           \A i \in DOMAIN t :
              t[i].run \in DOMAIN journals /\ ~IsFinal(journals[t[i].run])
    PROVE  /\ \A i \in DOMAIN catalog' : catalog'[i].run \in DOMAIN journals
           /\ \A r \in DOMAIN journals : Tells(journals[r], CountIn(catalog', r))
           /\ CountsGrow
           /\ \A r : (\A i \in DOMAIN t : t[i].run # r) =>
                        CountIn(catalog', r) = CountIn(catalog, r)
           /\ \A r : (\A i \in DOMAIN t : t[i].run = r) =>
                        CountIn(catalog', r) = CountIn(catalog, r) + Len(t)
  <1>1. catalog \in Seq(Row)
    BY DEF RTypeOK
  <1>2. \A i \in DOMAIN catalog' : catalog'[i].run \in DOMAIN journals
    <2>1. /\ Len(catalog) \in Nat /\ DOMAIN catalog = 1 .. Len(catalog)
          /\ Len(t) \in Nat /\ DOMAIN t = 1 .. Len(t)
          /\ DOMAIN (catalog \o t) = 1 .. Len(catalog) + Len(t)
          /\ \A i \in 1 .. Len(catalog) + Len(t) :
                (catalog \o t)[i] = IF i <= Len(catalog) THEN catalog[i] ELSE t[i - Len(catalog)]
      BY <1>1, ConcatProperties, LenProperties
    <2>2. \A i \in 1 .. Len(catalog) + Len(t) :
             \/ i \in DOMAIN catalog /\ catalog'[i] = catalog[i]
             \/ i - Len(catalog) \in DOMAIN t /\ catalog'[i] = t[i - Len(catalog)]
      BY <2>1
    <2>. QED
      BY <2>1, <2>2 DEF Stored
  <1>3. /\ CountsGrow
        /\ \A r : (\A i \in DOMAIN t : t[i].run # r) => CountIn(catalog', r) = CountIn(catalog, r)
        /\ \A r : (\A i \in DOMAIN t : t[i].run = r) =>
                     CountIn(catalog', r) = CountIn(catalog, r) + Len(t)
    BY <1>1, CountConcat DEF CountsGrow
  <1>4. ASSUME NEW r \in DOMAIN journals PROVE Tells(journals[r], CountIn(catalog', r))
    <2>1. Tells(journals[r], CountIn(catalog, r))
      BY DEF Stored
    <2>2. IsFinal(journals[r]) => CountIn(catalog', r) = CountIn(catalog, r)
      BY <1>3
    <2>. QED
      BY <1>3, <2>1, <2>2, TellsMore DEF CountsGrow
  <1>. QED
    BY <1>2, <1>3, <1>4

LEMMA CatalogStands ==
    ASSUME RTypeOK, Stored, UNCHANGED catalog
    PROVE  /\ \A i \in DOMAIN catalog' : catalog'[i].run \in DOMAIN journals
           /\ \A r \in DOMAIN journals : Tells(journals[r], CountIn(catalog', r))
           /\ CountsGrow /\ \A r : CountIn(catalog', r) = CountIn(catalog, r)
  <1>1. \A r : CountIn(catalog, r) \in Nat
    BY CountIsNat
  <1>. QED
    BY <1>1 DEF Stored, CountsGrow

(* A save of a history that tells, while rows come as they may.             *)
LEMMA StoredBySave ==
    ASSUME Stored, NEW r \in 1 .. started, NEW h, Tells(h, CountIn(catalog', r)),
           Save(r, h) \/ UNCHANGED journals, started' = started,
           \A i \in DOMAIN catalog' : catalog'[i].run \in DOMAIN journals,
           \A x \in DOMAIN journals : Tells(journals[x], CountIn(catalog', x)),
           \A q \in inflight' : \A i \in DOMAIN q.batch :
              /\ q.batch[i].run \in DOMAIN journals /\ ~IsFinal(journals[q.batch[i].run])
              /\ IsFinal(h) => q.batch[i].run # r
    PROVE  /\ Stored'
           /\ DOMAIN journals \subseteq DOMAIN journals'
           /\ DOMAIN journals' \subseteq DOMAIN journals \cup {r}
           /\ \A x \in DOMAIN journals' :
                 (x \in DOMAIN journals /\ journals'[x] = journals[x]) \/ (x = r /\ journals'[x] = h)
  <1>1. /\ DOMAIN journals \subseteq DOMAIN journals'
        /\ DOMAIN journals' \subseteq DOMAIN journals \cup {r}
        /\ \A x \in DOMAIN journals' :
              (x \in DOMAIN journals /\ journals'[x] = journals[x]) \/ (x = r /\ journals'[x] = h)
    BY DEF Save
  <1>2. \A x \in DOMAIN journals' : Tells(journals'[x], CountIn(catalog', x))
    BY <1>1
  <1>3. \A q \in inflight' : \A i \in DOMAIN q.batch :
           q.batch[i].run \in DOMAIN journals' /\ ~IsFinal(journals'[q.batch[i].run])
    BY <1>1
  <1>. QED
    BY <1>1, <1>2, <1>3 DEF Stored

(* What the run has in memory of others keeps telling.                      *)
LEMMA CopiesTell ==
    ASSUME OwnBooks, CountsGrow, DOMAIN journals \subseteq DOMAIN journals'
    PROVE  \A r \in DOMAIN open_runs :
              r \in DOMAIN journals' /\ ~IsFinal(open_runs[r])
                /\ Tells(open_runs[r], CountIn(catalog', r))
  BY TellsMore DEF OwnBooks, CountsGrow

LEMMA LLand ==
    ASSUME RTypeOK, Stored, OwnBooks, NEW q \in inflight, Land(q)
    PROVE  Stored' /\ OwnBooks'
  <1>1. q.batch \in Seq(Row)
    BY DEF RTypeOK
  <1>2. /\ catalog' = catalog \o q.batch /\ inflight' \subseteq inflight
        /\ UNCHANGED <<started, me, journals, pc, failed, journal, open_runs, counted>>
    BY DEF Land, Appended, world, proc
  <1>3. \A i \in DOMAIN q.batch :
          q.batch[i].run \in DOMAIN journals /\ ~IsFinal(journals[q.batch[i].run])
    BY DEF Stored
  <1>4. /\ \A i \in DOMAIN catalog' : catalog'[i].run \in DOMAIN journals
        /\ \A r \in DOMAIN journals : Tells(journals[r], CountIn(catalog', r))
        /\ CountsGrow
        /\ \A r : (\A i \in DOMAIN q.batch : q.batch[i].run # r) =>
                     CountIn(catalog', r) = CountIn(catalog, r)
    BY <1>1, <1>2, <1>3, CatalogGrew
  <1>5. Stored'
    BY <1>2, <1>4 DEF Stored
  <1>6. Settled => CountIn(catalog', me) = CountIn(catalog, me)
    BY <1>4 DEF OwnBooks, NoneLate
  <1>7. \A r \in DOMAIN open_runs : ~IsFinal(open_runs[r]) /\ Tells(open_runs[r], CountIn(catalog', r))
    BY <1>2, <1>4, CopiesTell
  <1>8. counted # <<>> => counted[2] \in 0 .. CountIn(catalog', counted[1])
    BY <1>4 DEF OwnBooks, CountsGrow
  <1>9. pc = "work" =>
          /\ RowsCommitted(journal) <= CountIn(catalog', me)
          /\ ~failed => RowsCommitted(journal) = CountIn(catalog', me)
    <2>1. SUFFICES ASSUME pc = "work"
                   PROVE  /\ RowsCommitted(journal) <= CountIn(catalog', me)
                          /\ ~failed => RowsCommitted(journal) = CountIn(catalog', me)
      OBVIOUS
    <2>2. /\ RowsCommitted(journal) \in Nat /\ RowsCommitted(journal) <= CountIn(catalog, me)
          /\ ~failed => RowsCommitted(journal) = CountIn(catalog, me)
      BY <2>1, CountsAreNumbers DEF OwnBooks, AHistory
    <2>. QED
      BY <1>4, <1>6, <2>1, <2>2 DEF CountsGrow, Settled
  <1>10. Settled' => NoneLate'
    BY <1>2 DEF OwnBooks, Settled, NoneLate
  <1>. QED
    BY <1>2, <1>5, <1>7, <1>8, <1>9, <1>10 DEF OwnBooks

(* A new run has no journal, hence no rows yet.                             *)
LEMMA LLoadState ==
    ASSUME RTypeOK, Stored, OwnBooks, LoadState
    PROVE  Stored' /\ OwnBooks' /\ \A x \in 1 .. started : Leaves(x)
  <1>1. /\ started' = started + 1 /\ me' = started' /\ pc' = "loaded" /\ pc = "idle"
        /\ started \in Nat
        /\ UNCHANGED <<catalog, inflight, journals, open_runs, counted, failed, journal>>
    BY DEF LoadState, RTypeOK
  <1>2. me' \notin DOMAIN journals /\ 1 .. started \subseteq 1 .. started'
    BY <1>1 DEF Stored
  <1>3. Stored'
    BY <1>1, <1>2 DEF Stored
  <1>4. NoneLate'
    BY <1>1, <1>2 DEF NoneLate, Stored
  <1>5. \A r : CountIn(catalog, r) \in Nat
    BY CountIsNat
  <1>. QED
    BY <1>1, <1>2, <1>3, <1>4, <1>5 DEF OwnBooks, Leaves

LEMMA LReadJournals ==
    ASSUME RTypeOK, Stored, OwnBooks, ReadJournals
    PROVE  Stored' /\ OwnBooks' /\ \A x \in 1 .. started : Leaves(x)
  <1>1. /\ pc = "loaded" /\ pc' = "reconcile"
        /\ UNCHANGED <<started, catalog, inflight, journals, me, counted, failed, journal>>
    BY DEF ReadJournals, world
  <1>2. \A r \in DOMAIN open_runs' :
           r \in DOMAIN journals /\ open_runs'[r] = journals[r] /\ ~IsFinal(open_runs'[r])
    <2>1. PICK readable \in SUBSET {r \in DOMAIN journals : IsOpen(journals[r])} :
             open_runs' = [r \in readable |-> journals[r]]
      BY DEF ReadJournals
    <2>2. \A r \in readable : IsOpen(journals[r])
      OBVIOUS
    <2>. QED
      BY <2>1, <2>2 DEF IsOpen, Outcome, IsFinal
  <1>3. \A r : CountIn(catalog, r) \in Nat
    BY CountIsNat
  <1>4. Stored' /\ (Settled' => NoneLate')
    BY <1>1 DEF Stored, OwnBooks, Settled, NoneLate
  <1>5. \A r \in DOMAIN open_runs' :
           /\ r \in DOMAIN journals' /\ ~IsFinal(open_runs'[r])
           /\ Tells(open_runs'[r], CountIn(catalog', r))
    BY <1>1, <1>2 DEF Stored
  <1>. QED
    BY <1>1, <1>3, <1>4, <1>5 DEF OwnBooks, Leaves

LEMMA LCountRows ==
    ASSUME RTypeOK, Stored, OwnBooks, NEW r \in Runs, CountRows(r)
    PROVE  Stored' /\ OwnBooks' /\ \A x \in 1 .. started : Leaves(x)
  <1>1. /\ pc = "reconcile" /\ r \in DOMAIN open_runs /\ counted' = <<r, CountIn(catalog, r)>>
        /\ UNCHANGED <<started, catalog, inflight, journals, me, pc, open_runs, failed, journal>>
    BY DEF CountRows, world, CountForRun, CountIn
  <1>2. \A x : CountIn(catalog, x) \in Nat
    BY CountIsNat
  <1>3. counted'[1] \in DOMAIN open_runs /\ counted'[2] \in 0 .. CountIn(catalog, counted'[1])
    BY <1>1, <1>2
  <1>. QED
    BY <1>1, <1>2, <1>3 DEF Stored, OwnBooks, Settled, NoneLate, Leaves

LEMMA LCloseReconciled ==
    ASSUME RTypeOK, Stored, OwnBooks, CloseReconciled
    PROVE  Stored' /\ OwnBooks' /\ \A x \in 1 .. started : Leaves(x)
  <1>1. PICK r \in DOMAIN open_runs : r = counted[1]
    BY DEF OwnBooks, CloseReconciled
  <1>2. PICK h : h = ReconciledHistory(r)
    OBVIOUS
  <1>3. /\ r \in DOMAIN journals /\ r \in 1 .. started /\ counted[2] \in 0 .. CountIn(catalog, r)
        /\ ~IsFinal(open_runs[r]) /\ Tells(open_runs[r], CountIn(catalog, r))
    BY <1>1 DEF OwnBooks, Stored, CloseReconciled
  <1>4. /\ Save(r, h) /\ open_runs' = [open_runs EXCEPT ![r] = h] /\ pc = "reconcile"
        /\ UNCHANGED <<started, catalog, inflight, me, pc, failed, journal>> /\ counted' = <<>>
    BY <1>1, <1>2 DEF CloseReconciled, world
  <1>5. \A x : CountIn(catalog, x) \in Nat
    BY CountIsNat
  <1>6. Tells(h, CountIn(catalog, r)) /\ ~IsFinal(h)
    BY <1>2, <1>3, <1>5, TellsClosed DEF ReconciledHistory, IsClosure, Reconciled
  <1>7. /\ Stored'
        /\ DOMAIN journals \subseteq DOMAIN journals'
        /\ DOMAIN journals' \subseteq DOMAIN journals \cup {r}
        /\ \A x \in DOMAIN journals' :
              (x \in DOMAIN journals /\ journals'[x] = journals[x]) \/ (x = r /\ journals'[x] = h)
    BY <1>3, <1>4, <1>6, CatalogStands, StoredBySave DEF Stored
  <1>8. \A x \in DOMAIN open_runs' :
           x \in DOMAIN journals' /\ ~IsFinal(open_runs'[x])
             /\ Tells(open_runs'[x], CountIn(catalog', x))
    BY <1>3, <1>4, <1>6, <1>7 DEF OwnBooks
  <1>9. Settled' => NoneLate'
    BY <1>4 DEF OwnBooks, Settled, NoneLate
  <1>10. OwnBooks'
    BY <1>3, <1>4, <1>7, <1>8, <1>9 DEF OwnBooks
  <1>11. \A x \in 1 .. started : Leaves(x)
    BY <1>3, <1>4, <1>5, <1>6, <1>7 DEF Leaves
  <1>. QED
    BY <1>7, <1>10, <1>11

LEMMA LStartRun ==
    ASSUME RTypeOK, Stored, OwnBooks, StartRun
    PROVE  Stored' /\ OwnBooks' /\ \A x \in 1 .. started : x # me => Leaves(x)
  <1>1. PICK h : h = <<Started>>
    OBVIOUS
  <1>2. /\ pc = "reconcile" /\ pc' = "work" /\ journal' = h /\ Save(me, h)
        /\ UNCHANGED <<started, catalog, inflight, me, failed, open_runs, counted>>
        /\ counted = <<>> /\ me \notin DOMAIN journals /\ me \in 1 .. started
    BY <1>1 DEF StartRun, ReadyToStart, world, OwnBooks
  <1>3. h \in Seq({Started}) /\ Acks(h) = {} /\ Ordinary(h) /\ AHistory(h)
    BY <1>1 DEF Acks, IsAck, Started, Ordinary, AHistory, Range
  <1>4. \A x : CountIn(catalog, x) \in Nat
    BY CountIsNat
  <1>5. CountIn(catalog, me) = 0
    <2>1. {i \in DOMAIN catalog : catalog[i].run = me} = {}
      BY <1>2 DEF Stored
    <2>. QED
      BY <2>1, FS_EmptySet DEF CountIn
  <1>6. RowsAreNumbers(h) /\ RowsCommitted(h) = 0
    BY <1>3, NoAcksNoRows
  <1>7. Tells(h, CountIn(catalog, me)) /\ ~IsFinal(h)
    BY <1>3, <1>4, <1>5, <1>6, OrdinaryTells
  <1>8. /\ Stored'
        /\ DOMAIN journals \subseteq DOMAIN journals'
        /\ DOMAIN journals' \subseteq DOMAIN journals \cup {me}
        /\ \A x \in DOMAIN journals' :
              (x \in DOMAIN journals /\ journals'[x] = journals[x]) \/ (x = me /\ journals'[x] = h)
    BY <1>2, <1>7, CatalogStands, StoredBySave DEF Stored
  <1>9. me \in DOMAIN journals' /\ ~IsFinal(journals'[me])
    BY <1>2, <1>7, <1>8 DEF Save
  <1>10. CountsGrow
    BY <1>2, CatalogStands
  <1>11. \A r \in DOMAIN open_runs' :
           r \in DOMAIN journals' /\ ~IsFinal(open_runs'[r])
             /\ Tells(open_runs'[r], CountIn(catalog', r))
    BY <1>2, <1>8, <1>10, CopiesTell
  <1>12. Settled' => NoneLate'
    BY <1>2 DEF OwnBooks, Settled, NoneLate
  <1>13. OwnBooks'
    BY <1>2, <1>3, <1>5, <1>6, <1>9, <1>11, <1>12 DEF OwnBooks
  <1>14. \A x \in 1 .. started : x # me => Leaves(x)
    BY <1>2, <1>4, <1>7, <1>8 DEF Leaves
  <1>. QED
    BY <1>8, <1>13, <1>14

(* The run records an entry that is not terminal, with its rows if any.     *)
LEMMA LRecord ==
    ASSUME RTypeOK, Stored, OwnBooks, pc = "work", ~failed, NEW e, Record(e),
           NEW t \in Seq(Row), catalog' = catalog \o t, \A i \in DOMAIN t : t[i].run = me,
           e.state \in {"committing", "batch_committed"},
           IsAck(e) => e.rows = Len(t), ~IsAck(e) => t = <<>>,
           UNCHANGED <<started, inflight, me, pc, failed, open_runs, counted>>
    PROVE  Stored' /\ OwnBooks' /\ \A x \in 1 .. started : x # me => Leaves(x)
  <1>1. /\ AHistory(journal) /\ Ordinary(journal) /\ RowsAreNumbers(journal)
        /\ RowsCommitted(journal) = CountIn(catalog, me) /\ NoneLate
        /\ me \in DOMAIN journals /\ ~IsFinal(journals[me]) /\ me \in 1 .. started
        /\ counted = <<>>
    BY DEF OwnBooks, Settled
  <1>2. Len(t) \in Nat /\ (t = <<>> => Len(t) = 0)
    BY LenProperties
  <1>3. /\ \A i \in DOMAIN catalog' : catalog'[i].run \in DOMAIN journals
        /\ \A r \in DOMAIN journals : Tells(journals[r], CountIn(catalog', r))
        /\ CountsGrow /\ CountIn(catalog', me) = CountIn(catalog, me) + Len(t)
        /\ \A x : x # me => CountIn(catalog', x) = CountIn(catalog, x)
    <2>1. \A i \in DOMAIN t : t[i].run \in DOMAIN journals /\ ~IsFinal(journals[t[i].run])
      BY <1>1
    <2>2. /\ \A i \in DOMAIN catalog' : catalog'[i].run \in DOMAIN journals
          /\ \A r \in DOMAIN journals : Tells(journals[r], CountIn(catalog', r))
          /\ CountsGrow
          /\ \A r : (\A i \in DOMAIN t : t[i].run # r) =>
                       CountIn(catalog', r) = CountIn(catalog, r)
          /\ \A r : (\A i \in DOMAIN t : t[i].run = r) =>
                       CountIn(catalog', r) = CountIn(catalog, r) + Len(t)
      BY <2>1, CatalogGrew
    <2>3. \A x : x # me => \A i \in DOMAIN t : t[i].run # x
      OBVIOUS
    <2>. QED
      BY <2>2, <2>3
  <1>4. PICK h : h = journal'
    OBVIOUS
  <1>5. h = Append(journal, e) /\ (Save(me, h) \/ UNCHANGED journals)
    BY <1>4 DEF Record
  <1>6. /\ AHistory(h) /\ Ordinary(h) /\ RowsAreNumbers(h)
        /\ RowsCommitted(h) = CountIn(catalog', me)
    <2>1. AHistory(h) /\ Ordinary(h)
      BY <1>1, <1>5, Longer, OrdinaryHistory
    <2>2. RowsAreNumbers(h) /\ RowsCommitted(h) = RowsCommitted(journal) + Len(t)
      <3>1. CASE IsAck(e)
        BY <1>1, <1>2, <1>5, <3>1, Extended
      <3>2. CASE ~IsAck(e)
        BY <1>1, <1>2, <1>5, <3>2, Extended
      <3>. QED
        BY <3>1, <3>2
    <2>. QED
      BY <1>1, <1>3, <2>1, <2>2
  <1>7. Tells(h, CountIn(catalog', me)) /\ ~IsFinal(h)
    BY <1>3, <1>6, OrdinaryTells DEF CountsGrow
  <1>8. /\ Stored'
        /\ DOMAIN journals \subseteq DOMAIN journals'
        /\ DOMAIN journals' \subseteq DOMAIN journals \cup {me}
        /\ \A x \in DOMAIN journals' :
              (x \in DOMAIN journals /\ journals'[x] = journals[x]) \/ (x = me /\ journals'[x] = h)
    <2>1. \A q \in inflight' : \A i \in DOMAIN q.batch :
             q.batch[i].run \in DOMAIN journals /\ ~IsFinal(journals[q.batch[i].run])
      BY DEF Stored
    <2>2. PICK m \in 1 .. started : m = me
      BY <1>1
    <2>3. /\ Save(m, h) \/ UNCHANGED journals
          /\ Tells(h, CountIn(catalog', m)) /\ ~IsFinal(h) /\ started' = started
      BY <1>5, <1>7, <2>2
    <2>4. /\ \A i \in DOMAIN catalog' : catalog'[i].run \in DOMAIN journals
          /\ \A x \in DOMAIN journals : Tells(journals[x], CountIn(catalog', x))
      BY <1>3
    <2>. QED
      BY <2>1, <2>2, <2>3, <2>4, StoredBySave
  <1>9. \A r \in DOMAIN open_runs' :
           r \in DOMAIN journals' /\ ~IsFinal(open_runs'[r])
             /\ Tells(open_runs'[r], CountIn(catalog', r))
    BY <1>3, <1>8, CopiesTell
  <1>10. me \in DOMAIN journals' /\ ~IsFinal(journals'[me]) /\ NoneLate'
    BY <1>1, <1>7, <1>8 DEF NoneLate
  <1>11. OwnBooks'
    BY <1>1, <1>3, <1>4, <1>6, <1>9, <1>10 DEF OwnBooks, CountsGrow
  <1>12. \A x \in 1 .. started : x # me => Leaves(x)
    BY <1>3, <1>8 DEF Leaves, CountsGrow
  <1>. QED
    BY <1>8, <1>11, <1>12

LEMMA LBeginCommit ==
    ASSUME RTypeOK, Stored, OwnBooks, BeginCommit
    PROVE  Stored' /\ OwnBooks' /\ \A x \in 1 .. started : x # me => Leaves(x)
  <1>1. PICK e : e = Committing(batches')
    OBVIOUS
  <1>2. /\ pc = "work" /\ ~failed /\ Record(e)
        /\ UNCHANGED <<started, catalog, inflight, me, pc, failed, open_runs, counted>>
    BY <1>1 DEF BeginCommit, Working, world
  <1>3. ~IsAck(e) /\ e.state = "committing"
    BY <1>1 DEF Committing, IsAck
  <1>4. /\ <<>> \in Seq(Row) /\ catalog' = catalog \o <<>>
        /\ \A i \in DOMAIN <<>> : <<>>[i].run = me
    BY <1>2, EmptySeq, ConcatEmptySeq DEF RTypeOK
  <1>. QED
    BY <1>2, <1>3, <1>4, LRecord

(* Rows and acknowledgement come together.                                  *)
LEMMA LCommitOk ==
    ASSUME RTypeOK, Mine, Stored, OwnBooks, CommitOk
    PROVE  Stored' /\ OwnBooks' /\ \A x \in 1 .. started : x # me => Leaves(x)
  <1>1. PICK e : e = BatchCommitted(batches, Len(writing))
    OBVIOUS
  <1>2. PICK t : t = writing
    OBVIOUS
  <1>3. /\ pc = "work" /\ ~failed /\ Record(e) /\ catalog' = catalog \o t
        /\ UNCHANGED <<started, inflight, me, pc, failed, open_runs, counted>>
    BY <1>1, <1>2 DEF CommitOk, Working, Appended, world
  <1>4. t \in Seq(Row) /\ \A i \in DOMAIN t : t[i].run = me
    BY <1>2 DEF RTypeOK, Mine
  <1>5. IsAck(e) /\ e.rows = Len(t) /\ e.state = "batch_committed"
    BY <1>1, <1>2 DEF BatchCommitted, IsAck
  <1>. QED
    BY <1>3, <1>4, <1>5, LRecord

(* A commit that nobody waits for is of a run that is not final, nor ever   *)
(* will be.                                                                 *)
LEMMA LUnanswered ==
    ASSUME RTypeOK, Mine, Stored, OwnBooks, pc = "work", Unanswered(writing),
           UNCHANGED <<started, journals>>
    PROVE  /\ Stored' /\ CountsGrow
           /\ \A x : x # me => CountIn(catalog', x) = CountIn(catalog, x)
           /\ \A q \in inflight' : q \in inflight \/ \A i \in DOMAIN q.batch : q.batch[i].run = me
  <1>1. ~IsFinal(journals[me]) /\ me \in DOMAIN journals
    BY DEF OwnBooks
  <1>2. writing \in Seq(Row) /\ \A i \in DOMAIN writing : writing[i].run = me
    BY DEF RTypeOK, Mine
  <1>3. \A i \in DOMAIN writing :
          writing[i].run \in DOMAIN journals /\ ~IsFinal(journals[writing[i].run])
    BY <1>1, <1>2
  <1>4. CASE catalog' = catalog \o writing /\ inflight' = inflight
    <2>1. /\ \A i \in DOMAIN catalog' : catalog'[i].run \in DOMAIN journals
          /\ \A r \in DOMAIN journals : Tells(journals[r], CountIn(catalog', r))
          /\ CountsGrow
          /\ \A r : (\A i \in DOMAIN writing : writing[i].run # r) =>
                       CountIn(catalog', r) = CountIn(catalog, r)
      BY <1>2, <1>3, <1>4, CatalogGrew
    <2>2. \A x : x # me => CountIn(catalog', x) = CountIn(catalog, x)
      <3>1. \A x : x # me => \A i \in DOMAIN writing : writing[i].run # x
        BY <1>2
      <3>. QED
        BY <2>1, <3>1
    <2>. QED
      BY <1>4, <2>1, <2>2 DEF Stored
  <1>5. CASE catalog' = catalog /\ inflight' \subseteq
               inflight \cup {[batch |-> writing, base |-> Len(catalog)]}
    <2>1. \A q \in inflight' : q \in inflight \/ q.batch = writing
      BY <1>5
    <2>2. /\ \A i \in DOMAIN catalog' : catalog'[i].run \in DOMAIN journals
          /\ \A r \in DOMAIN journals : Tells(journals[r], CountIn(catalog', r))
          /\ CountsGrow /\ \A r : CountIn(catalog', r) = CountIn(catalog, r)
      BY <1>5, CatalogStands
    <2>3. \A q \in inflight' : \A i \in DOMAIN q.batch :
             q.batch[i].run \in DOMAIN journals /\ ~IsFinal(journals[q.batch[i].run])
      BY <1>3, <2>1 DEF Stored
    <2>. QED
      BY <1>2, <2>1, <2>2, <2>3 DEF Stored
  <1>. QED
    BY <1>4, <1>5 DEF Unanswered, Appended

LEMMA LCommitErr ==
    ASSUME RTypeOK, Mine, Stored, OwnBooks, CommitErr
    PROVE  Stored' /\ OwnBooks' /\ \A x \in 1 .. started : x # me => Leaves(x)
  <1>1. /\ pc = "work" /\ failed' = TRUE /\ Unanswered(writing)
        /\ UNCHANGED <<started, me, journals, pc, journal, open_runs, counted>>
    BY DEF CommitErr, Working, world
  <1>2. /\ Stored' /\ CountsGrow
        /\ \A x : x # me => CountIn(catalog', x) = CountIn(catalog, x)
        /\ \A q \in inflight' : q \in inflight \/ \A i \in DOMAIN q.batch : q.batch[i].run = me
    BY <1>1, LUnanswered
  <1>3. \A r \in DOMAIN open_runs : ~IsFinal(open_runs[r]) /\ Tells(open_runs[r], CountIn(catalog', r))
    BY <1>1, <1>2, CopiesTell
  <1>4. RowsCommitted(journal) <= CountIn(catalog', me)
    <2>1. RowsCommitted(journal) \in Nat /\ RowsCommitted(journal) <= CountIn(catalog, me)
      BY <1>1, CountsAreNumbers DEF OwnBooks, AHistory
    <2>. QED
      BY <1>2, <2>1 DEF CountsGrow
  <1>5. OwnBooks'
    BY <1>1, <1>3, <1>4 DEF OwnBooks, Settled
  <1>6. \A x \in 1 .. started : x # me => Leaves(x)
    BY <1>1, <1>2 DEF Leaves, CountsGrow
  <1>. QED
    BY <1>2, <1>5, <1>6

LEMMA LQuit ==
    ASSUME RTypeOK, Mine, Stored, OwnBooks, Quit
    PROVE  Stored' /\ OwnBooks' /\ \A x \in 1 .. started : x # me => Leaves(x)
  <1>1. /\ pc' = "idle" /\ DOMAIN open_runs' = {} /\ counted' = <<>>
        /\ UNCHANGED <<started, me, journals>>
        /\ IF writing # <<>> THEN Unanswered(writing) ELSE UNCHANGED <<catalog, inflight>>
    BY DEF Quit, Exit, world
  <1>2. /\ Stored' /\ CountsGrow
        /\ \A x : x # me => CountIn(catalog', x) = CountIn(catalog, x)
        /\ \A q \in inflight' : q \in inflight \/ \A i \in DOMAIN q.batch : q.batch[i].run = me
    <2>1. CASE writing # <<>>
      BY <1>1, <2>1, LUnanswered DEF Mine
    <2>2. CASE writing = <<>>
      BY <1>1, <2>2, CatalogStands DEF Stored
    <2>. QED
      BY <2>1, <2>2
  <1>3. OwnBooks'
    BY <1>1 DEF OwnBooks, Settled
  <1>4. \A x \in 1 .. started : x # me => Leaves(x)
    BY <1>1, <1>2 DEF Leaves, CountsGrow
  <1>. QED
    BY <1>2, <1>3, <1>4

(* One journal rewritten while the table stands: no commit of a journal that *)
(* becomes final may be under way.                                           *)
LEMMA StoredByTerminal ==
    ASSUME Stored, NEW r \in 1 .. started, NEW h, Tells(h, CountIn(catalog, r)),
           Save(r, h) \/ UNCHANGED journals, UNCHANGED <<started, catalog, inflight>>,
           \A q \in inflight : \A i \in DOMAIN q.batch : IsFinal(h) => q.batch[i].run # r
    PROVE  /\ Stored'
           /\ DOMAIN journals \subseteq DOMAIN journals'
           /\ DOMAIN journals' \subseteq DOMAIN journals \cup {r}
           /\ \A x \in DOMAIN journals' :
                 (x \in DOMAIN journals /\ journals'[x] = journals[x]) \/ (x = r /\ journals'[x] = h)
  <1>1. \A q \in inflight' : \A i \in DOMAIN q.batch :
           /\ q.batch[i].run \in DOMAIN journals /\ ~IsFinal(journals[q.batch[i].run])
           /\ IsFinal(h) => q.batch[i].run # r
    BY DEF Stored
  <1>2. /\ \A i \in DOMAIN catalog' : catalog'[i].run \in DOMAIN journals
        /\ \A x \in DOMAIN journals : Tells(journals[x], CountIn(catalog', x))
        /\ Tells(h, CountIn(catalog', r))
    BY DEF Stored
  <1>. QED
    BY <1>1, <1>2, StoredBySave

(* The terminal entry of a run whose commits did not fail is final, and all *)
(* its rows are acknowledged by then, and none is late.                     *)
LEMMA LTerminal ==
    ASSUME RTypeOK, Stored, OwnBooks, pc = "work",
           NEW h, h = Append(journal, Terminal), Save(me, h) \/ UNCHANGED journals,
           UNCHANGED <<started, catalog, inflight, me>>
    PROVE  /\ Stored' /\ CountsGrow
           /\ DOMAIN journals \subseteq DOMAIN journals'
           /\ \A x \in 1 .. started : x # me => Leaves(x)
  <1>1. /\ AHistory(journal) /\ Ordinary(journal) /\ RowsAreNumbers(journal)
        /\ RowsCommitted(journal) <= CountIn(catalog, me)
        /\ ~failed => RowsCommitted(journal) = CountIn(catalog, me) /\ NoneLate
        /\ me \in DOMAIN journals /\ me \in 1 .. started
    BY DEF OwnBooks, Settled
  <1>2. PICK e : e = Terminal
    OBVIOUS
  <1>3. /\ ~IsAck(e) /\ ~IsClosure(e) /\ e.state # "reconciled"
        /\ failed => e.state = "commit_failed"
    BY <1>2 DEF Terminal, CommitFailed, Completed, Incomplete, IsAck, IsClosure
  <1>4. \A x : CountIn(catalog, x) \in Nat
    BY CountIsNat
  <1>5. /\ RowsAreNumbers(h) /\ RowsCommitted(h) = RowsCommitted(journal) + 0
        /\ RowsCommitted(journal) \in Nat /\ LastOwn(h) = e /\ ~IsClosed(h)
    BY <1>1, <1>2, <1>3, Extended
  <1>6. /\ AHistory(h) /\ DOMAIN h = 1 .. Len(journal) + 1 /\ h[Len(journal) + 1] = e
        /\ \A i \in 1 .. Len(journal) : h[i] = journal[i]
        /\ Len(journal) \in Nat /\ DOMAIN journal = 1 .. Len(journal)
    BY <1>1, <1>2, Longer, HistoryShape
  <1>7. \A i \in DOMAIN h : h[i].state # "reconciled"
    BY <1>1, <1>3, <1>6 DEF Ordinary
  <1>8. Tells(h, CountIn(catalog, me)) /\ (IsFinal(h) => NoneLate)
    BY <1>1, <1>3, <1>4, <1>5, <1>6, <1>7 DEF Tells, IsFinal
  <1>9. /\ Stored'
        /\ DOMAIN journals \subseteq DOMAIN journals'
        /\ DOMAIN journals' \subseteq DOMAIN journals \cup {me}
        /\ \A x \in DOMAIN journals' :
              (x \in DOMAIN journals /\ journals'[x] = journals[x]) \/ (x = me /\ journals'[x] = h)
    <2>1. \A q \in inflight : \A i \in DOMAIN q.batch : IsFinal(h) => q.batch[i].run # me
      BY <1>8 DEF NoneLate
    <2>2. PICK m \in 1 .. started : m = me
      BY <1>1
    <2>3. \A q \in inflight : \A i \in DOMAIN q.batch : IsFinal(h) => q.batch[i].run # m
      BY <2>1, <2>2
    <2>4. Tells(h, CountIn(catalog, m))
      BY <1>8, <2>2
    <2>5. Save(m, h) \/ UNCHANGED journals
      BY <2>2
    <2>6. Stored /\ UNCHANGED <<started, catalog, inflight>>
      OBVIOUS
    <2>7. /\ Stored'
          /\ DOMAIN journals \subseteq DOMAIN journals'
          /\ DOMAIN journals' \subseteq DOMAIN journals \cup {m}
          /\ \A x \in DOMAIN journals' :
                (x \in DOMAIN journals /\ journals'[x] = journals[x])
                \/ (x = m /\ journals'[x] = h)
      BY ONLY <2>2, <2>3, <2>4, <2>5, <2>6, StoredByTerminal
    <2>. QED
      BY <2>2, <2>7
  <1>10. CountsGrow
    BY <1>4 DEF CountsGrow
  <1>11. \A x \in 1 .. started : x # me => Leaves(x)
    BY <1>4, <1>9 DEF Leaves
  <1>. QED
    BY <1>9, <1>10, <1>11

LEMMA LComplete ==
    ASSUME RTypeOK, Stored, OwnBooks, Complete
    PROVE  Stored' /\ OwnBooks' /\ \A x \in 1 .. started : x # me => Leaves(x)
  <1>1. PICK h : h = Append(journal, Terminal)
    OBVIOUS
  <1>2. /\ pc = "work" /\ ~failed /\ pc' = "supersede"
        /\ Save(me, h) \/ UNCHANGED journals
        /\ UNCHANGED <<started, catalog, inflight, me, failed, open_runs, counted>>
    BY <1>1 DEF Complete, Working, world, Record
  <1>3. /\ Stored' /\ CountsGrow /\ DOMAIN journals \subseteq DOMAIN journals'
        /\ \A x \in 1 .. started : x # me => Leaves(x)
    BY <1>1, <1>2, LTerminal
  <1>4. \A r \in DOMAIN open_runs' :
           r \in DOMAIN journals' /\ ~IsFinal(open_runs'[r])
             /\ Tells(open_runs'[r], CountIn(catalog', r))
    BY <1>2, <1>3, CopiesTell
  <1>5. NoneLate' /\ counted' = <<>>
    BY <1>2 DEF OwnBooks, Settled, NoneLate
  <1>6. OwnBooks'
    BY <1>2, <1>4, <1>5 DEF OwnBooks
  <1>. QED
    BY <1>3, <1>6

LEMMA LGiveUp ==
    ASSUME RTypeOK, Stored, OwnBooks, GiveUp
    PROVE  Stored' /\ OwnBooks' /\ \A x \in 1 .. started : x # me => Leaves(x)
  <1>1. PICK h : h = Append(journal, Terminal)
    OBVIOUS
  <1>2. /\ pc = "work" /\ pc' = "idle" /\ DOMAIN open_runs' = {} /\ counted' = <<>>
        /\ Save(me, h) \/ UNCHANGED journals
        /\ UNCHANGED <<started, catalog, inflight, me>>
    BY <1>1 DEF GiveUp, Exit, world
  <1>3. Stored' /\ \A x \in 1 .. started : x # me => Leaves(x)
    BY <1>1, <1>2, LTerminal
  <1>4. OwnBooks'
    BY <1>2 DEF OwnBooks, Settled
  <1>. QED
    BY <1>3, <1>4

LEMMA LSupersede ==
    ASSUME RTypeOK, Stored, OwnBooks, NEW r \in Runs, Supersede(r)
    PROVE  Stored' /\ OwnBooks' /\ \A x \in 1 .. started : Leaves(x)
  <1>1. PICK h : h = SupersededHistory(r)
    OBVIOUS
  <1>2. /\ r \in DOMAIN journals /\ r \in 1 .. started
        /\ ~IsFinal(open_runs[r]) /\ Tells(open_runs[r], CountIn(catalog, r))
    BY DEF OwnBooks, Stored, Supersede
  <1>3. /\ Save(r, h) \/ UNCHANGED journals
        /\ open_runs' = [x \in DOMAIN open_runs \ {r} |-> open_runs[x]] /\ pc = "supersede"
        /\ UNCHANGED <<started, catalog, inflight, me, pc, failed, journal, counted>>
    BY <1>1 DEF Supersede, world
  <1>4. \A x : CountIn(catalog, x) \in Nat
    BY CountIsNat
  <1>5. Tells(h, CountIn(catalog, r)) /\ ~IsFinal(h)
    BY <1>1, <1>2, <1>4, TellsClosed DEF SupersededHistory, IsClosure, SupersededBy
  <1>6. /\ Stored'
        /\ DOMAIN journals \subseteq DOMAIN journals'
        /\ DOMAIN journals' \subseteq DOMAIN journals \cup {r}
        /\ \A x \in DOMAIN journals' :
              (x \in DOMAIN journals /\ journals'[x] = journals[x]) \/ (x = r /\ journals'[x] = h)
    BY <1>2, <1>3, <1>5, CatalogStands, StoredBySave DEF Stored
  <1>7. \A x \in DOMAIN open_runs' :
           x \in DOMAIN journals' /\ ~IsFinal(open_runs'[x])
             /\ Tells(open_runs'[x], CountIn(catalog', x))
    BY <1>3, <1>6 DEF OwnBooks
  <1>8. OwnBooks'
    BY <1>3, <1>7 DEF OwnBooks, Settled, NoneLate
  <1>9. \A x \in 1 .. started : Leaves(x)
    BY <1>2, <1>3, <1>4, <1>5, <1>6 DEF Leaves
  <1>. QED
    BY <1>6, <1>8, <1>9

(* A step of the run keeps the books and leaves those of others.            *)
LEMMA LRunStep ==
    ASSUME RTypeOK, Mine, Stored, OwnBooks, RunStep
    PROVE  Stored' /\ OwnBooks' /\ \A x \in 1 .. started : x # me => Leaves(x)
  <1>1. CASE \E p \in Paths : Process(p) \/ FileFails(p)
    <2>1. /\ inflight' \subseteq inflight
          /\ UNCHANGED <<catalog, started, me, journals, pc, failed, journal, open_runs, counted>>
      BY <1>1 DEF Process, FileFails, world
    <2>. QED
      BY <2>1, LQuiet
  <1>2. CASE LoadState
    BY <1>2, LLoadState
  <1>3. CASE ReadJournals \/ \E r \in Runs : CountRows(r) \/ Supersede(r)
    BY <1>3, LReadJournals, LCountRows, LSupersede
  <1>4. CASE CloseReconciled \/ StartRun
    BY <1>4, LCloseReconciled, LStartRun
  <1>5. CASE BeginCommit \/ CommitOk \/ CommitErr
    BY <1>5, LBeginCommit, LCommitOk, LCommitErr
  <1>6. CASE Complete \/ GiveUp \/ Quit
    BY <1>6, LComplete, LGiveUp, LQuit
  <1>. QED
    BY <1>1, <1>2, <1>3, <1>4, <1>5, <1>6 DEF RunStep

LEMMA LNext ==
    ASSUME RTypeOK, Mine, Stored, OwnBooks, [Next \/ LateCommit]_vars
    PROVE  Stored' /\ OwnBooks'
  <1>1. CASE Environment \/ Stopped \/ UNCHANGED vars \/ \E q \in inflight : Lose(q)
    <2>1. /\ inflight' \subseteq inflight
          /\ UNCHANGED <<catalog, started, me, journals, pc, failed, journal, open_runs, counted>>
      BY <1>1 DEF Environment, Edit, Stopped, Lose, vars, world, proc
    <2>. QED
      BY <2>1, LQuiet
  <1>2. CASE \E q \in inflight : Land(q)
    BY <1>2, LLand
  <1>3. CASE RunStep
    BY <1>3, LRunStep
  <1>. QED
    BY <1>1, <1>2, <1>3 DEF Next, LateCommit

LEMMA NewRuns ==
    ASSUME RunStep, started \in Nat
    PROVE  (me' = me /\ started' = started) \/ (started' = started + 1 /\ me' = started')
  <1>1. CASE LoadState
    BY <1>1 DEF LoadState
  <1>2. CASE ~LoadState
    BY <1>2 DEF RunStep, ReadJournals, CountRows, CloseReconciled, StartRun, Process, FileFails,
                BeginCommit, CommitOk, CommitErr, Complete, GiveUp, Supersede, Quit, world
  <1>. QED
    BY <1>1, <1>2

(* What another process does to bucket and catalog leaves the run's books.  *)
LEMMA LOthers ==
    ASSUME RTypeOK, RTypeOK', Stored, OwnBooks, Stored', UNCHANGED proc, started <= started',
           pc # "idle" => Leaves(me)
    PROVE  OwnBooks'
  <1>1. UNCHANGED <<me, pc, open_runs, counted, failed, journal>>
    BY DEF proc
  <1>2. me \in 0 .. started' /\ (pc # "idle" => me > 0)
    BY DEF OwnBooks, RTypeOK
  <1>3. CASE pc = "idle"
    BY <1>1, <1>2, <1>3 DEF OwnBooks, Settled
  <1>4. CASE pc # "idle"
    <2>1. CountsGrow
      <3>1. \A r : CountIn(catalog, r) \in Nat
        BY CountIsNat
      <3>2. \A r : CountIn(catalog', r) \in Nat
        BY CountConcat, EmptySeq DEF RTypeOK
      <3>. QED
        BY <1>4, <3>1, <3>2 DEF Leaves, CountsGrow
    <2>2. \A r \in DOMAIN open_runs :
             r \in DOMAIN journals' /\ ~IsFinal(open_runs[r])
               /\ Tells(open_runs[r], CountIn(catalog', r))
      BY <1>4, <2>1, CopiesTell DEF Leaves
    <2>3. counted # <<>> => counted[2] \in 0 .. CountIn(catalog', counted[1])
      BY <2>1 DEF OwnBooks, CountsGrow
    <2>4. Settled => NoneLate'
      BY <1>1, <1>4 DEF OwnBooks, NoneLate, Leaves
    <2>. QED
      BY <1>1, <1>2, <1>4, <2>2, <2>3, <2>4 DEF OwnBooks, Leaves, Settled
  <1>. QED
    BY <1>3, <1>4

(* The journals and the run's own books tell the truth in every state, with *)
(* late commits and a clock that is set back.                               *)
THEOREM TheBooksTell == LateSpec => [](Stored /\ OwnBooks)
  BY LInit, LNext, RecoveryTypes, RowsAreTheRunsOwn, PTL DEF LateSpec

(* What `runs list` and `runs show` say is true of the catalog, with late   *)
(* commits and a clock that is set back.                                    *)
THEOREM ListingsAreTrue == LateSpec => []ListingIsTrue
  <1>1. ASSUME RTypeOK, GInv, Stored, OwnBooks PROVE ListingIsTrue
    <2>1. SUFFICES ASSUME NEW r \in DOMAIN journals
                   PROVE  LET view == RunView(journals[r]) IN
                          /\ view.rows_committed <= CountForRun(r)
                          /\ Advice(view) = "none" /\ view.outcome # "reconciled" =>
                                view.rows_committed = CountForRun(r)
                          /\ r = me /\ pc = "work" => IsOpen(journals[r])
                          /\ IsClosed(journals[r]) =>
                                view.last_state \notin {"completed", "incomplete"}
      BY DEF ListingIsTrue, Listed
    <2>2. Tells(journals[r], CountForRun(r))
      BY <1>1 DEF Stored, CountIn, CountForRun
    <2>3. r = me /\ pc = "work" => IsOpen(journals[r])
      <3>1. SUFFICES ASSUME r = me, pc = "work" PROVE IsOpen(journals[me])
        OBVIOUS
      <3>2. /\ AHistory(journal) /\ Ordinary(journal)
            /\ AHistory(journals[me]) /\ IsPrefix(journals[me], journal)
        BY <1>1, <3>1 DEF GInv, OwnBooks
      <3>. QED
        BY <3>2, OrdinaryHistory
    <2>4. Outcome(journals[r]) \in {"completed", "incomplete"} => IsFinal(journals[r])
      BY DEF Outcome, IsFinal
    <2>5. Advice(RunView(journals[r])) = "none" /\ Outcome(journals[r]) # "reconciled" =>
             Outcome(journals[r]) \in {"completed", "incomplete"}
      BY DEF Advice, RunView, Outcome
    <2>. QED
      BY <2>2, <2>3, <2>4, <2>5 DEF RunView, Tells, IsFinal
  <1>. QED
    BY <1>1, TheBooksTell, RecoveryTypes, JournalInvariance, PTL
=============================================================================
