------------------------------ MODULE TreeWalk ------------------------------
(***************************************************************************)
(* What the three commands that walk a directory make of the entries:      *)
(* collect_files of `ingest` (ingest/mod.rs), the loop of `scan`           *)
(* (scan/mod.rs) and the profiler (profile/scanner.rs, domain/stats.rs).   *)
(*                                                                         *)
(* Each is a loop over the same iterator, so one step here gives the next  *)
(* entry to all three.  The profiler then hashes the first block of files  *)
(* of equal size, up to a cap; its groups come out of a hash map, in any   *)
(* order, and any file may fail to be read.                                *)
(*                                                                         *)
(* A file is its position in the walk.  The filters on the name (globs and *)
(* --types) are a set of extensions; of a content only its size and its    *)
(* first block matter.                                                     *)
(***************************************************************************)
EXTENDS Naturals, Sequences, FiniteSets, FiniteSetsExt, SequencesExt

CONSTANTS
    Contents, Size, Head64,  \* contents, with their size and first 64 KiB
    Extensions,
    Types,                   \* extensions that pass the filters of ingest
    Limit,                   \* --limit
    MaxSizes, NoMaxSize,     \* what --max-size may be; NoMaxSize is its absence
    MAX_LARGEST,             \* files kept when the list is cut back
    TOP_LARGEST,             \* files reported
    MaxHashFiles,            \* --max-hash-files
    MaxEntries               \* bound on the length of the walk

ASSUME WalkAssumption ==
    /\ Size \in [Contents -> Nat] /\ Types \subseteq Extensions
    /\ Limit \in Nat /\ MaxHashFiles \in Nat
    /\ MaxSizes \subseteq Nat \cup {NoMaxSize} /\ NoMaxSize \notin Nat
    /\ TOP_LARGEST \in Nat /\ MAX_LARGEST \in Nat /\ TOP_LARGEST <= MAX_LARGEST
    /\ MaxEntries \in Nat

VARIABLES
    walked,   \* the entries so far
    collect,  \* collect_files, for each --max-size: candidates, and "walking",
              \*   "limit" or "failed"
    scan,     \* scan: scanned files, number of errors
    groups,   \* by_extension
    largest,  \* sizes and files, cut back now and then
    errors,   \* profile: entries that could not be read
    by_size,  \* groups of equal size that are not hashed yet
    queue,    \* rest of the group being hashed
    hashed, hash_errors,
    pc        \* of the profiler: "walk", "hash", "done"

walk     == <<walked, collect, scan, groups, largest, errors>>
estimate == <<by_size, queue, hashed, hash_errors>>
vars     == <<walk, estimate, pc>>

Entry ==
    [kind : {"file"}, content : Contents, ext : Extensions]
      \cup [kind : {"unreadable"}, ext : Extensions]  \* a file without metadata
      \cup [kind : {"other"}]                         \* a directory or symlink
      \cup [kind : {"error"}]                         \* the walk itself failed

SizeOf(f) == Size[walked[f].content]

NoStats == [count |-> 0, total_bytes |-> 0, min_bytes |-> 0, max_bytes |-> 0,
            largest_path |-> 0]

Init ==
    /\ walked = <<>>
    /\ collect = [m \in MaxSizes |-> [files |-> <<>>, state |-> "walking"]]
    /\ scan = [files |-> <<>>, errors |-> 0]
    /\ groups = [x \in Extensions |-> NoStats]
    /\ largest = <<>> /\ errors = 0
    /\ by_size = {} /\ queue = <<>> /\ hashed = <<>> /\ hash_errors = 0
    /\ pc = "walk"

-----------------------------------------------------------------------------
(* ingest: the candidates *)

PushThenAsk(m, f) ==
    [files |-> Append(collect[m].files, f),
     state |-> IF Len(collect[m].files) >= Limit THEN "limit" ELSE "walking"]

(* The limit is looked at after the push.                                   *)
Push(m, f) ==
    [files |-> Append(collect[m].files, f),
     state |-> IF Len(collect[m].files) + 1 >= Limit THEN "limit" ELSE "walking"]

(* The filters on the name come before the one on the size, so only a file  *)
(* that passes them can fail for its metadata; any failure ends the command.*)
(* Without --max-size no metadata is read, and an unreadable file is a      *)
(* candidate.                                                               *)
Collect(m, f, e) ==
    LET fails  == \/ e.kind = "error"
                  \/ m # NoMaxSize /\ e.kind = "unreadable" /\ e.ext \in Types
        passes == \/ m = NoMaxSize /\ e.kind \in {"file", "unreadable"} /\ e.ext \in Types
                  \/ m # NoMaxSize /\ e.kind = "file" /\ e.ext \in Types /\ Size[e.content] <= m
    IN  IF collect[m].state # "walking" THEN collect[m]
        ELSE IF fails  THEN [collect[m] EXCEPT !.state = "failed"]
        ELSE IF passes THEN Push(m, f)
        ELSE collect[m]

(* The walk fails, or scan_file does: for want of the metadata, never for a *)
(* file it cannot open, which is scanned without a hash.                    *)
ScanFails(e) == e.kind \in {"error", "unreadable"}

ScanCountsAll(f, e) ==
    scan' = IF Len(scan.files) + scan.errors >= Limit THEN scan
            ELSE IF ScanFails(e)    THEN [scan EXCEPT !.errors = @ + 1]
            ELSE IF e.kind = "file" THEN [scan EXCEPT !.files = Append(@, f)]
            ELSE scan

(* scan: failures are counted, and count for nothing in the limit.          *)
Scan(f, e) ==
    scan' = IF Len(scan.files) >= Limit THEN scan
            ELSE IF ScanFails(e)    THEN [scan EXCEPT !.errors = @ + 1]
            ELSE IF e.kind = "file" THEN [scan EXCEPT !.files = Append(@, f)]
            ELSE scan

-----------------------------------------------------------------------------
(* profile: statistics of the walk *)

AddStrictly(stats, f, size) ==
    [count        |-> stats.count + 1,
     total_bytes  |-> stats.total_bytes + size,
     min_bytes    |-> IF size < stats.min_bytes THEN size ELSE stats.min_bytes,
     max_bytes    |-> IF size > stats.max_bytes THEN size ELSE stats.max_bytes,
     largest_path |-> IF size > stats.max_bytes THEN f ELSE stats.largest_path]

(* GroupStats::add.  min_bytes starts at u64::MAX, which every size         *)
(* undercuts; a group of empty files has no largest_path (0).               *)
Add(stats, f, size) ==
    [count        |-> stats.count + 1,
     total_bytes  |-> stats.total_bytes + size,
     min_bytes    |-> IF stats.count = 0 \/ size < stats.min_bytes
                        THEN size ELSE stats.min_bytes,
     max_bytes    |-> IF size > stats.max_bytes THEN size ELSE stats.max_bytes,
     largest_path |-> IF size > stats.max_bytes THEN f ELSE stats.largest_path]

(* A stable sort by descending size, cut to n.                              *)
SortAndCut(list, n) ==
    LET Before(i, j) == \/ list[i].size > list[j].size
                        \/ list[i].size = list[j].size /\ i < j
        Rank(i) == Cardinality({j \in DOMAIN list : Before(j, i)})
    IN  [k \in 1 .. Min({n, Len(list)}) |-> list[CHOOSE i \in DOMAIN list : Rank(i) = k - 1]]

NewestOnly(list) ==
    IF Len(list) > 2 * MAX_LARGEST
      THEN SubSeq(list, Len(list) - MAX_LARGEST + 1, Len(list)) ELSE list

(* The list may grow to twice what is kept before it is cut back.           *)
CutBack(list) ==
    IF Len(list) > 2 * MAX_LARGEST THEN SortAndCut(list, MAX_LARGEST) ELSE list

Profile(f, e) ==
    CASE e.kind = "file" ->
           LET size == Size[e.content] IN
           /\ groups' = [groups EXCEPT ![e.ext] = Add(@, f, size)]
           /\ largest' = CutBack(Append(largest, [size |-> size, path |-> f]))
           /\ errors' = errors
      [] e.kind \in {"error", "unreadable"} ->
           errors' = errors + 1 /\ UNCHANGED <<groups, largest>>
      [] e.kind = "other" -> UNCHANGED <<groups, largest, errors>>

Visit(e) ==
    /\ pc = "walk" /\ Len(walked) < MaxEntries
    /\ LET f == Len(walked) + 1
       IN  /\ collect' = [m \in MaxSizes |-> Collect(m, f, e)]
           /\ Scan(f, e) /\ Profile(f, e)
    /\ walked' = Append(walked, e)
    /\ UNCHANGED <<estimate, pc>>

-----------------------------------------------------------------------------
(* profile: the estimate of duplicates *)

Profiled == {f \in DOMAIN walked : walked[f].kind = "file"}

InWalkOrder(files) ==
    CHOOSE s \in [1 .. Cardinality(files) -> files] :
        \A i, j \in DOMAIN s : i < j => s[i] < s[j]

(* Groups of at least two files of one size; empty files are not looked at. *)
SizeCandidates ==
    {g \in {InWalkOrder({f \in Profiled : SizeOf(f) = s}) : s \in {SizeOf(f) : f \in Profiled} \ {0}} :
       Len(g) > 1}

EndWalk ==
    /\ pc = "walk" /\ pc' = "hash"
    /\ by_size' = SizeCandidates
    /\ UNCHANGED <<walk, queue, hashed, hash_errors>>

CapReached == Len(hashed) >= MaxHashFiles

NextGroup(g) ==
    /\ pc = "hash" /\ queue = <<>> /\ ~CapReached
    /\ queue' = g /\ by_size' = by_size \ {g}
    /\ UNCHANGED <<walk, hashed, hash_errors, pc>>

(* A failure to read the file does not count for the cap.                   *)
HashFile ==
    /\ pc = "hash" /\ queue # <<>> /\ ~CapReached
    /\ \/ hashed' = Append(hashed, Head(queue)) /\ hash_errors' = hash_errors
       \/ hashed' = hashed /\ hash_errors' = hash_errors + 1
    /\ queue' = Tail(queue)
    /\ UNCHANGED <<walk, by_size, pc>>

Finish ==
    /\ pc = "hash"
    /\ CapReached \/ (queue = <<>> /\ by_size = {})
    /\ pc' = "done"
    /\ UNCHANGED <<walk, estimate>>

Done == pc = "done" /\ UNCHANGED vars

largest_files == SortAndCut(largest, TOP_LARGEST)

SumOver(S, value(_)) == SumFunction([x \in S |-> value(x)])

Minus(a, b) == IF a > b THEN a - b ELSE 0  \* saturating_sub

ForgetErrors ==
    Minus(SumOver(SizeCandidates, Len), Len(hashed))

files_not_examined ==
    Minus(SumOver(SizeCandidates, Len), Len(hashed) + hash_errors)

(* Files of equal size and first block: candidates, not duplicates.         *)
QuickHashGroup(f) ==
    {g \in Range(hashed) : /\ SizeOf(g) = SizeOf(f)
                           /\ Head64[walked[g].content] = Head64[walked[f].content]}

reclaimable_bytes ==
    SumOver({QuickHashGroup(f) : f \in Range(hashed)},
            LAMBDA g : (Cardinality(g) - 1) * SizeOf(CHOOSE f \in g : TRUE))

Next ==
    \/ \E e \in Entry : Visit(e)
    \/ EndWalk
    \/ \E g \in by_size : NextGroup(g)
    \/ HashFile \/ Finish \/ Done

Spec == Init /\ [][Next]_vars
-----------------------------------------------------------------------------
(* Properties *)

First(n, files) == SubSeq(files, 1, Min({n, Len(files)}))

(* The candidates are the first --limit files of the walk that pass every   *)
(* filter (one at least, as the limit is looked at after a push): a file    *)
(* filtered out uses none of the limit, and the walk is not followed beyond *)
(* it, not even to an error.  A file whose metadata cannot be read ends the *)
(* command if its size is asked for, and is a candidate otherwise.          *)
SelectionIsExact ==
    \A m \in MaxSizes :
    LET named   == {f \in DOMAIN walked : /\ walked[f].kind \in {"file", "unreadable"}
                                         /\ walked[f].ext \in Types}
        passing == {f \in named : m # NoMaxSize => f \in Profiled /\ SizeOf(f) <= m}
        wanted  == First(Max({Limit, 1}), InWalkOrder(passing))
        broken  == {f \in DOMAIN walked : \/ walked[f].kind = "error"
                                          \/ m # NoMaxSize /\ f \in named \ Profiled}
        enough  == Len(wanted) >= Max({Limit, 1})
    IN  /\ collect[m].state = "limit" => collect[m].files = wanted /\ enough
        /\ collect[m].state = "walking" =>
             collect[m].files = wanted /\ ~enough /\ broken = {}
        /\ collect[m].state = "failed" =>
             \E f \in broken : collect[m].files = InWalkOrder({g \in passing : g < f})

(* scan reports on the first --limit files, and on every failure it met     *)
(* before it had them.                                                      *)
ScanIsABeginning ==
    LET wanted == First(Limit, InWalkOrder(Profiled))
        seen   == IF Len(wanted) < Limit THEN DOMAIN walked
                  ELSE {f \in DOMAIN walked : \E g \in Range(wanted) : f < g}
    IN  /\ scan.files = wanted
        /\ scan.errors = Cardinality({f \in seen : ScanFails(walked[f])})

(* Files and bytes are in exactly one group, and a group's extremes are     *)
(* those of its files, though the list of sizes is never looked at again.   *)
GroupsAddUp ==
    \A x \in Extensions :
        LET members == {f \in Profiled : walked[f].ext = x} IN
        /\ groups[x].count = Cardinality(members)
        /\ groups[x].total_bytes = SumOver(members, SizeOf)
        /\ members # {} => /\ groups[x].min_bytes = Min({SizeOf(f) : f \in members})
                           /\ groups[x].max_bytes = Max({SizeOf(f) : f \in members})
        /\ IF groups[x].max_bytes = 0 THEN groups[x].largest_path = 0
           ELSE groups[x].largest_path =
                  Min({f \in members : SizeOf(f) = groups[x].max_bytes})

(* The reported files are the largest of the whole walk, ties in the order  *)
(* of the walk, though the list was cut back on the way.                    *)
LargestAreTheLargest ==
    LET files == InWalkOrder(Profiled) IN
    largest_files =
      SortAndCut([i \in DOMAIN files |-> [size |-> SizeOf(files[i]), path |-> files[i]]],
                 TOP_LARGEST)

(* Every candidate was hashed, failed, or is reported as not examined, and  *)
(* the last only because the cap was reached.  At any time reclaimable_bytes*)
(* is an "upper bound on reclaimable bytes within the examined subset": no  *)
(* more can be won among the hashed files by keeping one of each content;   *)
(* and it is at most what equal sizes alone would suggest, so cap, failures *)
(* and the order of the groups only ever lower it (DuplicateEstimate).      *)
EstimateIsTrue ==
    LET Same(f)   == {g \in Range(hashed) : walked[g].content = walked[f].content}
        Gain(S)   == SumOver(S, LAMBDA g : (Cardinality(g) - 1) * SizeOf(CHOOSE f \in g : TRUE))
    IN  /\ pc = "done" =>
             /\ Len(hashed) + hash_errors + files_not_examined = SumOver(SizeCandidates, Len)
             /\ files_not_examined > 0 => Len(hashed) = MaxHashFiles
        /\ Gain({Same(f) : f \in Range(hashed)}) <= reclaimable_bytes
        /\ reclaimable_bytes <= Gain({Range(g) : g \in SizeCandidates})
=============================================================================
