--------------------------- MODULE TreeWalkProofs ---------------------------
(***************************************************************************)
(* Theorems about TreeWalk, for walks of any length over any tree: ingest  *)
(* takes exactly the files it should; scan reports on a beginning of the   *)
(* walk and counts its failures; profile's groups describe the files of    *)
(* the walk, its list of the largest is that of the whole walk although it *)
(* was cut back on the way, and its estimate of duplicates is a bound.     *)
(***************************************************************************)
EXTENDS TreeWalk, RunJournalProofs

-----------------------------------------------------------------------------
(* Positions in the order of the walk *)

Increasing(s) == \A i, j \in DOMAIN s : i < j => s[i] < s[j]

(* s lists S, which is a set of positions, in the order of the walk.        *)
Lists(s, S) == s \in [1 .. Cardinality(S) -> S] /\ Increasing(s)

(* A set of positions is finite.                                            *)
LEMMA PositionsAreFinite ==
    ASSUME NEW n \in Nat, NEW S \in SUBSET (1 .. n)
    PROVE  IsFiniteSet(S) /\ Cardinality(S) \in Nat
  <1> DEFINE D == 1 .. n
  <1>1. IsFiniteSet(D)
    BY FS_Interval
  <1> HIDE DEF D
  <1>2. S \in SUBSET D
    BY DEF D
  <1>. QED
    BY <1>1, <1>2, FS_Subset, FS_CardinalityType

IsList(s, S, c) ==
    /\ IsFiniteSet(S) /\ c = Cardinality(S) /\ c \in Nat
    /\ s \in [1 .. c -> S] /\ s \in Seq(S) /\ Len(s) = c /\ DOMAIN s = 1 .. c
    /\ \A i \in 1 .. c : s[i] \in S /\ s[i] \in Nat
    /\ \A i, j \in 1 .. c : i < j => s[i] < s[j]

LEMMA ListShape ==
    ASSUME NEW n \in Nat, NEW S \in SUBSET (1 .. n), NEW s, Lists(s, S)
    PROVE  IsList(s, S, Cardinality(S))
  <1>0. PICK c : c = Cardinality(S)
    OBVIOUS
  <1>1. IsFiniteSet(S) /\ c \in Nat /\ \A x \in S : x \in Nat
    BY <1>0, PositionsAreFinite
  <1>2. s \in [1 .. c -> S] /\ Increasing(s)
    BY <1>0 DEF Lists
  <1>3. DOMAIN s = 1 .. c /\ \A i \in 1 .. c : s[i] \in S
    BY <1>2
  <1>4. s \in Seq(S) /\ Len(s) = c
    BY <1>1, <1>2, <1>3
  <1>5. \A i, j \in 1 .. c : i < j => s[i] < s[j]
    BY <1>2, <1>3 DEF Increasing
  <1>. QED
    BY <1>0, <1>1, <1>2, <1>3, <1>4, <1>5 DEF IsList

(* A list of a set has all of it.                                           *)
LEMMA ListHasAll ==
    ASSUME NEW n \in Nat, NEW S \in SUBSET (1 .. n), NEW s, Lists(s, S)
    PROVE  \A x \in S : \E i \in DOMAIN s : s[i] = x
  <1>1. PICK c : c = Cardinality(S)
    OBVIOUS
  <1>2. /\ IsFiniteSet(S) /\ c \in Nat /\ s \in [1 .. c -> S] /\ DOMAIN s = 1 .. c
        /\ \A i \in 1 .. c : s[i] \in Nat
        /\ \A i, j \in 1 .. c : i < j => s[i] < s[j]
    BY <1>1, ListShape DEF IsList
  <1> DEFINE D == 1 .. c
  <1>3. IsFiniteSet(D) /\ Cardinality(D) = Cardinality(S)
    BY <1>1, <1>2, FS_Interval
  <1>4. s \in Injection(D, S)
    <2>1. \A i, j \in 1 .. c : i # j => s[i] # s[j]
      BY <1>2
    <2>. QED
      BY <1>2, <2>1 DEF Injection, IsInjective
  <1> HIDE DEF D
  <1>5. s \in Surjection(D, S)
    BY <1>2, <1>3, <1>4, FS_Injection
  <1>. QED
    BY <1>2, <1>5 DEF Surjection, D

(* Two lists of a set do not differ: nothing can stand where they first do. *)
LEMMA ListIsUnique ==
    ASSUME NEW n \in Nat, NEW S \in SUBSET (1 .. n), NEW s, NEW t, Lists(s, S), Lists(t, S)
    PROVE  s = t
  <1>1. PICK c : c = Cardinality(S)
    OBVIOUS
  <1>2. /\ c \in Nat /\ s \in [1 .. c -> S] /\ DOMAIN s = 1 .. c
        /\ \A i, j \in 1 .. c : i < j => s[i] < s[j]
        /\ \A i \in 1 .. c : s[i] \in S /\ s[i] \in Nat
    BY <1>1, ListShape DEF IsList
  <1>3. /\ t \in [1 .. c -> S] /\ DOMAIN t = 1 .. c
        /\ \A i, j \in 1 .. c : i < j => t[i] < t[j]
        /\ \A i \in 1 .. c : t[i] \in S /\ t[i] \in Nat
    BY <1>1, ListShape DEF IsList
  <1>4. /\ \A x \in S : \E i \in 1 .. c : s[i] = x
        /\ \A x \in S : \E i \in 1 .. c : t[i] = x
    <2>1. \A x \in S : \E i \in DOMAIN s : s[i] = x
      BY ONLY ListHasAll, Lists(s, S), n \in Nat, S \in SUBSET (1 .. n)
    <2>2. \A x \in S : \E i \in DOMAIN t : t[i] = x
      BY ONLY ListHasAll, Lists(t, S), n \in Nat, S \in SUBSET (1 .. n)
    <2>. QED
      BY <1>2, <1>3, <2>1, <2>2
  <1> DEFINE differ == {i \in 1 .. c : s[i] # t[i]}
  <1>5. SUFFICES ASSUME differ # {} PROVE FALSE
    <2>1. s # t => \E i \in 1 .. c : s[i] # t[i]
      BY ONLY <1>2, <1>3
    <2>. QED
      BY <2>1
  <1>6. PICK k \in 1 .. c : s[k] # t[k] /\ \A j \in 1 .. c : j < k => s[j] = t[j]
    <2>1. differ \in SUBSET (1 .. c)
      OBVIOUS
    <2>2. Min(differ) \in differ /\ \A j \in differ : Min(differ) <= j
      <3> HIDE DEF differ
      <3>. QED
        BY <1>2, <1>3, <1>5, <2>1, MinimumExists
    <2>3. Min(differ) \in 1 .. c /\ s[Min(differ)] # t[Min(differ)]
      BY <2>2
    <2>4. \A j \in 1 .. c : j < Min(differ) => s[j] = t[j]
      BY <2>2, <2>3
    <2> HIDE DEF differ
    <2>. QED
      BY <2>3, <2>4
  <1> HIDE DEF differ
  <1>7. s[k] \in S /\ t[k] \in S
    BY <1>2, <1>3, <1>6
  <1>8. CASE s[k] < t[k]
    <2>0. \A x \in S : \E i \in 1 .. c : t[i] = x
      BY <1>4
    <2>1. PICK i \in 1 .. c : t[i] = s[k]
      BY ONLY <1>7, <2>0, Zenon
    <2>2. i < k
      <3>1. t[i] < t[k] /\ t[i] \in Nat /\ t[k] \in Nat
        BY <1>2, <1>3, <1>8, <2>1
      <3>2. k < i => t[k] < t[i]
        BY <1>2, <1>3
      <3>3. k \in Nat /\ i \in Nat
        BY <1>2
      <3>. QED
        BY ONLY <3>1, <3>2, <3>3
    <2>. QED
      BY <1>2, <1>3, <1>6, <2>1, <2>2
  <1>9. CASE t[k] < s[k]
    <2>0. \A x \in S : \E i \in 1 .. c : s[i] = x
      BY <1>4
    <2>1. PICK i \in 1 .. c : s[i] = t[k]
      BY ONLY <1>7, <2>0, Zenon
    <2>2. i < k
      <3>1. s[i] < s[k] /\ s[i] \in Nat /\ s[k] \in Nat
        BY <1>2, <1>3, <1>9, <2>1
      <3>2. k < i => s[k] < s[i]
        BY <1>2, <1>3
      <3>3. k \in Nat /\ i \in Nat
        BY <1>2
      <3>. QED
        BY ONLY <3>1, <3>2, <3>3
    <2>. QED
      BY <1>2, <1>3, <1>6, <2>1, <2>2
  <1>. QED
    BY <1>2, <1>3, <1>6, <1>8, <1>9

(* A later position comes last.                                             *)
LEMMA ListGrows ==
    ASSUME NEW n \in Nat, NEW S \in SUBSET (1 .. n), NEW s, Lists(s, S),
           NEW m \in Nat, \A x \in S : x < m
    PROVE  /\ Lists(Append(s, m), S \cup {m})
           /\ Cardinality(S \cup {m}) = Cardinality(S) + 1
           /\ s \in Seq(S) /\ Len(s) = Cardinality(S)
  <1>0. PICK c : c = Cardinality(S)
    OBVIOUS
  <1>1. IsFiniteSet(S) /\ c \in Nat /\ m \notin S
    <2>1. IsFiniteSet(S) /\ c \in Nat
      BY <1>0, ListShape DEF IsList
    <2>2. ~(m < m)
      OBVIOUS
    <2>. QED
      BY <2>1, <2>2
  <1>2. Cardinality(S \cup {m}) = c + 1
    BY <1>0, <1>1, FS_AddElement
  <1>3. /\ s \in [1 .. c -> S] /\ s \in Seq(S) /\ Len(s) = c
        /\ \A i, j \in 1 .. c : i < j => s[i] < s[j]
        /\ \A i \in 1 .. c : s[i] \in S
    BY <1>0, ListShape DEF IsList
  <1>4. /\ Append(s, m) \in [1 .. c + 1 -> S \cup {m}]
        /\ \A i \in 1 .. c : Append(s, m)[i] = s[i] /\ s[i] < m
        /\ Append(s, m)[c + 1] = m
    <2>1. s \in Seq(S \cup {m})
      BY <1>1, <1>3
    <2>2. /\ Append(s, m) \in Seq(S \cup {m}) /\ Len(Append(s, m)) = c + 1
          /\ \A i \in 1 .. c : Append(s, m)[i] = s[i]
          /\ Append(s, m)[c + 1] = m
      BY <1>3, <2>1, AppendProperties
    <2>3. DOMAIN Append(s, m) = 1 .. c + 1
      BY <2>2
    <2>4. \A i \in 1 .. c : s[i] < m
      BY <1>3
    <2>. QED
      BY <2>2, <2>3, <2>4, LenProperties
  <1>5. Increasing(Append(s, m))
    <2>1. \A i, j \in 1 .. c + 1 : i < j => i \in 1 .. c
      BY <1>1
    <2>2. \A j \in 1 .. c + 1 : j = c + 1 \/ j \in 1 .. c
      BY <1>1
    <2>. QED
      BY <1>3, <1>4, <2>1, <2>2 DEF Increasing
  <1>. QED
    BY <1>0, <1>2, <1>3, <1>4, <1>5 DEF Lists

(* Every set of positions has a list.                                       *)
LEMMA ListExists ==
    ASSUME NEW n \in Nat, NEW S \in SUBSET (1 .. n)
    PROVE  \E s : Lists(s, S)
  <1> DEFINE D == 1 .. n
             G == {t \in SUBSET D : \E s : Lists(s, t)}
  <1>1. IsFiniteSet(D) /\ S \in SUBSET D
    BY FS_Interval
  <1>2. {} \in G
    <2>1. Cardinality({}) = 0
      BY FS_EmptySet
    <2>2. Lists(<<>>, {})
      BY <2>1 DEF Lists, Increasing
    <2>. QED
      BY <2>2
  <1>3. ASSUME NEW t \in SUBSET D, t # {}, \A x \in t : t \ {x} \in G
        PROVE  t \in G
    <2> DEFINE m == Max(t)
    <2>1. m \in t /\ \A j \in t : j <= m
      BY <1>3, MaximumExists
    <2> HIDE DEF m
    <2>2. PICK s : Lists(s, t \ {m})
      BY <1>3, <2>1
    <2>3. m \in Nat /\ t \ {m} \in SUBSET (1 .. n) /\ \A x \in t \ {m} : x < m
      BY <2>1
    <2>4. Lists(Append(s, m), (t \ {m}) \cup {m})
      BY <2>2, <2>3, ListGrows
    <2>5. (t \ {m}) \cup {m} = t
      BY <2>1
    <2>. QED
      BY <2>4, <2>5
  <1> HIDE DEF D, G
  <1>4. S \in G
    BY <1>1, <1>2, <1>3, FiniteSubsets
  <1>. QED
    BY <1>4 DEF G

LEMMA InWalkOrderLists ==
    ASSUME NEW n \in Nat, NEW S \in SUBSET (1 .. n)
    PROVE  Lists(InWalkOrder(S), S)
  <1>1. PICK s \in [1 .. Cardinality(S) -> S] : \A i, j \in DOMAIN s : i < j => s[i] < s[j]
    BY ListExists DEF Lists, Increasing
  <1>. QED
    BY <1>1 DEF InWalkOrder, Lists, Increasing

(* Files join the end of the order as the walk meets them.                  *)
LEMMA OrderGrows ==
    ASSUME NEW n \in Nat, NEW S \in SUBSET (1 .. n)
    PROVE  /\ InWalkOrder(S) \in Seq(S) /\ Len(InWalkOrder(S)) = Cardinality(S)
           /\ InWalkOrder(S \cup {n + 1}) = Append(InWalkOrder(S), n + 1)
  <1>1. n + 1 \in Nat /\ \A x \in S : x < n + 1
    OBVIOUS
  <1>2. Lists(InWalkOrder(S), S)
    BY InWalkOrderLists
  <1>3. /\ Lists(Append(InWalkOrder(S), n + 1), S \cup {n + 1})
        /\ InWalkOrder(S) \in Seq(S) /\ Len(InWalkOrder(S)) = Cardinality(S)
    BY <1>1, <1>2, ListGrows
  <1>4. S \cup {n + 1} \in SUBSET (1 .. n + 1)
    OBVIOUS
  <1>5. Lists(InWalkOrder(S \cup {n + 1}), S \cup {n + 1})
    BY <1>1, <1>4, InWalkOrderLists
  <1>. QED
    BY <1>1, <1>3, <1>4, <1>5, ListIsUnique

-----------------------------------------------------------------------------
(* The first files of a list *)

(* An element that all others reach is the least of a set of numbers.       *)
LEMMA Least ==
    ASSUME NEW s \in SUBSET Nat, NEW i \in s, \A j \in s : i <= j
    PROVE  Min(s) = i
  <1>1. \A x \in s : (\A y \in s : x <= y) => x = i
    OBVIOUS
  <1>. QED
    BY <1>1 DEF Min

LEMMA MinOfTwo ==
    ASSUME NEW a \in Nat, NEW b \in Nat
    PROVE  Min({a, b}) = IF a <= b THEN a ELSE b
  <1> DEFINE m == IF a <= b THEN a ELSE b
  <1>1. m \in {a, b} /\ \A y \in {a, b} : m <= y
    OBVIOUS
  <1>2. \A x \in {a, b} : (\A y \in {a, b} : x <= y) => x = m
    OBVIOUS
  <1> HIDE DEF m
  <1>3. Min({a, b}) = m
    BY <1>1, <1>2 DEF Min
  <1>. QED
    BY <1>3 DEF m

LEMMA MaxOfTwo ==
    ASSUME NEW a \in Nat, NEW b \in Nat
    PROVE  Max({a, b}) = IF a >= b THEN a ELSE b
  <1>1. CASE a >= b
    BY <1>1, Greatest
  <1>2. CASE ~(a >= b)
    BY <1>2, Greatest
  <1>. QED
    BY <1>1, <1>2

(* A list is its own beginning until it is as long as that, and the         *)
(* beginning stands from then on.                                           *)
LEMMA FirstFiles ==
    ASSUME NEW s \in Seq(Nat), NEW n \in Nat, NEW m \in Nat
    PROVE  /\ First(n, s) \in Seq(Nat)
           /\ Len(First(n, s)) = IF n <= Len(s) THEN n ELSE Len(s)
           /\ Len(s) <= n => First(n, s) = s
           /\ n <= Len(s) => First(n, Append(s, m)) = First(n, s)
           /\ \A i \in 1 .. Len(First(n, s)) : First(n, s)[i] = s[i]
  <1> DEFINE k == IF n <= Len(s) THEN n ELSE Len(s)
             t == Append(s, m)
  <1>1. Len(s) \in Nat
    BY LenProperties
  <1>2. First(n, s) = SubSeq(s, 1, k) /\ k \in Nat /\ k <= Len(s)
    BY <1>1, MinOfTwo DEF First
  <1>3. /\ t \in Seq(Nat) /\ Len(t) = Len(s) + 1
        /\ \A i \in 1 .. Len(s) : t[i] = s[i]
    BY <1>1, AppendProperties
  <1>4. n <= Len(s) => First(n, t) = SubSeq(t, 1, k) /\ k <= Len(t)
    BY <1>1, <1>3, MinOfTwo DEF First
  <1>5. k = Len(s) => SubSeq(s, 1, k) = s
    BY <1>1
  <1>6. n <= Len(s) => SubSeq(t, 1, k) = SubSeq(s, 1, k)
    <2> HIDE DEF k, t
    <2>. QED
      BY <1>1, <1>2, <1>3, <1>4
  <1>7. /\ SubSeq(s, 1, k) \in Seq(Nat) /\ Len(SubSeq(s, 1, k)) = k
        /\ \A i \in 1 .. k : SubSeq(s, 1, k)[i] = s[i]
    <2> HIDE DEF k, t
    <2>. QED
      BY <1>1, <1>2
  <1>. QED
    BY <1>1, <1>2, <1>4, <1>5, <1>6, <1>7

-----------------------------------------------------------------------------
(* One more entry *)

(* What the filters of ingest let pass with one --max-size, and what ends   *)
(* the command.                                                             *)
Passes(m, e) ==
    \/ m = NoMaxSize /\ e.kind \in {"file", "unreadable"} /\ e.ext \in Types
    \/ m # NoMaxSize /\ e.kind = "file" /\ e.ext \in Types /\ Size[e.content] <= m

Breaks(m, e) ==
    e.kind = "error" \/ (m # NoMaxSize /\ e.kind = "unreadable" /\ e.ext \in Types)

Passing(m) == {f \in DOMAIN walked : Passes(m, walked[f])}
Broken(m)  == {f \in DOMAIN walked : Breaks(m, walked[f])}
Failing == {f \in DOMAIN walked : ScanFails(walked[f])}

LEMMA Kinds ==
    ASSUME NEW e \in Entry
    PROVE  /\ e.kind \in {"file", "unreadable", "other", "error"}
           /\ e.kind = "file" => e.content \in Contents /\ e.ext \in Extensions
                                 /\ Size[e.content] \in Nat
  BY WalkAssumption DEF Entry

LEMMA WalkShape ==
    ASSUME walked \in Seq(Entry)
    PROVE  /\ Len(walked) \in Nat /\ DOMAIN walked = 1 .. Len(walked)
           /\ Profiled \in SUBSET (1 .. Len(walked)) /\ Failing \in SUBSET (1 .. Len(walked))
           /\ \A m \in MaxSizes : /\ Passing(m) \in SUBSET (1 .. Len(walked))
                                  /\ Broken(m) \in SUBSET (1 .. Len(walked))
           /\ \A f \in Profiled : SizeOf(f) \in Nat
  <1>1. Len(walked) \in Nat /\ DOMAIN walked = 1 .. Len(walked)
    BY LenProperties
  <1>2. \A f \in DOMAIN walked : walked[f] \in Entry
    BY <1>1, ElementOfSeq
  <1>. QED
    BY <1>1, <1>2, Kinds DEF Profiled, Passing, Broken, Failing, SizeOf

LEMMA Visited ==
    ASSUME walked \in Seq(Entry), NEW e \in Entry, walked' = Append(walked, e),
           NEW f, f = Len(walked) + 1
    PROVE  /\ walked' \in Seq(Entry) /\ Len(walked') = f /\ DOMAIN walked' = 1 .. f
           /\ walked'[f] = e /\ \A k \in DOMAIN walked : walked'[k] = walked[k]
           /\ Profiled' = Profiled \cup (IF e.kind = "file" THEN {f} ELSE {})
           /\ Failing' = Failing \cup (IF ScanFails(e) THEN {f} ELSE {})
           /\ \A m \in MaxSizes :
                /\ Passing(m)' = Passing(m) \cup (IF Passes(m, e) THEN {f} ELSE {})
                /\ Broken(m)' = Broken(m) \cup (IF Breaks(m, e) THEN {f} ELSE {})
  <1>1. /\ walked' \in Seq(Entry) /\ Len(walked') = f /\ DOMAIN walked' = 1 .. f
        /\ walked'[f] = e /\ \A k \in DOMAIN walked : walked'[k] = walked[k]
        /\ DOMAIN walked' = DOMAIN walked \cup {f} /\ f \notin DOMAIN walked
    BY WalkShape, AppendProperties
  <1>. QED
    BY <1>1 DEF Profiled, Passing, Broken, Failing

-----------------------------------------------------------------------------
(* The candidates of ingest *)

Most == Max({Limit, 1})

Wanted(m) == First(Most, InWalkOrder(Passing(m)))

SelectInv(m) ==
    /\ walked \in Seq(Entry)
    /\ DOMAIN collect = MaxSizes
    /\ collect[m] \in [files : Seq(Nat), state : {"walking", "limit", "failed"}]
    /\ collect[m].state = "limit" => collect[m].files = Wanted(m) /\ Cardinality(Passing(m)) >= Most
    /\ collect[m].state = "walking" =>
          /\ collect[m].files = InWalkOrder(Passing(m)) /\ Cardinality(Passing(m)) < Most
          /\ Broken(m) = {}
    /\ collect[m].state = "failed" =>
          \E f \in Broken(m) : collect[m].files = InWalkOrder({g \in Passing(m) : g < f})

(* SelectionIsExact for one --max-size, of what passes and what is broken.  *)
Exact(m, passing, broken) ==
    LET wanted == First(Max({Limit, 1}), InWalkOrder(passing))
        enough == Len(wanted) >= Max({Limit, 1})
    IN  /\ collect[m].state = "limit" => collect[m].files = wanted /\ enough
        /\ collect[m].state = "walking" =>
             collect[m].files = wanted /\ ~enough /\ broken = {}
        /\ collect[m].state = "failed" =>
             \E f \in broken : collect[m].files = InWalkOrder({g \in passing : g < f})

LEMMA MostIs == Most \in Nat /\ Most = IF Limit >= 1 THEN Limit ELSE 1
  BY WalkAssumption, MaxOfTwo DEF Most

LEMMA SInit == ASSUME Init, NEW m \in MaxSizes PROVE SelectInv(m)
  <1>1. walked = <<>> /\ walked \in Seq(Entry) /\ Passing(m) = {} /\ Broken(m) = {}
    BY DEF Init, Passing, Broken
  <1>2. /\ collect[m] = [files |-> <<>>, state |-> "walking"] /\ <<>> \in Seq(Nat)
        /\ DOMAIN collect = MaxSizes
    BY DEF Init
  <1>3. Cardinality({}) = 0
    BY FS_EmptySet
  <1>4. InWalkOrder({}) = <<>>
    <2>1. {} \in SUBSET (1 .. 0) /\ 0 \in Nat
      OBVIOUS
    <2>2. InWalkOrder({}) \in Seq({}) /\ Len(InWalkOrder({})) = 0
      BY <1>3, <2>1, OrderGrows
    <2>. QED
      BY <2>2, EmptySeq
  <1>. QED
    BY <1>1, <1>2, <1>3, <1>4, MostIs DEF SelectInv

(* The order of the files that pass, as an entry more is met.               *)
LEMMA PassingGrows ==
    ASSUME walked \in Seq(Entry), NEW e \in Entry, walked' = Append(walked, e),
           NEW f, f = Len(walked) + 1, NEW m \in MaxSizes
    PROVE  /\ InWalkOrder(Passing(m)) \in Seq(Nat)
           /\ Len(InWalkOrder(Passing(m))) = Cardinality(Passing(m)) /\ Cardinality(Passing(m)) \in Nat
           /\ Passes(m, e) => /\ InWalkOrder(Passing(m)') = Append(InWalkOrder(Passing(m)), f)
                           /\ Cardinality(Passing(m)') = Cardinality(Passing(m)) + 1
           /\ ~Passes(m, e) => Passing(m)' = Passing(m)
           /\ Cardinality(Passing(m)) >= Most =>
                 Wanted(m)' = Wanted(m) /\ Cardinality(Passing(m)') >= Most
  <1>1. /\ Len(walked) \in Nat /\ Passing(m) \in SUBSET (1 .. Len(walked))
        /\ f \in Nat /\ f \notin Passing(m)
    BY WalkShape
  <1>2. Passing(m)' = Passing(m) \cup (IF Passes(m, e) THEN {f} ELSE {})
    BY Visited
  <1>3. /\ InWalkOrder(Passing(m)) \in Seq(Passing(m))
        /\ Len(InWalkOrder(Passing(m))) = Cardinality(Passing(m))
        /\ InWalkOrder(Passing(m) \cup {f}) = Append(InWalkOrder(Passing(m)), f)
    BY <1>1, OrderGrows
  <1>4. InWalkOrder(Passing(m)) \in Seq(Nat)
    <2>1. Passing(m) \subseteq Nat
      BY <1>1
    <2>. QED
      BY ONLY <1>3, <2>1, SeqMonotonic
  <1>5. /\ IsFiniteSet(Passing(m)) /\ Cardinality(Passing(m)) \in Nat
    BY <1>1, PositionsAreFinite
  <1>6. Cardinality(Passing(m) \cup {f}) = Cardinality(Passing(m)) + 1
    BY <1>1, <1>5, FS_AddElement
  <1>7. Cardinality(Passing(m)) >= Most => First(Most, Append(InWalkOrder(Passing(m)), f)) = Wanted(m)
    <2>1. Most \in Nat
      BY MostIs
    <2>2. Most <= Len(InWalkOrder(Passing(m))) =>
             First(Most, Append(InWalkOrder(Passing(m)), f)) = First(Most, InWalkOrder(Passing(m)))
      BY ONLY <1>1, <1>4, <2>1, FirstFiles
    <2>. QED
      BY <1>3, <1>5, <2>1, <2>2 DEF Wanted
  <1>8. Wanted(m)' = First(Most, InWalkOrder(Passing(m)'))
    BY DEF Wanted, Most
  <1>9. CASE Passes(m, e)
    <2>1. Passing(m)' = Passing(m) \cup {f}
      BY <1>2, <1>9
    <2>2. /\ InWalkOrder(Passing(m)') = Append(InWalkOrder(Passing(m)), f)
          /\ Cardinality(Passing(m)') = Cardinality(Passing(m)) + 1
      BY <1>3, <1>6, <2>1
    <2>3. Cardinality(Passing(m)) >= Most => Wanted(m)' = Wanted(m)
      BY <1>7, <1>8, <2>2
    <2>4. Cardinality(Passing(m)) >= Most => Cardinality(Passing(m)') >= Most
      BY <1>5, <2>2, MostIs
    <2>. QED
      BY <1>3, <1>4, <1>5, <1>9, <2>2, <2>3, <2>4
  <1>10. CASE ~Passes(m, e)
    <2>1. Passing(m)' = Passing(m)
      BY <1>2, <1>10
    <2>. QED
      BY <1>3, <1>4, <1>5, <1>8, <1>10, <2>1 DEF Wanted
  <1>. QED
    BY <1>9, <1>10

LEMMA SVisit ==
    ASSUME NEW m \in MaxSizes, SelectInv(m), NEW e \in Entry, Visit(e)
    PROVE  SelectInv(m)'
  <1>1. PICK f : f = Len(walked) + 1
    OBVIOUS
  <1>2. /\ walked \in Seq(Entry) /\ walked' = Append(walked, e)
        /\ collect' = [n \in MaxSizes |-> Collect(n, f, e)]
    BY <1>1 DEF SelectInv, Visit
  <1>3. /\ walked' \in Seq(Entry) /\ f \in Nat
        /\ Passing(m)' = Passing(m) \cup (IF Passes(m, e) THEN {f} ELSE {})
        /\ Broken(m)' = Broken(m) \cup (IF Breaks(m, e) THEN {f} ELSE {})
        /\ \A g \in Passing(m) \cup Broken(m) : g \in Nat /\ g < f
    BY <1>1, <1>2, Visited, WalkShape
  <1>4. /\ InWalkOrder(Passing(m)) \in Seq(Nat)
        /\ Len(InWalkOrder(Passing(m))) = Cardinality(Passing(m)) /\ Cardinality(Passing(m)) \in Nat
        /\ Passes(m, e) => /\ InWalkOrder(Passing(m)') = Append(InWalkOrder(Passing(m)), f)
                        /\ Cardinality(Passing(m)') = Cardinality(Passing(m)) + 1
        /\ ~Passes(m, e) => Passing(m)' = Passing(m)
        /\ Cardinality(Passing(m)) >= Most => Wanted(m)' = Wanted(m) /\ Cardinality(Passing(m)') >= Most
    BY <1>1, <1>2, PassingGrows
  <1>5. /\ DOMAIN collect' = MaxSizes
        /\ collect'[m] = IF collect[m].state # "walking" THEN collect[m]
                         ELSE IF Breaks(m, e) THEN [collect[m] EXCEPT !.state = "failed"]
                         ELSE IF Passes(m, e) THEN Push(m, f) ELSE collect[m]
    BY <1>2 DEF Collect, Breaks, Passes
  <1>6. /\ collect[m] \in [files : Seq(Nat), state : {"walking", "limit", "failed"}]
        /\ Most' = Most /\ ~(Breaks(m, e) /\ Passes(m, e))
    BY DEF SelectInv, Most, Breaks, Passes
  <1>7. CASE collect[m].state = "limit"
    BY <1>3, <1>4, <1>5, <1>6, <1>7 DEF SelectInv
  <1>8. CASE collect[m].state = "failed"
    <2>1. PICK b \in Broken(m) : collect[m].files = InWalkOrder({g \in Passing(m) : g < b})
      BY <1>8 DEF SelectInv
    <2>2. {g \in Passing(m)' : g < b} = {g \in Passing(m) : g < b} /\ b \in Broken(m)'
      BY <1>3, <2>1
    <2>. QED
      BY <1>3, <1>5, <1>6, <1>8, <2>1, <2>2 DEF SelectInv
  <1>9. CASE collect[m].state = "walking" /\ Breaks(m, e)
    <2>1. collect'[m] = [collect[m] EXCEPT !.state = "failed"]
      BY <1>5, <1>9
    <2>2. {g \in Passing(m)' : g < f} = Passing(m) /\ f \in Broken(m)'
      BY <1>3, <1>6, <1>9
    <2>3. collect'[m].files = InWalkOrder(Passing(m))
      BY <1>6, <1>9, <2>1 DEF SelectInv
    <2>. QED
      BY <1>3, <1>5, <1>6, <2>1, <2>2, <2>3 DEF SelectInv
  <1>10. CASE collect[m].state = "walking" /\ ~Breaks(m, e) /\ Passes(m, e)
    <2>1. collect'[m] = Push(m, f)
      BY <1>5, <1>10
    <2>2. /\ collect[m].files = InWalkOrder(Passing(m)) /\ Cardinality(Passing(m)) < Most
          /\ Broken(m)' = {}
      BY <1>3, <1>10 DEF SelectInv
    <2>3. /\ collect'[m].files = InWalkOrder(Passing(m)') /\ collect'[m].files \in Seq(Nat)
          /\ collect'[m].state = IF Cardinality(Passing(m)') >= Limit THEN "limit" ELSE "walking"
      <3>1. /\ collect'[m].files = Append(collect[m].files, f)
            /\ collect'[m].state = IF Len(collect[m].files) + 1 >= Limit THEN "limit" ELSE "walking"
        BY <2>1 DEF Push
      <3>2. collect'[m].files = InWalkOrder(Passing(m)')
        BY <1>4, <1>10, <2>2, <3>1
      <3>3. collect'[m].files \in Seq(Nat)
        BY ONLY <1>3, <1>4, <2>2, <3>1, AppendProperties
      <3>4. Len(collect[m].files) + 1 = Cardinality(Passing(m)')
        BY <1>4, <1>10, <2>2
      <3>. QED
        BY <3>1, <3>2, <3>3, <3>4
    <2>4. collect'[m] \in [files : Seq(Nat), state : {"walking", "limit", "failed"}]
      BY <2>1, <2>3 DEF Push
    <2>5. CASE Cardinality(Passing(m)') >= Limit
      <3>1. Cardinality(Passing(m)') <= Most /\ Cardinality(Passing(m)') >= Most
        BY <1>4, <1>10, <2>2, <2>5, MostIs, WalkAssumption
      <3>2. First(Most, InWalkOrder(Passing(m)')) = InWalkOrder(Passing(m)')
        <4>1. Most \in Nat
          BY MostIs
        <4>2. Len(InWalkOrder(Passing(m)')) <= Most
          <5>1. Len(InWalkOrder(Passing(m)')) = Len(InWalkOrder(Passing(m))) + 1
            BY <1>3, <1>4, <1>10, AppendProperties
          <5>. QED
            BY <1>4, <1>10, <3>1, <5>1
        <4>. QED
          BY <2>3, <4>1, <4>2, FirstFiles
      <3>. QED
        BY <1>3, <1>5, <1>6, <2>3, <2>4, <2>5, <3>1, <3>2 DEF SelectInv, Wanted
    <2>6. CASE ~(Cardinality(Passing(m)') >= Limit)
      <3>1. Cardinality(Passing(m)') < Most
        BY <1>4, <1>10, <2>6, MostIs, WalkAssumption
      <3>. QED
        BY <1>3, <1>5, <1>6, <2>2, <2>3, <2>4, <2>6, <3>1 DEF SelectInv
    <2>. QED
      BY <2>5, <2>6
  <1>11. CASE collect[m].state = "walking" /\ ~Breaks(m, e) /\ ~Passes(m, e)
    <2>1. collect'[m] = collect[m] /\ Passing(m)' = Passing(m) /\ Broken(m)' = Broken(m)
      BY <1>3, <1>4, <1>5, <1>11
    <2>. QED
      BY <1>3, <1>5, <1>6, <1>11, <2>1 DEF SelectInv
  <1>. QED
    BY <1>6, <1>7, <1>8, <1>9, <1>10, <1>11

(* Nothing else touches the walk.                                           *)
LEMMA OtherSteps ==
    ASSUME [Next]_vars, ~(\E e \in Entry : Visit(e))
    PROVE  /\ walked' = walked /\ collect' = collect /\ scan' = scan /\ groups' = groups
           /\ largest' = largest /\ errors' = errors
  BY DEF Next, vars, walk, EndWalk, NextGroup, HashFile, Finish, Done

LEMMA SelectStep ==
    ASSUME NEW m \in MaxSizes, SelectInv(m), [Next]_vars
    PROVE  SelectInv(m)'
  <1>1. CASE \E e \in Entry : Visit(e)
    BY <1>1, SVisit
  <1>2. CASE ~(\E e \in Entry : Visit(e))
    <2>1. walked' = walked /\ collect' = collect
      BY <1>2, OtherSteps
    <2>. QED
      BY <2>1 DEF SelectInv, Wanted, Most, Passing, Broken
  <1>. QED
    BY <1>1, <1>2

(* The candidates are the files that pass, up to the limit, and nothing     *)
(* beyond the first failure, with and without --max-size (collect_files).   *)
THEOREM CandidatesAreExact == Spec => []SelectionIsExact
  <1> DEFINE Selected == \A m \in MaxSizes : SelectInv(m)
  <1>1. Selected => SelectionIsExact
    <2> SUFFICES ASSUME NEW m \in MaxSizes, SelectInv(m)
                 PROVE  LET named == {f \in DOMAIN walked :
                                       /\ walked[f].kind \in {"file", "unreadable"}
                                       /\ walked[f].ext \in Types}
                            passing == {f \in named :
                                         m # NoMaxSize => f \in Profiled /\ SizeOf(f) <= m}
                            broken == {f \in DOMAIN walked :
                                         \/ walked[f].kind = "error"
                                         \/ m # NoMaxSize /\ f \in named \ Profiled}
                        IN  Exact(m, passing, broken)
      BY Zenon DEF SelectionIsExact, Exact
    <2>1. {f \in {g \in DOMAIN walked : /\ walked[g].kind \in {"file", "unreadable"}
                                        /\ walked[g].ext \in Types} :
             m # NoMaxSize => f \in Profiled /\ SizeOf(f) <= m} = Passing(m)
      BY DEF Profiled, Passing, Passes, SizeOf
    <2>2. {f \in DOMAIN walked :
             \/ walked[f].kind = "error"
             \/ /\ m # NoMaxSize
                /\ f \in {g \in DOMAIN walked : /\ walked[g].kind \in {"file", "unreadable"}
                                                /\ walked[g].ext \in Types} \ Profiled}
             = Broken(m)
      BY DEF Broken, Breaks, Profiled
    <2>3. /\ InWalkOrder(Passing(m)) \in Seq(Nat)
          /\ Len(InWalkOrder(Passing(m))) = Cardinality(Passing(m)) /\ Cardinality(Passing(m)) \in Nat
      <3>1. Len(walked) \in Nat /\ Passing(m) \in SUBSET (1 .. Len(walked))
        BY WalkShape DEF SelectInv
      <3>2. /\ InWalkOrder(Passing(m)) \in Seq(Passing(m))
            /\ Len(InWalkOrder(Passing(m))) = Cardinality(Passing(m))
        BY <3>1, OrderGrows
      <3>3. Cardinality(Passing(m)) \in Nat
        BY <3>1, PositionsAreFinite
      <3>4. Passing(m) \subseteq Nat
        BY <3>1
      <3>5. InWalkOrder(Passing(m)) \in Seq(Nat)
        BY ONLY <3>2, <3>4, SeqMonotonic
      <3>. QED
        BY <3>2, <3>3, <3>5
    <2>4. /\ Len(Wanted(m)) = IF Most <= Cardinality(Passing(m)) THEN Most ELSE Cardinality(Passing(m))
          /\ Cardinality(Passing(m)) <= Most => Wanted(m) = InWalkOrder(Passing(m))
      BY <2>3, MostIs, FirstFiles DEF Wanted
    <2>5. SUFFICES Exact(m, Passing(m), Broken(m))
      BY <2>1, <2>2
    <2>6. Most \in Nat
      BY MostIs
    <2>7. CASE collect[m].state = "limit"
      BY <2>3, <2>4, <2>6, <2>7 DEF SelectInv, Exact, Wanted, Most
    <2>8. CASE collect[m].state = "walking"
      <3>1. Cardinality(Passing(m)) < Most /\ collect[m].files = InWalkOrder(Passing(m)) /\ Broken(m) = {}
        BY <2>8 DEF SelectInv
      <3>2. collect[m].files = Wanted(m) /\ ~(Len(Wanted(m)) >= Most)
        BY <2>3, <2>4, <2>6, <3>1
      <3>. QED
        BY <2>8, <3>1, <3>2 DEF Exact, Wanted, Most
    <2>9. CASE collect[m].state = "failed"
      BY <2>9 DEF SelectInv, Exact
    <2>. QED
      BY <2>7, <2>8, <2>9 DEF SelectInv
  <1>2. Init => Selected
    BY SInit
  <1>3. Selected /\ [Next]_vars => Selected'
    <2> SUFFICES ASSUME Selected, [Next]_vars, NEW m \in MaxSizes PROVE SelectInv(m)'
      OBVIOUS
    <2>. QED
      BY SelectStep
  <1> HIDE DEF Selected
  <1>. QED
    BY <1>1, <1>2, <1>3, PTL DEF Spec

-----------------------------------------------------------------------------
(* The files of scan *)

(* The order of a set of positions, as one more joins it.                   *)
LEMMA Joins ==
    ASSUME NEW n \in Nat, NEW S \in SUBSET (1 .. n)
    PROVE  /\ InWalkOrder(S) \in Seq(Nat) /\ Len(InWalkOrder(S)) = Cardinality(S)
           /\ Cardinality(S) \in Nat /\ IsFiniteSet(S)
           /\ Range(InWalkOrder(S)) = S
           /\ InWalkOrder(S \cup {n + 1}) = Append(InWalkOrder(S), n + 1)
           /\ Cardinality(S \cup {n + 1}) = Cardinality(S) + 1
  <1>0. PICK f, order, c : f = n + 1 /\ order = InWalkOrder(S) /\ c = Cardinality(S)
    OBVIOUS
  <1>1. /\ order \in Seq(S) /\ Len(order) = c
        /\ InWalkOrder(S \cup {f}) = Append(order, f)
    BY <1>0, OrderGrows
  <1>2. S \subseteq Nat /\ f \notin S
    BY <1>0
  <1>3. order \in Seq(Nat)
    BY ONLY <1>1, <1>2, SeqMonotonic
  <1>4. IsFiniteSet(S) /\ c \in Nat
    BY <1>0, PositionsAreFinite
  <1>5. Cardinality(S \cup {f}) = c + 1
    BY <1>0, <1>2, <1>4, FS_AddElement
  <1>6. Lists(order, S)
    BY <1>0, InWalkOrderLists
  <1>7. \A x \in S : \E i \in DOMAIN order : order[i] = x
    BY ONLY <1>6, ListHasAll, n \in Nat, S \in SUBSET (1 .. n)
  <1>8. \A i \in DOMAIN order : order[i] \in S
    BY <1>6 DEF Lists
  <1>9. Range(order) = S
    BY <1>7, <1>8 DEF Range
  <1>. QED
    BY <1>0, <1>1, <1>3, <1>4, <1>5, <1>9

(* The failures that come before some file of the list.                     *)
Met(files, failing) == {f \in failing : \E g \in Range(files) : f < g}

ScanInv ==
    /\ walked \in Seq(Entry)
    /\ scan \in [files : Seq(Nat), errors : Nat]
    /\ scan.files = First(Limit, InWalkOrder(Profiled))
    /\ scan.errors = Cardinality(IF Cardinality(Profiled) < Limit THEN Failing
                                 ELSE Met(scan.files, Failing))

LEMMA ScanInit == ASSUME Init PROVE ScanInv
  <1>1. walked = <<>> /\ walked \in Seq(Entry) /\ Profiled = {} /\ Failing = {}
    BY DEF Init, Profiled, Failing
  <1>2. scan = [files |-> <<>>, errors |-> 0] /\ <<>> \in Seq(Nat)
    BY DEF Init
  <1>3. Cardinality({}) = 0
    BY FS_EmptySet
  <1>4. InWalkOrder({}) = <<>>
    <2>1. {} \in SUBSET (1 .. 0) /\ 0 \in Nat
      OBVIOUS
    <2>2. InWalkOrder({}) \in Seq({}) /\ Len(InWalkOrder({})) = 0
      BY <1>3, <2>1, OrderGrows
    <2>. QED
      BY <2>2, EmptySeq
  <1>5. First(Limit, <<>>) = <<>>
    BY <1>2, WalkAssumption, FirstFiles
  <1>6. Met(<<>>, {}) = {}
    BY DEF Met
  <1>. QED
    BY <1>1, <1>2, <1>3, <1>4, <1>5, <1>6 DEF ScanInv

LEMMA ScanVisit == ASSUME ScanInv, NEW e \in Entry, Visit(e) PROVE ScanInv'
  <1>1. PICK f : f = Len(walked) + 1
    OBVIOUS
  <1>0. PICK order, c, files :
            order = InWalkOrder(Profiled) /\ c = Cardinality(Profiled) /\ files = scan.files
    OBVIOUS
  <1>2. walked \in Seq(Entry) /\ walked' = Append(walked, e) /\ Scan(f, e)
    BY <1>1 DEF ScanInv, Visit
  <1>3. /\ walked' \in Seq(Entry) /\ Len(walked) \in Nat /\ f \in Nat
        /\ Profiled' = Profiled \cup (IF e.kind = "file" THEN {f} ELSE {})
        /\ Failing' = Failing \cup (IF ScanFails(e) THEN {f} ELSE {})
        /\ Profiled \in SUBSET (1 .. Len(walked)) /\ Failing \in SUBSET (1 .. Len(walked))
    BY <1>1, <1>2, Visited, WalkShape
  <1>4. /\ order \in Seq(Nat) /\ Len(order) = c /\ c \in Nat /\ Range(order) = Profiled
        /\ InWalkOrder(Profiled \cup {f}) = Append(order, f)
        /\ Cardinality(Profiled \cup {f}) = c + 1
    <2>1. Len(walked) \in Nat /\ Profiled \in SUBSET (1 .. Len(walked))
      BY <1>3
    <2>. QED
      BY <1>0, <1>1, <2>1, Joins
  <1>5. /\ Cardinality(Failing \cup {f}) = Cardinality(Failing) + 1
        /\ f \notin Failing /\ Cardinality(Failing) \in Nat
    <2>1. f \notin Failing
      BY <1>1, <1>3
    <2>. QED
      BY <1>3, <2>1, PositionsAreFinite, FS_AddElement
  <1>6. /\ files \in Seq(Nat) /\ scan.errors \in Nat /\ files = First(Limit, order)
        /\ scan = [files |-> files, errors |-> scan.errors]
        /\ scan.errors = Cardinality(IF c < Limit THEN Failing ELSE Met(files, Failing))
    BY <1>0 DEF ScanInv
  <1>7. /\ Limit \in Nat
        /\ Len(files) = IF Limit <= c THEN Limit ELSE c
        /\ c <= Limit => files = order
        /\ Limit <= c => First(Limit, Append(order, f)) = files
        /\ \A i \in 1 .. Len(files) : files[i] = order[i]
    <2>1. Limit \in Nat
      BY WalkAssumption
    <2>2. /\ Len(files) = IF Limit <= Len(order) THEN Limit ELSE Len(order)
          /\ Len(order) <= Limit => files = order
          /\ Limit <= Len(order) => First(Limit, Append(order, f)) = First(Limit, order)
          /\ \A i \in 1 .. Len(files) : files[i] = order[i]
      BY ONLY <1>3, <1>4, <1>6, <2>1, FirstFiles
    <2>. QED
      BY <1>4, <1>6, <2>1, <2>2
  <1>8. ScanInv' <=>
          /\ scan' \in [files : Seq(Nat), errors : Nat]
          /\ scan'.files = First(Limit, InWalkOrder(Profiled'))
          /\ scan'.errors = Cardinality(IF Cardinality(Profiled') < Limit THEN Failing'
                                        ELSE Met(scan'.files, Failing'))
    BY <1>3 DEF ScanInv, First, InWalkOrder, Met
  <1>9. CASE Limit <= c
    <2>1. scan' = scan
      BY <1>0, <1>2, <1>4, <1>7, <1>9 DEF Scan
    <2>2. First(Limit, InWalkOrder(Profiled')) = files /\ Cardinality(Profiled') >= Limit
      <3>1. CASE e.kind = "file"
        <4>1. Profiled' = Profiled \cup {f}
          BY <1>3, <3>1
        <4>2. InWalkOrder(Profiled') = Append(order, f)
          BY <1>4, <4>1
        <4>3. Cardinality(Profiled') = c + 1
          BY <1>4, <4>1
        <4>. QED
          BY <1>4, <1>7, <1>9, <4>2, <4>3
      <3>2. CASE e.kind # "file"
        <4>1. Profiled' = Profiled
          BY <1>3, <3>2
        <4>. QED
          BY <1>0, <1>4, <1>6, <1>9, <4>1
      <3>. QED
        BY <3>1, <3>2
    <2>3. Met(files, Failing') = Met(files, Failing)
      <3>1. \A g \in Range(files) : g \in Profiled
        <4>1. \A i \in 1 .. Len(files) : files[i] \in Range(order)
          <5>1. Len(files) <= Len(order) /\ Len(files) \in Nat
            BY <1>4, <1>7
          <5>. QED
            BY <1>4, <1>7, <5>1 DEF Range
        <4>2. \A g \in Range(files) : \E i \in 1 .. Len(files) : g = files[i]
          BY <1>6 DEF Range
        <4>. QED
          BY <1>4, <4>1, <4>2
      <3>0. \A g \in Profiled : g \in Nat /\ g < f
        BY <1>1, <1>3
      <3>2. \A g \in Range(files) : g \in Nat /\ g < f
        BY <3>0, <3>1
      <3>3. ~\E g \in Range(files) : f < g
        BY <1>3, <3>2
      <3>. QED
        BY <1>3, <3>3 DEF Met
    <2>4. Cardinality(Profiled') \in Nat
      <3>1. Profiled' = Profiled \/ Profiled' = Profiled \cup {f}
        BY <1>3
      <3>2. Cardinality(Profiled) \in Nat /\ Cardinality(Profiled \cup {f}) \in Nat
        BY <1>0, <1>4
      <3>. QED
        BY <3>1, <3>2
    <2>5. scan' = [files |-> files, errors |-> Cardinality(Met(files, Failing))]
      BY <1>4, <1>6, <1>7, <1>9, <2>1
    <2>. QED
      <3>1. Cardinality(Met(files, Failing)) \in Nat
        BY <1>4, <1>6, <1>7, <1>9
      <3>2. ~(Cardinality(Profiled') < Limit)
        BY <1>7, <2>2, <2>4
      <3>. QED
        BY <1>6, <1>8, <2>2, <2>3, <2>5, <3>1, <3>2
  <1>10. CASE ~(Limit <= c)
    <2>1. /\ files = order /\ Len(files) = c /\ c < Limit
          /\ scan.errors = Cardinality(Failing)
      BY <1>4, <1>6, <1>7, <1>10
    <2>2. CASE ScanFails(e)
      <3>1. Profiled' = Profiled /\ Failing' = Failing \cup {f}
        BY <1>3, <2>2 DEF ScanFails
      <3>2. scan' = [scan EXCEPT !.errors = @ + 1]
        BY <1>0, <1>2, <1>4, <1>7, <2>1, <2>2 DEF Scan
      <3>3. scan' = [files |-> files, errors |-> Cardinality(Failing) + 1]
        BY <1>6, <2>1, <3>2
      <3>4. Cardinality(Failing') = Cardinality(Failing) + 1 /\ Cardinality(Profiled') = c
        BY <1>0, <1>5, <3>1
      <3>5. First(Limit, InWalkOrder(Profiled')) = files
        BY <1>0, <1>6, <3>1
      <3>. QED
        BY <1>5, <1>6, <1>8, <2>1, <3>3, <3>4, <3>5
    <2>3. CASE e.kind = "file"
      <3>1. Profiled' = Profiled \cup {f} /\ Failing' = Failing
        BY <1>3, <2>3 DEF ScanFails
      <3>2. scan' = [scan EXCEPT !.files = Append(@, f)]
        BY <1>0, <1>2, <1>4, <1>7, <2>1, <2>3 DEF Scan, ScanFails
      <3>3. scan' = [files |-> Append(files, f), errors |-> scan.errors]
        BY <1>0, <1>6, <3>2
      <3>4. /\ Append(files, f) = InWalkOrder(Profiled') /\ Append(files, f) \in Seq(Nat)
            /\ Len(Append(files, f)) = c + 1 /\ Cardinality(Profiled') = c + 1
        <4>1. Append(files, f) \in Seq(Nat) /\ Len(Append(files, f)) = c + 1
          BY ONLY <1>3, <1>4, <1>6, <2>1, AppendProperties
        <4>. QED
          BY <1>4, <2>1, <3>1, <4>1
      <3>5. First(Limit, InWalkOrder(Profiled')) = Append(files, f)
        <4>1. Len(Append(files, f)) <= Limit
          BY <1>4, <1>7, <2>1, <3>4
        <4>2. First(Limit, Append(files, f)) = Append(files, f)
          BY <1>7, <3>4, <4>1, FirstFiles
        <4>. QED
          BY <3>4, <4>2
      <3>6. Met(Append(files, f), Failing) = Failing
        <4>1. f \in Range(Append(files, f))
          <5>1. c + 1 \in DOMAIN Append(files, f) /\ Append(files, f)[c + 1] = f
            BY <1>3, <1>4, <1>6, <2>1, AppendProperties
          <5>. QED
            BY <5>1 DEF Range
        <4>2. \A k \in Failing : k < f
          BY <1>1, <1>3
        <4>. QED
          BY <4>1, <4>2 DEF Met
      <3>. QED
        BY <1>6, <1>8, <2>1, <3>1, <3>3, <3>4, <3>5, <3>6
    <2>4. CASE ~ScanFails(e) /\ e.kind # "file"
      <3>1. scan' = scan /\ Profiled' = Profiled /\ Failing' = Failing
        BY <1>2, <1>3, <1>4, <1>7, <2>1, <2>4 DEF Scan
      <3>. QED
        BY <1>6, <1>8, <3>1 DEF ScanInv
    <2>. QED
      BY <2>2, <2>3, <2>4
  <1>. QED
    BY <1>9, <1>10

LEMMA ScanStep == ASSUME ScanInv, [Next]_vars PROVE ScanInv'
  <1>1. CASE \E e \in Entry : Visit(e)
    BY <1>1, ScanVisit
  <1>2. CASE ~(\E e \in Entry : Visit(e))
    <2>1. walked' = walked /\ scan' = scan
      BY <1>2, OtherSteps
    <2>. QED
      BY <2>1 DEF ScanInv, Profiled, Failing
  <1>. QED
    BY <1>1, <1>2

(* scan lists the first files of the walk and counts the failures before    *)
(* the last of them, all of them when the files run out (the loop of scan).  *)
THEOREM ScanStopsAtTheLimit == Spec => []ScanIsABeginning
  <1>1. ScanInv => ScanIsABeginning
    <2> SUFFICES ASSUME ScanInv PROVE ScanIsABeginning
      OBVIOUS
    <2>1. /\ Len(walked) \in Nat /\ Profiled \in SUBSET (1 .. Len(walked))
          /\ DOMAIN walked = 1 .. Len(walked)
      BY WalkShape DEF ScanInv
    <2>2. /\ InWalkOrder(Profiled) \in Seq(Nat)
          /\ Len(InWalkOrder(Profiled)) = Cardinality(Profiled) /\ Cardinality(Profiled) \in Nat
      BY <2>1, Joins
    <2>3. Limit \in Nat
      BY WalkAssumption
    <2>4. Len(scan.files) = IF Limit <= Cardinality(Profiled) THEN Limit ELSE Cardinality(Profiled)
      BY <2>2, <2>3, FirstFiles DEF ScanInv
    <2>5. Len(scan.files) < Limit <=> Cardinality(Profiled) < Limit
      BY <2>2, <2>3, <2>4
    <2> DEFINE seen == IF Len(scan.files) < Limit THEN DOMAIN walked
                       ELSE {f \in DOMAIN walked : \E g \in Range(scan.files) : f < g}
    <2>6. {f \in seen : ScanFails(walked[f])} =
             IF Cardinality(Profiled) < Limit THEN Failing ELSE Met(scan.files, Failing)
      BY <2>5 DEF Failing, Met
    <2>7. scan.files = First(Limit, InWalkOrder(Profiled))
      BY DEF ScanInv
    <2>8. scan.errors = Cardinality({f \in seen : ScanFails(walked[f])})
      BY <2>6 DEF ScanInv
    <2>. QED
      BY <2>7, <2>8 DEF ScanIsABeginning
  <1>. QED
    BY <1>1, ScanInit, ScanStep, PTL DEF Spec

-----------------------------------------------------------------------------
(* The groups of profile *)

(* What GroupStats::add keeps of the sizes sz of the files of a group.      *)
Describes(g, sz) ==
    /\ g \in [count : Nat, total_bytes : Nat, min_bytes : Nat, max_bytes : Nat,
              largest_path : Nat]
    /\ g.count = Cardinality(DOMAIN sz) /\ g.total_bytes = SumFunction(sz)
    /\ \A f \in DOMAIN sz : g.min_bytes <= sz[f] /\ sz[f] <= g.max_bytes
    /\ DOMAIN sz # {} => \E f \in DOMAIN sz : sz[f] = g.min_bytes
    /\ g.max_bytes # 0 =>
          /\ g.largest_path \in DOMAIN sz /\ sz[g.largest_path] = g.max_bytes
          /\ \A f \in DOMAIN sz : sz[f] = g.max_bytes => g.largest_path <= f
    /\ g.max_bytes = 0 => g.largest_path = 0

LEMMA NothingToDescribe ==
    ASSUME NEW sz, DOMAIN sz = {}, sz \in [{} -> Nat]
    PROVE  Describes(NoStats, sz)
  <1>1. Cardinality({}) = 0 /\ IsFiniteSet({})
    BY FS_EmptySet
  <1>2. SumFunction(sz) = Cardinality(Cells(sz, {}))
    BY <1>1, SumIsCells
  <1>3. Cells(sz, {}) = {}
    BY DEF Cells
  <1>. QED
    BY <1>1, <1>2, <1>3 DEF Describes, NoStats

LEMMA AddDescribes ==
    ASSUME NEW n \in Nat, NEW S \in SUBSET (1 .. n), NEW sz \in [S -> Nat], NEW v \in Nat,
           NEW g, Describes(g, sz), NEW f \in Nat, \A y \in S : y < f,
           NEW tz, tz \in [S \cup {f} -> Nat], tz[f] = v, \A y \in S : tz[y] = sz[y]
    PROVE  Describes(Add(g, f, v), tz)
  <1> DEFINE h == Add(g, f, v)
  <1>1. /\ g \in [count : Nat, total_bytes : Nat, min_bytes : Nat, max_bytes : Nat,
                  largest_path : Nat]
        /\ g.count = Cardinality(S) /\ g.total_bytes = SumFunction(sz)
        /\ \A y \in S : g.min_bytes <= sz[y] /\ sz[y] <= g.max_bytes
        /\ S # {} => \E y \in S : sz[y] = g.min_bytes
        /\ g.max_bytes # 0 =>
              /\ g.largest_path \in S /\ sz[g.largest_path] = g.max_bytes
              /\ \A y \in S : sz[y] = g.max_bytes => g.largest_path <= y
        /\ g.max_bytes = 0 => g.largest_path = 0
    BY DEF Describes
  <1>2. f \in Nat /\ f \notin S /\ \A y \in S : y \in Nat /\ y < f
    <2>1. ~(f < f)
      OBVIOUS
    <2>. QED
      BY <2>1
  <1>3. IsFiniteSet(S) /\ Cardinality(S) \in Nat
    BY PositionsAreFinite
  <1>4. DOMAIN tz = S \cup {f} /\ tz[f] = v /\ \A y \in S : tz[y] = sz[y]
    BY <1>2
  <1>5. Cardinality(S \cup {f}) = Cardinality(S) + 1
    BY <1>2, <1>3, FS_AddElement
  <1>6. SumFunction(tz) = SumFunction(sz) + v
    <2>1. PICK E, old, new, x, D : E = S \cup {f} /\ old = sz /\ new = tz /\ x = f /\ D = S
      OBVIOUS
    <2>2. /\ IsFiniteSet(E) /\ x \in E /\ D = E \ {x}
          /\ new \in [E -> Nat] /\ old \in [D -> Nat] /\ \A y \in D : new[y] = old[y]
      <3>1. IsFiniteSet(E) /\ x \in E /\ D = E \ {x}
        BY <1>2, <1>3, <2>1, FS_AddElement
      <3>2. new \in [E -> Nat] /\ old \in [D -> Nat]
        BY <2>1
      <3>3. \A y \in D : new[y] = old[y]
        BY <1>4, <2>1
      <3>. QED
        BY <3>1, <3>2, <3>3
    <2>3. SumFunction(new) = SumFunction(old) + new[x]
      BY ONLY <2>2, OneMoreTerm, SMTT(30)
    <2>. QED
      BY <1>4, <2>1, <2>3
  <1>7. S = {} <=> g.count = 0
    BY <1>1, <1>3, FS_EmptySet
  <1>8. /\ h.count = g.count + 1 /\ h.total_bytes = g.total_bytes + v
        /\ h.min_bytes = IF S = {} \/ v < g.min_bytes THEN v ELSE g.min_bytes
        /\ h.max_bytes = IF v > g.max_bytes THEN v ELSE g.max_bytes
        /\ h.largest_path = IF v > g.max_bytes THEN f ELSE g.largest_path
        /\ h = [count |-> h.count, total_bytes |-> h.total_bytes, min_bytes |-> h.min_bytes,
                max_bytes |-> h.max_bytes, largest_path |-> h.largest_path]
    BY <1>7 DEF Add
  <1> HIDE DEF h
  <1>9. h \in [count : Nat, total_bytes : Nat, min_bytes : Nat, max_bytes : Nat,
               largest_path : Nat]
    BY <1>1, <1>2, <1>8
  <1>10. \A y \in S \cup {f} : h.min_bytes <= tz[y] /\ tz[y] <= h.max_bytes
    BY <1>1, <1>4, <1>8
  <1>11. \E y \in S \cup {f} : tz[y] = h.min_bytes
    BY <1>1, <1>4, <1>8
  <1>12. h.max_bytes # 0 =>
            /\ h.largest_path \in S \cup {f} /\ tz[h.largest_path] = h.max_bytes
            /\ \A y \in S \cup {f} : tz[y] = h.max_bytes => h.largest_path <= y
    <2>1. CASE v > g.max_bytes
      BY <1>1, <1>2, <1>4, <1>8, <2>1
    <2>2. CASE ~(v > g.max_bytes)
      BY <1>1, <1>2, <1>4, <1>8, <2>2
    <2>. QED
      BY <2>1, <2>2
  <1>13. h.max_bytes = 0 => h.largest_path = 0
    BY <1>1, <1>8
  <1>14. h.count = Cardinality(S \cup {f}) /\ h.total_bytes = SumFunction(tz)
    BY <1>1, <1>5, <1>6, <1>8
  <1>15. Describes(h, tz)
    BY <1>4, <1>9, <1>10, <1>11, <1>12, <1>13, <1>14 DEF Describes
  <1>. QED
    BY <1>15 DEF h

Members(x) == {f \in Profiled : walked[f].ext = x}

SizesIn(x) == [f \in Members(x) |-> SizeOf(f)]

GroupsInv ==
    /\ walked \in Seq(Entry) /\ DOMAIN groups = Extensions
    /\ \A x \in Extensions : Describes(groups[x], SizesIn(x))

LEMMA GroupsInit == ASSUME Init PROVE GroupsInv
  <1>1. walked = <<>> /\ walked \in Seq(Entry) /\ groups = [x \in Extensions |-> NoStats]
    BY DEF Init
  <1>2. ASSUME NEW x \in Extensions PROVE Describes(groups[x], SizesIn(x))
    <2>1. Members(x) = {}
      BY <1>1 DEF Members, Profiled
    <2>2. SizesIn(x) \in [{} -> Nat] /\ DOMAIN SizesIn(x) = {}
      BY <2>1 DEF SizesIn
    <2>. QED
      BY <1>1, <2>2, NothingToDescribe
  <1>. QED
    BY <1>1, <1>2 DEF GroupsInv

LEMMA GroupsVisit == ASSUME GroupsInv, NEW e \in Entry, Visit(e) PROVE GroupsInv'
  <1>1. PICK n : n = Len(walked)
    OBVIOUS
  <1>2. /\ walked \in Seq(Entry) /\ walked' = Append(walked, e) /\ Profile(n + 1, e)
        /\ DOMAIN groups = Extensions
    BY <1>1 DEF GroupsInv, Visit
  <1>3. /\ walked' \in Seq(Entry) /\ n \in Nat /\ DOMAIN walked = 1 .. n
        /\ walked'[n + 1] = e /\ \A k \in DOMAIN walked : walked'[k] = walked[k]
        /\ Profiled' = Profiled \cup (IF e.kind = "file" THEN {n + 1} ELSE {})
        /\ Profiled \in SUBSET (1 .. n)
        /\ \A f \in Profiled : SizeOf(f) \in Nat
    BY <1>1, <1>2, Visited, WalkShape
  <1>4. ASSUME NEW x \in Extensions, ~(e.kind = "file" /\ e.ext = x)
        PROVE  SizesIn(x)' = SizesIn(x) /\ groups'[x] = groups[x]
    <2>1. Members(x)' = Members(x)
      BY <1>3, <1>4 DEF Members
    <2>2. \A f \in Members(x) : SizeOf(f)' = SizeOf(f)
      BY <1>3 DEF Members, SizeOf
    <2>3. groups'[x] = groups[x]
      BY <1>2, <1>4, Kinds DEF Profile
    <2>. QED
      BY <2>1, <2>2, <2>3 DEF SizesIn
  <1>5. ASSUME NEW x \in Extensions, e.kind = "file", e.ext = x
        PROVE  Describes(groups'[x], SizesIn(x)')
    <2>1. Members(x)' = Members(x) \cup {n + 1} /\ Members(x) \in SUBSET (1 .. n)
      BY <1>3, <1>5 DEF Members
    <2>2. PICK v : v = Size[e.content] /\ v \in Nat
      BY <1>5, Kinds
    <2>3. \A f \in Members(x) : SizeOf(f)' = SizeOf(f) /\ f # n + 1
      <3>1. \A f \in Members(x) : f \in 1 .. n
        BY <1>3 DEF Members
      <3>. QED
        BY <1>3, <3>1 DEF SizeOf
    <2>4. SizeOf(n + 1)' = v
      BY <1>3, <2>2 DEF SizeOf
    <2>5. PICK S, sz : S = Members(x) /\ sz = SizesIn(x)
      OBVIOUS
    <2>6. sz \in [S -> Nat] /\ \A f \in S : sz[f] = SizeOf(f)
      BY <1>3, <2>5 DEF Members, SizesIn
    <2>7. SizesIn(x)' = [y \in S \cup {n + 1} |-> IF y = n + 1 THEN v ELSE sz[y]]
      BY <2>1, <2>3, <2>4, <2>5, <2>6 DEF SizesIn
    <2>8. groups'[x] = Add(groups[x], n + 1, v)
      BY <1>2, <1>5, <2>2 DEF Profile
    <2>9. Describes(groups[x], sz)
      BY <2>5 DEF GroupsInv
    <2>. QED
      <3>1. PICK f, tz, g : /\ f = n + 1 /\ g = groups[x]
                            /\ tz = [y \in S \cup {f} |-> IF y = f THEN v ELSE sz[y]]
        OBVIOUS
      <3>2. n \in Nat /\ S \in SUBSET (1 .. n) /\ sz \in [S -> Nat] /\ v \in Nat
        <4>1. n \in Nat
          BY <1>3
        <4>2. S \in SUBSET (1 .. n)
          BY <2>1, <2>5
        <4>. QED
          BY ONLY <4>1, <4>2, <2>2, <2>6
      <3>3. f \in Nat /\ \A y \in S : y < f
        BY ONLY <3>1, <3>2
      <3>4. tz \in [S \cup {f} -> Nat] /\ tz[f] = v /\ \A y \in S : tz[y] = sz[y]
        <4>1. f \notin S
          BY <3>3
        <4>. QED
          BY ONLY <3>1, <3>2, <4>1
      <3>5. Describes(g, sz)
        BY <2>9, <3>1
      <3>6. Describes(Add(g, f, v), tz)
        BY ONLY <3>2, <3>3, <3>4, <3>5, AddDescribes, SMTT(30)
      <3>. QED
        BY <2>7, <2>8, <3>1, <3>6
  <1>6. DOMAIN groups' = Extensions
    BY <1>2, Kinds DEF Profile
  <1>7. \A x \in Extensions : Describes(groups'[x], SizesIn(x)')
    BY <1>4, <1>5 DEF GroupsInv
  <1>. QED
    BY <1>3, <1>6, <1>7 DEF GroupsInv, Describes

LEMMA GroupsStep == ASSUME GroupsInv, [Next]_vars PROVE GroupsInv'
  <1>1. CASE \E e \in Entry : Visit(e)
    BY <1>1, GroupsVisit
  <1>2. CASE ~(\E e \in Entry : Visit(e))
    <2>1. walked' = walked /\ groups' = groups
      BY <1>2, OtherSteps
    <2>2. \A x : SizesIn(x)' = SizesIn(x)
      BY <2>1 DEF SizesIn, Members, Profiled, SizeOf
    <2>. QED
      BY <2>1, <2>2 DEF GroupsInv, Describes
  <1>. QED
    BY <1>1, <1>2

(* The statistics of an extension are those of its files, whatever was      *)
(* forgotten of them (GroupStats::add).                                     *)
THEOREM GroupsDescribeTheWalk == Spec => []GroupsAddUp
  <1>1. GroupsInv => GroupsAddUp
    <2> SUFFICES ASSUME GroupsInv, NEW x \in Extensions, NEW M, M = Members(x)
                 PROVE  /\ groups[x].count = Cardinality(M)
                        /\ groups[x].total_bytes = SumOver(M, SizeOf)
                        /\ M # {} => /\ groups[x].min_bytes = Min({SizeOf(f) : f \in M})
                                     /\ groups[x].max_bytes = Max({SizeOf(f) : f \in M})
                        /\ IF groups[x].max_bytes = 0 THEN groups[x].largest_path = 0
                           ELSE groups[x].largest_path =
                                  Min({f \in M : SizeOf(f) = groups[x].max_bytes})
      BY DEF GroupsAddUp, Members
    <2>1. M \in SUBSET Nat /\ \A f \in M : SizeOf(f) \in Nat
      <3>1. Profiled \in SUBSET (1 .. Len(walked)) /\ Len(walked) \in Nat
            /\ \A f \in Profiled : SizeOf(f) \in Nat
        BY WalkShape DEF GroupsInv
      <3>2. M \subseteq Profiled
        BY DEF Members
      <3>3. Profiled \subseteq Nat
        BY <3>1
      <3>. QED
        BY <3>1, <3>2, <3>3
    <2>2. PICK g, sz : g = groups[x] /\ sz = SizesIn(x)
      OBVIOUS
    <2>3. DOMAIN sz = M /\ \A f \in M : sz[f] = SizeOf(f)
      BY <2>2 DEF SizesIn
    <2>4. /\ g \in [count : Nat, total_bytes : Nat, min_bytes : Nat, max_bytes : Nat,
                    largest_path : Nat]
          /\ g.count = Cardinality(M) /\ g.total_bytes = SumFunction(sz)
          /\ \A f \in M : g.min_bytes <= SizeOf(f) /\ SizeOf(f) <= g.max_bytes
          /\ M # {} => \E f \in M : SizeOf(f) = g.min_bytes
          /\ g.max_bytes # 0 =>
                /\ g.largest_path \in M /\ SizeOf(g.largest_path) = g.max_bytes
                /\ \A f \in M : SizeOf(f) = g.max_bytes => g.largest_path <= f
          /\ g.max_bytes = 0 => g.largest_path = 0
      <3>1. Describes(g, sz)
        BY <2>2 DEF GroupsInv
      <3>. QED
        BY <2>3, <3>1 DEF Describes
    <2>5. g.total_bytes = SumOver(M, SizeOf)
      BY <2>2, <2>4 DEF SumOver, SizesIn
    <2>6. ASSUME M # {}
          PROVE  g.min_bytes = Min({SizeOf(f) : f \in M}) /\ g.max_bytes = Max({SizeOf(f) : f \in M})
      <3> DEFINE sizes == {SizeOf(f) : f \in M}
      <3>1. sizes \in SUBSET Nat
        BY <2>1
      <3>2. g.min_bytes \in sizes /\ \A j \in sizes : g.min_bytes <= j
        BY <2>4, <2>6
      <3>3. g.max_bytes \in sizes /\ \A j \in sizes : j <= g.max_bytes
        <4>1. \E f \in M : SizeOf(f) = g.max_bytes
          <5>1. CASE g.max_bytes = 0
            BY <2>1, <2>4, <2>6, <5>1
          <5>2. CASE g.max_bytes # 0
            BY <2>4, <5>2
          <5>. QED
            BY <5>1, <5>2
        <4>. QED
          BY <2>4, <4>1
      <3> HIDE DEF sizes
      <3>4. Min(sizes) = g.min_bytes
        BY <3>1, <3>2, Least
      <3>5. Max(sizes) = g.max_bytes
        BY <3>1, <3>3, Greatest
      <3>. QED
        BY <3>4, <3>5 DEF sizes
    <2>7. ASSUME g.max_bytes # 0
          PROVE  g.largest_path = Min({f \in M : SizeOf(f) = g.max_bytes})
      <3> DEFINE ties == {f \in M : SizeOf(f) = g.max_bytes}
      <3>1. ties \in SUBSET Nat /\ g.largest_path \in ties /\ \A j \in ties : g.largest_path <= j
        BY <2>1, <2>4, <2>7
      <3> HIDE DEF ties
      <3>2. Min(ties) = g.largest_path
        BY <3>1, Least
      <3>. QED
        BY <3>2 DEF ties
    <2>. QED
      BY <2>2, <2>4, <2>5, <2>6, <2>7
  <1>. QED
    BY <1>1, GroupsInit, GroupsStep, PTL DEF Spec

-----------------------------------------------------------------------------
(* The order of the largest files *)

(* The files S have sizes sz.                                               *)
Sized(sz, S) == \A f \in S : sz[f] \in Nat

(* Of the files S, with their sizes sz, q is listed before p.               *)
Ahead(sz, q, p) == sz[q] > sz[p] \/ (sz[q] = sz[p] /\ q < p)

Before(sz, S, p) == {q \in S : Ahead(sz, q, p)}

Place(sz, S, p) == Cardinality(Before(sz, S, p))

LEMMA SameSize ==
    ASSUME NEW A, IsFiniteSet(A), NEW B, NEW f \in [A -> B],
           \A x, y \in A : f[x] = f[y] => x = y, \A b \in B : \E x \in A : f[x] = b
    PROVE  IsFiniteSet(B) /\ Cardinality(B) = Cardinality(A)
  <1>1. f \in Injection(A, B)
    BY DEF Injection, IsInjective
  <1>2. f \in Surjection(A, B)
    BY DEF Surjection
  <1>. QED
    BY <1>1, <1>2, FS_Surjection

(* It is a total order, and a file's place tells its rank.                  *)
LEMMA PlacesFollowTheOrder ==
    ASSUME NEW n \in Nat, NEW S \in SUBSET (1 .. n), NEW sz, Sized(sz, S),
           NEW p \in S, NEW q \in S
    PROVE  /\ Place(sz, S, p) \in Nat /\ Place(sz, S, p) < Cardinality(S)
           /\ IsFiniteSet(Before(sz, S, p))
           /\ Ahead(sz, p, q) => Place(sz, S, p) < Place(sz, S, q)
           /\ p = q \/ Ahead(sz, p, q) \/ Ahead(sz, q, p)
           /\ ~Ahead(sz, p, p)
           /\ \A r \in S : Ahead(sz, r, p) /\ Ahead(sz, p, q) => Ahead(sz, r, q)
  <1>1. p \in Nat /\ q \in Nat /\ sz[p] \in Nat /\ sz[q] \in Nat
    BY DEF Sized
  <1>2. p = q \/ Ahead(sz, p, q) \/ Ahead(sz, q, p)
    BY <1>1 DEF Ahead
  <1>3. ~Ahead(sz, p, p)
    BY <1>1 DEF Ahead
  <1>4. \A r \in S : Ahead(sz, r, p) /\ Ahead(sz, p, q) => Ahead(sz, r, q)
    <2>1. \A r \in S : r \in Nat /\ sz[r] \in Nat
      BY DEF Sized
    <2>. QED
      BY <1>1, <2>1 DEF Ahead
  <1>5. IsFiniteSet(S)
    BY PositionsAreFinite
  <1> DEFINE P == Before(sz, S, p)
             Q == Before(sz, S, q)
  <1>6. P \in SUBSET S /\ Q \in SUBSET S /\ p \notin P
    BY <1>3 DEF Before
  <1>7. Ahead(sz, p, q) => P \cup {p} \in SUBSET Q
    BY <1>4, <1>6 DEF Before
  <1>8. Place(sz, S, p) = Cardinality(P) /\ Place(sz, S, q) = Cardinality(Q)
    BY DEF Place
  <1> HIDE DEF P, Q
  <1>9. /\ IsFiniteSet(P) /\ Cardinality(P) \in Nat
        /\ IsFiniteSet(Q) /\ Cardinality(Q) \in Nat /\ Cardinality(S) \in Nat
    BY <1>5, <1>6, FS_Subset, FS_CardinalityType
  <1>10. Cardinality(P \cup {p}) = Cardinality(P) + 1
    BY <1>6, <1>9, FS_AddElement
  <1>11. Cardinality(P \cup {p}) <= Cardinality(S)
    BY <1>5, <1>6, FS_Subset
  <1>12. Ahead(sz, p, q) => Cardinality(P \cup {p}) <= Cardinality(Q)
    BY <1>7, <1>9, FS_Subset
  <1>. QED
    BY <1>2, <1>3, <1>4, <1>8, <1>9, <1>10, <1>11, <1>12 DEF P

LEMMA PlacesDiffer ==
    ASSUME NEW n \in Nat, NEW S \in SUBSET (1 .. n), NEW sz, Sized(sz, S),
           NEW p \in S, NEW q \in S, Place(sz, S, p) = Place(sz, S, q)
    PROVE  p = q
  <1>1. /\ p = q \/ Ahead(sz, p, q) \/ Ahead(sz, q, p)
        /\ Ahead(sz, p, q) => Place(sz, S, p) < Place(sz, S, q)
        /\ Place(sz, S, p) \in Nat
    BY PlacesFollowTheOrder
  <1>2. Ahead(sz, q, p) => Place(sz, S, q) < Place(sz, S, p)
    BY PlacesFollowTheOrder
  <1>. QED
    BY <1>1, <1>2

Taken(sz, S, k) == \E p \in S : Place(sz, S, p) = k

(* Every place is taken.                                                    *)
LEMMA EveryPlaceIsTaken ==
    ASSUME NEW n \in Nat, NEW S \in SUBSET (1 .. n), NEW sz, Sized(sz, S),
           NEW k \in Nat, k < Cardinality(S)
    PROVE  Taken(sz, S, k)
  <1>1. PICK c : c = Cardinality(S)
    OBVIOUS
  <1>2. IsFiniteSet(S) /\ c \in Nat
    BY <1>1, PositionsAreFinite
  <1> DEFINE T == 0 .. c - 1
             f == [p \in S |-> Place(sz, S, p)]
  <1>3. \A p \in S : Place(sz, S, p) \in T
    <2>1. \A p \in S : Place(sz, S, p) \in Nat /\ Place(sz, S, p) < Cardinality(S)
      BY PlacesFollowTheOrder
    <2>. QED
      BY <1>1, <1>2, <2>1
  <1>4. IsFiniteSet(T) /\ Cardinality(T) = c
    BY <1>2, FS_Interval
  <1>5. \A p, q \in S : Place(sz, S, p) = Place(sz, S, q) => p = q
    BY PlacesDiffer
  <1> HIDE DEF T
  <1>6. f \in Injection(S, T)
    <2>1. f \in [S -> T]
      BY <1>3
    <2>. QED
      BY <1>5, <2>1 DEF Injection, IsInjective
  <1>7. f \in Surjection(S, T)
    BY <1>1, <1>4, <1>6, FS_Injection
  <1>8. k \in T
    BY <1>1, <1>2 DEF T
  <1>9. \E p \in S : f[p] = k
    BY <1>7, <1>8 DEF Surjection
  <1>. QED
    BY <1>9 DEF Taken

Record == [size : Nat, path : Nat]

(* L has a record of each of the files P; ties are in the order of the walk.*)
Records(sz, P, L) ==
    /\ L \in Seq(Record)
    /\ \A i \in DOMAIN L : L[i].path \in P /\ L[i].size = sz[L[i].path]
    /\ \A p \in P : \E i \in DOMAIN L : L[i].path = p
    /\ \A i, j \in DOMAIN L : i < j /\ L[i].size = L[j].size => L[i].path < L[j].path

(* R has the first m of the files P, the largest first.                     *)
Tops(sz, P, m, R) ==
    /\ R \in Seq(Record)
    /\ Len(R) = IF m <= Cardinality(P) THEN m ELSE Cardinality(P)
    /\ \A k \in 1 .. Len(R) : /\ R[k].path \in P /\ R[k].size = sz[R[k].path]
                              /\ Place(sz, P, R[k].path) = k - 1

SizesOf(L) == [i \in DOMAIN L |-> L[i].size]

SamePlaces(L, sz, P) ==
    \A i \in DOMAIN L : Place(SizesOf(L), DOMAIN L, i) = Place(sz, P, L[i].path)

(* The files of a list and their positions in it are in the same order.     *)
LEMMA ListedInOrder ==
    ASSUME NEW n \in Nat, NEW P \in SUBSET (1 .. n), NEW sz, Sized(sz, P),
           NEW L, Records(sz, P, L)
    PROVE  /\ Len(L) = Cardinality(P)
           /\ Sized(SizesOf(L), DOMAIN L)
           /\ \A i \in DOMAIN L : L[i] \in Record /\ L[i].path \in P
           /\ SamePlaces(L, sz, P)
  <1>0. PICK c, D, sizes : c = Len(L) /\ D = DOMAIN L /\ sizes = SizesOf(L)
    OBVIOUS
  <1>1. c \in Nat /\ D = 1 .. c
    BY <1>0, LenProperties DEF Records
  <1>2. \A i \in D : /\ L[i] \in Record /\ L[i].path \in P /\ L[i].size = sz[L[i].path]
                     /\ sizes[i] = L[i].size /\ L[i].size \in Nat /\ L[i].path \in Nat
    <2>1. \A i \in D : L[i] \in Record
      <3>1. L \in Seq(Record)
        BY DEF Records
      <3>. QED
        BY <1>0, <1>1, <3>1, ElementOfSeq
    <2>2. \A i \in D : sizes[i] = L[i].size
      BY <1>0 DEF SizesOf
    <2>. QED
      BY <1>0, <2>1, <2>2 DEF Records, Record
  <1>3. \A i, j \in D : i < j /\ L[i].size = L[j].size => L[i].path < L[j].path
    BY <1>0, <1>1 DEF Records
  <1>4. \A i, j \in D : Ahead(sizes, i, j) <=> Ahead(sz, L[i].path, L[j].path)
    <2> SUFFICES ASSUME NEW i \in D, NEW j \in D
                 PROVE  Ahead(sizes, i, j) <=> Ahead(sz, L[i].path, L[j].path)
      OBVIOUS
    <2>1. L[i].size = L[j].size => (i < j <=> L[i].path < L[j].path)
      BY <1>1, <1>2, <1>3
    <2>. QED
      BY <1>2, <2>1 DEF Ahead
  <1>5. \A i, j \in D : L[i].path = L[j].path => i = j
    <2>1. \A i, j \in D : i < j \/ i = j \/ j < i
      BY <1>1
    <2>. QED
      BY <1>2, <1>3, <2>1
  <1>6. \A p \in P : \E i \in D : L[i].path = p
    BY <1>0, <1>1 DEF Records
  <1> DEFINE at == [i \in D |-> L[i].path]
  <1>7. IsFiniteSet(D) /\ Cardinality(D) = c
    <2>1. c \in Nat
      BY <1>1
    <2>2. IsFiniteSet(1 .. c) /\ Cardinality(1 .. c) = c
      BY ONLY <2>1, FS_Interval
    <2>. QED
      BY <1>1, <2>2
  <1>8. c = Cardinality(P)
    <2>1. /\ at \in [D -> P] /\ \A i, j \in D : at[i] = at[j] => i = j
          /\ \A p \in P : \E i \in D : at[i] = p
      BY <1>2, <1>5, <1>6
    <2> HIDE DEF at
    <2>2. Cardinality(P) = Cardinality(D)
      BY ONLY <1>7, <2>1, SameSize
    <2>. QED
      BY <1>7, <2>2
  <1>9. ASSUME NEW i \in D
        PROVE  Place(sizes, D, i) = Place(sz, P, L[i].path)
    <2> DEFINE A == Before(sizes, D, i)
               B == Before(sz, P, L[i].path)
               f == [j \in A |-> L[j].path]
    <2>1. /\ f \in [A -> B] /\ \A j, k \in A : f[j] = f[k] => j = k
      BY <1>2, <1>4, <1>5, <1>9 DEF Before
    <2>2. \A p \in B : \E j \in A : f[j] = p
      BY <1>2, <1>4, <1>6, <1>9 DEF Before
    <2>3. IsFiniteSet(A)
      BY <1>7, FS_Subset DEF Before
    <2> HIDE DEF A, B, f
    <2>4. Cardinality(B) = Cardinality(A)
      BY <2>1, <2>2, <2>3, SameSize
    <2>. QED
      BY <2>4 DEF Place, A, B
  <1>. QED
    <2>1. Sized(sizes, D)
      BY <1>2 DEF Sized
    <2>. QED
      BY <1>0, <1>1, <1>2, <1>8, <1>9, <2>1 DEF SamePlaces

(* The sort by descending size puts each file where it belongs.             *)
LEMMA SortingTops ==
    ASSUME NEW n \in Nat, NEW P \in SUBSET (1 .. n), NEW sz, Sized(sz, P),
           NEW L, Records(sz, P, L), NEW m \in Nat
    PROVE  Tops(sz, P, m, SortAndCut(L, m))
  <1>1. PICK c, sizes, D : /\ c = Len(L) /\ sizes = SizesOf(L) /\ D = 1 .. c
    OBVIOUS
  <1>2. /\ c \in Nat /\ DOMAIN L = D /\ c = Cardinality(P) /\ Sized(sizes, D)
        /\ \A i \in D : L[i] \in Record /\ L[i].path \in P
        /\ \A i \in D : Place(sizes, D, i) = Place(sz, P, L[i].path)
    <2>1. c \in Nat /\ D = DOMAIN L
      BY <1>1, LenProperties DEF Records
    <2>2. /\ Len(L) = Cardinality(P)
          /\ Sized(SizesOf(L), DOMAIN L)
          /\ \A i \in DOMAIN L : L[i] \in Record /\ L[i].path \in P
          /\ SamePlaces(L, sz, P)
      BY ListedInOrder
    <2>. QED
      BY <1>1, <2>1, <2>2 DEF SamePlaces
  <1> DEFINE Sooner(j, i) == \/ L[j].size > L[i].size
                             \/ L[j].size = L[i].size /\ j < i
             R == SortAndCut(L, m)
             len == IF m <= c THEN m ELSE c
  <1>3. \A i \in D : Cardinality({j \in D : Sooner(j, i)}) = Place(sizes, D, i)
    <2> SUFFICES ASSUME NEW i \in D
                 PROVE  {j \in D : Sooner(j, i)} = Before(sizes, D, i)
      BY DEF Place
    <2>1. \A j \in D : sizes[j] = L[j].size
      BY <1>1, <1>2 DEF SizesOf
    <2>. QED
      BY <2>1 DEF Before, Ahead
  <1>4. Min({m, Len(L)}) = len
    BY <1>1, <1>2, MinOfTwo
  <1>5. R = [k \in 1 .. len |->
               L[CHOOSE i \in D : Cardinality({j \in D : Sooner(j, i)}) = k - 1]]
    BY <1>2, <1>4 DEF SortAndCut
  <1>6. ASSUME NEW k \in 1 .. len
        PROVE  /\ R[k] \in Record /\ R[k].path \in P /\ R[k].size = sz[R[k].path]
               /\ Place(sz, P, R[k].path) = k - 1
    <2>1. k - 1 \in Nat /\ k - 1 < c /\ c = Cardinality(D)
      <3>1. Cardinality(1 .. c) = c
        BY <1>2, FS_Interval
      <3>. QED
        BY <1>1, <1>2, <3>1
    <2>2. \E i \in D : Place(sizes, D, i) = k - 1
      <3>1. D \in SUBSET (1 .. c) /\ c \in Nat /\ Sized(sizes, D)
        BY <1>1, <1>2
      <3>2. PICK place : place = k - 1
        OBVIOUS
      <3>3. place \in Nat /\ place < Cardinality(D)
        BY <2>1, <3>2
      <3>4. Taken(sizes, D, place)
        BY ONLY <3>1, <3>3, EveryPlaceIsTaken
      <3>. QED
        BY <3>2, <3>4 DEF Taken
    <2>3. \E i \in D : Cardinality({j \in D : Sooner(j, i)}) = k - 1
      BY <1>3, <2>2
    <2>4. PICK i \in D : R[k] = L[i] /\ Cardinality({j \in D : Sooner(j, i)}) = k - 1
      BY <1>5, <2>3
    <2>. QED
      BY <1>2, <1>3, <2>4 DEF Records
  <1> HIDE DEF R
  <1>7. len \in Nat /\ DOMAIN R = 1 .. len
    BY <1>2, <1>5
  <1>8. R \in Seq(Record) /\ Len(R) = len
    <2>1. R \in [1 .. len -> Record]
      <3>1. \A k \in 1 .. len : R[k] \in Record
        BY <1>6 DEF R
      <3>2. R = [k \in 1 .. len |-> R[k]]
        BY <1>5
      <3>. QED
        BY ONLY <3>1, <3>2
    <2> HIDE DEF len
    <2>. QED
      BY <1>7, <2>1
  <1>9. Tops(sz, P, m, R)
    BY <1>2, <1>6, <1>8 DEF Tops
  <1>. QED
    BY <1>9 DEF R

(* Of the files S, those that the list of P forgot have K of P before them. *)
Forgets(sz, S, P, K) == \A p \in S \ P : Place(sz, P, p) >= K

(* A file met joins the end of the list.                                    *)
LEMMA MeetingRecords ==
    ASSUME NEW n \in Nat, NEW S \in SUBSET (1 .. n), NEW P \in SUBSET S, NEW K \in Nat,
           NEW f, f = n + 1, NEW sz, Sized(sz, S \cup {f}),
           NEW L, Records(sz, P, L), Forgets(sz, S, P, K),
           NEW r, r = [size |-> sz[f], path |-> f]
    PROVE  /\ Records(sz, P \cup {f}, Append(L, r))
           /\ Forgets(sz, S \cup {f}, P \cup {f}, K)
  <1>1. PICK c, M : c = Len(L) /\ M = Append(L, r)
    OBVIOUS
  <1>2. r \in Record /\ L \in Seq(Record)
    BY DEF Sized, Record, Records
  <1>3. /\ c \in Nat /\ DOMAIN L = 1 .. c
        /\ M \in Seq(Record) /\ DOMAIN M = 1 .. c + 1
        /\ M[c + 1] = r /\ \A i \in 1 .. c : M[i] = L[i]
    BY <1>1, <1>2, AppendProperties, LenProperties
  <1>4. r.path = f /\ r.size = sz[f]
    OBVIOUS
  <1>5. \A i \in 1 .. c : L[i].path \in P /\ L[i].size = sz[L[i].path] /\ L[i].path < f
    <2>1. \A p \in P : p < f
      OBVIOUS
    <2>. QED
      BY <1>3, <2>1 DEF Records
  <1>6. \A i \in 1 .. c + 1 : i \in 1 .. c \/ i = c + 1
    BY <1>3
  <1>7. \A i \in DOMAIN M : M[i].path \in P \cup {f} /\ M[i].size = sz[M[i].path]
    BY <1>3, <1>4, <1>5, <1>6
  <1>8. \A p \in P \cup {f} : \E i \in DOMAIN M : M[i].path = p
    <2>1. \A p \in P : \E i \in 1 .. c : L[i].path = p
      BY <1>3 DEF Records
    <2>2. c + 1 \in DOMAIN M /\ \A i \in 1 .. c : i \in DOMAIN M
      BY <1>3
    <2>. QED
      BY <1>3, <1>4, <2>1, <2>2
  <1>9. ASSUME NEW i \in DOMAIN M, NEW j \in DOMAIN M, i < j, M[i].size = M[j].size
        PROVE  M[i].path < M[j].path
    <2>1. i \in 1 .. c
      BY <1>3, <1>9
    <2>2. CASE j \in 1 .. c
      BY <1>3, <1>9, <2>1, <2>2 DEF Records
    <2>3. CASE j = c + 1
      BY <1>3, <1>4, <1>5, <2>1, <2>3
    <2>. QED
      BY <1>3, <1>6, <2>2, <2>3
  <1>10. Records(sz, P \cup {f}, M)
    BY <1>3, <1>7, <1>8, <1>9 DEF Records
  <1>11. ASSUME NEW p \in S \ P
         PROVE  Place(sz, P \cup {f}, p) >= K
    <2>1. PICK A, B : A = Before(sz, P, p) /\ B = Before(sz, P \cup {f}, p)
      OBVIOUS
    <2>2. A \in SUBSET B /\ A \in SUBSET (1 .. n) /\ B \in SUBSET (1 .. n + 1)
      <3>1. P \in SUBSET (1 .. n) /\ P \cup {f} \in SUBSET (1 .. n + 1)
        OBVIOUS
      <3>. QED
        BY <2>1, <3>1 DEF Before
    <2>3. Cardinality(A) >= K
      BY <2>1 DEF Forgets, Place
    <2>4. IsFiniteSet(B) /\ Cardinality(B) \in Nat
      <3>1. PICK m : m = n + 1
        OBVIOUS
      <3>2. m \in Nat /\ B \in SUBSET (1 .. m)
        BY <2>2, <3>1
      <3>. QED
        BY ONLY <3>2, PositionsAreFinite
    <2>5. Cardinality(A) <= Cardinality(B) /\ Cardinality(A) \in Nat
      BY <2>2, <2>4, FS_Subset, FS_CardinalityType
    <2>. QED
      BY <2>1, <2>3, <2>4, <2>5 DEF Place
  <1>12. Forgets(sz, S \cup {f}, P \cup {f}, K)
    BY <1>11 DEF Forgets
  <1>. QED
    BY <1>1, <1>10, <1>12

(* What is cut off has all that is kept before it.                          *)
LEMMA CuttingRecords ==
    ASSUME NEW n \in Nat, NEW S \in SUBSET (1 .. n), NEW P \in SUBSET S, NEW K \in Nat,
           NEW sz, Sized(sz, S), NEW L, Records(sz, P, L), Forgets(sz, S, P, K),
           K <= Len(L)
    PROVE  \E Q \in SUBSET S : /\ Records(sz, Q, SortAndCut(L, K))
                               /\ Forgets(sz, S, Q, K)
  <1>1. PICK R, Q : R = SortAndCut(L, K) /\ Q = {p \in P : Place(sz, P, p) < K}
    OBVIOUS
  <1>2. P \in SUBSET (1 .. n) /\ Sized(sz, P)
    BY DEF Sized
  <1>3. Len(L) = Cardinality(P)
    BY <1>2, ListedInOrder
  <1>4. /\ R \in Seq(Record) /\ Len(R) = K /\ DOMAIN R = 1 .. K
        /\ \A k \in 1 .. K : /\ R[k].path \in P /\ R[k].size = sz[R[k].path]
                             /\ Place(sz, P, R[k].path) = k - 1
    <2>1. Tops(sz, P, K, R)
      BY <1>1, <1>2, SortingTops
    <2>. QED
      BY <1>3, <2>1, LenProperties DEF Tops
  <1>5. \A p \in P : /\ p \in Nat /\ sz[p] \in Nat
                     /\ Place(sz, P, p) \in Nat /\ ~Ahead(sz, p, p)
    <2>1. \A p \in P : Place(sz, P, p) \in Nat /\ ~Ahead(sz, p, p)
      BY <1>2, PlacesFollowTheOrder
    <2>. QED
      BY <1>2, <2>1 DEF Sized
  <1>6. \A p, q \in P : /\ Ahead(sz, p, q) => Place(sz, P, p) < Place(sz, P, q)
                        /\ p = q \/ Ahead(sz, p, q) \/ Ahead(sz, q, p)
    BY <1>2, PlacesFollowTheOrder
  <1>7. Q \in SUBSET P /\ Q \in SUBSET (1 .. n) /\ Sized(sz, Q)
    BY <1>1, <1>2 DEF Sized
  <1>8. Records(sz, Q, R)
    <2>1. \A k \in 1 .. K : R[k].path \in Q
      BY <1>1, <1>4
    <2>2. ASSUME NEW p \in Q PROVE \E k \in 1 .. K : R[k].path = p
      <3>1. PICK k : k = Place(sz, P, p) + 1
        OBVIOUS
      <3>2. k \in 1 .. K /\ p \in P
        BY <1>1, <1>5, <1>7, <3>1
      <3>3. Place(sz, P, R[k].path) = Place(sz, P, p) /\ R[k].path \in P
        BY <1>4, <1>5, <3>1, <3>2
      <3>4. R[k].path = p
        BY <1>2, <3>2, <3>3, PlacesDiffer
      <3>. QED
        BY <3>2, <3>4
    <2>3. ASSUME NEW i \in 1 .. K, NEW j \in 1 .. K, i < j, R[i].size = R[j].size
          PROVE  R[i].path < R[j].path
      <3>1. PICK p, q : p = R[i].path /\ q = R[j].path
        OBVIOUS
      <3>2. p \in P /\ q \in P /\ Place(sz, P, p) < Place(sz, P, q) /\ sz[p] = sz[q]
        BY <1>4, <2>3, <3>1
      <3>3. Ahead(sz, p, q)
        <4>1. ~Ahead(sz, q, p) /\ p # q
          BY <1>5, <1>6, <3>2
        <4>. QED
          BY <1>6, <3>2, <4>1
      <3>. QED
        BY <1>5, <3>1, <3>2, <3>3 DEF Ahead
    <2>. QED
      BY <1>4, <2>1, <2>2, <2>3 DEF Records
  <1>9. Cardinality(Q) = K
    BY <1>4, <1>7, <1>8, ListedInOrder
  <1>10. ASSUME NEW p \in P \ Q
         PROVE  \A x \in Q : Ahead(sz, x, p)
    <2> SUFFICES ASSUME NEW x \in Q PROVE Ahead(sz, x, p)
      OBVIOUS
    <2>1. x \in P /\ Place(sz, P, x) < K /\ ~(Place(sz, P, p) < K)
      BY <1>1, <1>10
    <2>2. ~Ahead(sz, p, x) /\ x # p
      BY <1>5, <1>6, <2>1
    <2>. QED
      BY <1>6, <2>1, <2>2
  <1>11. ASSUME NEW p \in S \ Q
         PROVE  Place(sz, Q, p) >= K
    <2>1. SUFFICES ASSUME ~(\A x \in Q : Ahead(sz, x, p)) PROVE Place(sz, Q, p) >= K
      <3>1. (\A x \in Q : Ahead(sz, x, p)) => Before(sz, Q, p) = Q
        BY DEF Before
      <3>. QED
        BY <1>9, <3>1 DEF Place
    <2>2. p \notin P
      BY <1>10, <2>1
    <2>3. Before(sz, P, p) \subseteq Q
      <3> SUFFICES ASSUME NEW q \in P, Ahead(sz, q, p), q \notin Q PROVE FALSE
        BY DEF Before
      <3>1. \A x \in Q : Ahead(sz, x, q) /\ x \in S
        BY <1>7, <1>10
      <3>2. \A x \in Q : Ahead(sz, x, p)
        BY <3>1, PlacesFollowTheOrder
      <3>. QED
        BY <2>1, <3>2
    <2>4. Before(sz, Q, p) = Before(sz, P, p)
      BY <1>7, <2>3 DEF Before
    <2>. QED
      BY <2>2, <2>4 DEF Forgets, Place
  <1>12. Forgets(sz, S, Q, K)
    BY <1>11 DEF Forgets
  <1>. QED
    BY <1>1, <1>7, <1>8, <1>12

(* The first files of a list that forgot some are those of all files.       *)
LEMMA TopsAgree ==
    ASSUME NEW n \in Nat, NEW S \in SUBSET (1 .. n), NEW P \in SUBSET S, NEW K \in Nat,
           NEW sz, Sized(sz, S), Forgets(sz, S, P, K),
           NEW m \in Nat, m <= K, NEW R, Tops(sz, P, m, R), NEW T, Tops(sz, S, m, T)
    PROVE  R = T
  <1>1. P \in SUBSET (1 .. n) /\ Sized(sz, P)
    BY DEF Sized
  <1>2. /\ IsFiniteSet(P) /\ Cardinality(P) \in Nat
        /\ IsFiniteSet(S) /\ Cardinality(S) \in Nat
    BY <1>1, PositionsAreFinite
  <1>3. PICK len : len = IF m <= Cardinality(P) THEN m ELSE Cardinality(P)
    OBVIOUS
  <1>4. len = IF m <= Cardinality(S) THEN m ELSE Cardinality(S)
    <2>1. CASE S = P
      BY <1>3, <2>1
    <2>2. CASE S # P
      <3>1. PICK q \in S \ P : Place(sz, P, q) >= K
        BY <2>2 DEF Forgets
      <3>2. Before(sz, P, q) \in SUBSET P
        BY DEF Before
      <3>3. Place(sz, P, q) <= Cardinality(P) /\ Place(sz, P, q) \in Nat
        BY <1>2, <3>2, FS_Subset, FS_CardinalityType DEF Place
      <3>4. Cardinality(P) <= Cardinality(S)
        BY <1>2, FS_Subset
      <3>. QED
        BY <1>2, <1>3, <3>1, <3>3, <3>4
    <2>. QED
      BY <2>1, <2>2
  <1>5. ASSUME NEW p \in P, Place(sz, P, p) < K
        PROVE  Place(sz, S, p) = Place(sz, P, p)
    <2>1. ASSUME NEW q \in S \ P, Ahead(sz, q, p) PROVE FALSE
      <3>1. Before(sz, P, q) \in SUBSET Before(sz, P, p)
        <4>1. \A x \in P : Ahead(sz, x, q) => Ahead(sz, x, p)
          BY <2>1, PlacesFollowTheOrder
        <4>. QED
          BY <4>1 DEF Before
      <3>2. IsFiniteSet(Before(sz, P, p)) /\ Place(sz, P, p) \in Nat
        BY <1>1, PlacesFollowTheOrder
      <3>3. Place(sz, P, q) <= Place(sz, P, p) /\ Place(sz, P, q) \in Nat
        BY <3>1, <3>2, FS_Subset, FS_CardinalityType DEF Place
      <3>. QED
        BY <1>5, <2>1, <3>2, <3>3 DEF Forgets
    <2>2. Before(sz, S, p) = Before(sz, P, p)
      BY <2>1 DEF Before
    <2>. QED
      BY <2>2 DEF Place
  <1>6. /\ R \in Seq(Record) /\ Len(R) = len
        /\ \A k \in 1 .. len : /\ R[k].path \in P /\ R[k].size = sz[R[k].path]
                               /\ Place(sz, P, R[k].path) = k - 1
    BY <1>3 DEF Tops
  <1>7. /\ T \in Seq(Record) /\ Len(T) = len
        /\ \A k \in 1 .. len : /\ T[k].path \in S /\ T[k].size = sz[T[k].path]
                               /\ Place(sz, S, T[k].path) = k - 1
    BY <1>4 DEF Tops
  <1>8. len \in Nat /\ len <= K
    BY <1>2, <1>3
  <1>9. ASSUME NEW k \in 1 .. len PROVE R[k] = T[k]
    <2>1. PICK p, q : p = R[k].path /\ q = T[k].path
      OBVIOUS
    <2>2. p \in P /\ Place(sz, P, p) = k - 1 /\ R[k].size = sz[p]
      BY <1>6, <2>1
    <2>3. q \in S /\ Place(sz, S, q) = k - 1 /\ T[k].size = sz[q]
      BY <1>7, <2>1
    <2>4. Place(sz, S, p) = Place(sz, S, q) /\ p \in S
      BY <1>5, <1>8, <2>2, <2>3
    <2>5. p = q
      BY <2>3, <2>4, PlacesDiffer
    <2>6. R[k] \in Record /\ T[k] \in Record
      <3>1. k \in 1 .. Len(R) /\ k \in 1 .. Len(T)
        BY <1>6, <1>7
      <3>. QED
        BY <1>6, <1>7, <3>1, ElementOfSeq
    <2>7. /\ R[k] = [size |-> R[k].size, path |-> R[k].path]
          /\ T[k] = [size |-> T[k].size, path |-> T[k].path]
      BY <2>6 DEF Record
    <2>. QED
      BY <2>1, <2>2, <2>3, <2>5, <2>7
  <1>10. /\ R = [k \in 1 .. len |-> R[k]] /\ T = [k \in 1 .. len |-> T[k]]
    BY <1>6, <1>7, <1>8
  <1>. QED
    BY <1>9, <1>10

-----------------------------------------------------------------------------
(* The largest files of profile *)

Sizes == [f \in Profiled |-> SizeOf(f)]

LargestInv ==
    /\ walked \in Seq(Entry)
    /\ \E P \in SUBSET Profiled : /\ Records(Sizes, P, largest)
                                  /\ Forgets(Sizes, Profiled, P, MAX_LARGEST)

LEMMA LargestInit == ASSUME Init PROVE LargestInv
  <1>1. walked = <<>> /\ walked \in Seq(Entry) /\ largest = <<>>
    BY DEF Init
  <1>2. Profiled = {}
    BY <1>1 DEF Profiled
  <1>3. Records(Sizes, {}, <<>>)
    BY DEF Records
  <1>4. Forgets(Sizes, {}, {}, MAX_LARGEST)
    BY DEF Forgets
  <1>. QED
    BY <1>1, <1>2, <1>3, <1>4 DEF LargestInv

(* Only the sizes of the files it is about matter to a list.                *)
LEMMA SameSizes ==
    ASSUME NEW S, NEW P \in SUBSET S, NEW K, NEW L, NEW sz, NEW tz,
           \A f \in S : tz[f] = sz[f], Records(sz, P, L), Forgets(sz, S, P, K)
    PROVE  Records(tz, P, L) /\ Forgets(tz, S, P, K)
  <1>1. Records(tz, P, L)
    BY DEF Records
  <1>2. \A p \in S : Before(tz, P, p) = Before(sz, P, p)
    BY DEF Before, Ahead
  <1>. QED
    BY <1>1, <1>2 DEF Forgets, Place

LEMMA LargestVisit == ASSUME LargestInv, NEW e \in Entry, Visit(e) PROVE LargestInv'
  <1>1. PICK n, f : n = Len(walked) /\ f = n + 1
    OBVIOUS
  <1>2. walked \in Seq(Entry) /\ walked' = Append(walked, e) /\ Profile(f, e)
    BY <1>1 DEF LargestInv, Visit
  <1>3. /\ walked' \in Seq(Entry) /\ n \in Nat
        /\ walked'[f] = e /\ \A k \in DOMAIN walked : walked'[k] = walked[k]
        /\ Profiled' = Profiled \cup (IF e.kind = "file" THEN {f} ELSE {})
        /\ Profiled \in SUBSET (1 .. n)
        /\ \A g \in Profiled : SizeOf(g) \in Nat /\ g \in DOMAIN walked
    BY <1>1, <1>2, Visited, WalkShape
  <1>4. PICK sz, tz, S, K : sz = Sizes /\ tz = Sizes' /\ S = Profiled /\ K = MAX_LARGEST
    OBVIOUS
  <1>5. K \in Nat
    BY <1>4, WalkAssumption
  <1>6. \A g \in S : tz[g] = sz[g] /\ sz[g] \in Nat
    <2>1. \A g \in Profiled : SizeOf(g)' = SizeOf(g) /\ g \in Profiled'
      BY <1>3 DEF SizeOf
    <2>. QED
      BY <1>3, <1>4, <2>1 DEF Sizes
  <1>7. PICK P \in SUBSET S : Records(tz, P, largest) /\ Forgets(tz, S, P, K)
    <2>1. PICK P \in SUBSET S : Records(sz, P, largest) /\ Forgets(sz, S, P, K)
      BY <1>4 DEF LargestInv
    <2>. QED
      BY <1>6, <2>1, SameSizes
  <1>8. ASSUME NEW Q \in SUBSET Profiled', Records(tz, Q, largest'), Forgets(tz, Profiled', Q, K)
        PROVE  LargestInv'
    <2>1. Records(Sizes, Q, largest)'
      BY <1>4, <1>8 DEF Records, Record
    <2>2. Forgets(Sizes, Profiled, Q, MAX_LARGEST)'
      BY <1>4, <1>8 DEF Forgets, Place, Before, Ahead
    <2>. QED
      BY <1>3, <1>8, <2>1, <2>2 DEF LargestInv
  <1>9. CASE e.kind # "file"
    <2>1. Profiled' = S /\ largest' = largest
      BY <1>2, <1>3, <1>4, <1>9, Kinds DEF Profile
    <2>. QED
      BY <1>7, <1>8, <2>1
  <1>10. CASE e.kind = "file"
    <2>1. PICK v, r, L : v = Size[e.content] /\ r = [size |-> v, path |-> f]
                         /\ L = Append(largest, r)
      OBVIOUS
    <2>2. v \in Nat /\ largest' = CutBack(L)
      BY <1>2, <1>10, <2>1, Kinds DEF Profile
    <2>3. Profiled' = S \cup {f}
      BY <1>3, <1>4, <1>10
    <2>4. tz[f] = v
      <3>1. SizeOf(f)' = v
        BY <1>3, <2>1 DEF SizeOf
      <3>. QED
        BY <1>4, <2>3, <3>1 DEF Sizes
    <2>5. Sized(tz, S \cup {f})
      BY <1>6, <2>2, <2>4 DEF Sized
    <2>6. n \in Nat /\ S \in SUBSET (1 .. n) /\ f = n + 1 /\ r = [size |-> tz[f], path |-> f]
      BY <1>1, <1>3, <1>4, <2>1, <2>4
    <2>7. Records(tz, P \cup {f}, L) /\ Forgets(tz, S \cup {f}, P \cup {f}, K)
      BY ONLY <1>5, <1>7, <2>1, <2>5, <2>6, MeetingRecords
    <2>8. CASE ~(Len(L) > 2 * MAX_LARGEST)
      <3>1. largest' = L
        BY <2>2, <2>8 DEF CutBack
      <3>. QED
        BY <1>8, <2>3, <2>7, <3>1
    <2>9. CASE Len(L) > 2 * MAX_LARGEST
      <3>1. largest' = SortAndCut(L, K)
        BY <1>4, <2>2, <2>9 DEF CutBack
      <3>2. Len(L) \in Nat
        BY <2>7, LenProperties DEF Records
      <3>3. K <= Len(L)
        BY <1>4, <1>5, <2>9, <3>2
      <3>4. PICK m, U, V : m = n + 1 /\ U = S \cup {f} /\ V = P \cup {f}
        OBVIOUS
      <3>5. /\ m \in Nat /\ U \in SUBSET (1 .. m) /\ V \in SUBSET U
            /\ Sized(tz, U) /\ Records(tz, V, L) /\ Forgets(tz, U, V, K)
        BY <1>3, <1>7, <2>5, <2>6, <2>7, <3>4
      <3>6. \E Q \in SUBSET U : Records(tz, Q, SortAndCut(L, K)) /\ Forgets(tz, U, Q, K)
        BY ONLY <1>5, <3>3, <3>5, CuttingRecords
      <3>. QED
        BY <1>8, <2>3, <3>1, <3>4, <3>6
    <2>. QED
      BY <2>8, <2>9
  <1>. QED
    BY <1>9, <1>10

LEMMA LargestStep == ASSUME LargestInv, [Next]_vars PROVE LargestInv'
  <1>1. CASE \E e \in Entry : Visit(e)
    BY <1>1, LargestVisit
  <1>2. CASE ~(\E e \in Entry : Visit(e))
    <2>1. walked' = walked /\ largest' = largest
      BY <1>2, OtherSteps
    <2>2. Profiled' = Profiled /\ Sizes' = Sizes
      BY <2>1 DEF Sizes, Profiled, SizeOf
    <2>3. PICK P \in SUBSET Profiled : /\ Records(Sizes, P, largest)
                                       /\ Forgets(Sizes, Profiled, P, MAX_LARGEST)
      BY DEF LargestInv
    <2>4. Records(Sizes, P, largest)'
      BY <2>1, <2>2, <2>3 DEF Records, Record
    <2>5. Forgets(Sizes, Profiled, P, MAX_LARGEST)'
      BY <2>2, <2>3 DEF Forgets, Place, Before, Ahead
    <2>. QED
      BY <2>1, <2>2, <2>4, <2>5 DEF LargestInv
  <1>. QED
    BY <1>1, <1>2

(* Cutting the list back never costs a file that would be reported          *)
(* (scan in profile/scanner.rs).                                            *)
THEOREM NothingLargeIsForgotten == Spec => []LargestAreTheLargest
  <1>1. LargestInv => LargestAreTheLargest
    <2> SUFFICES ASSUME LargestInv PROVE LargestAreTheLargest
      OBVIOUS
    <2>1. PICK n, S, K, m, sz : /\ n = Len(walked) /\ S = Profiled /\ K = MAX_LARGEST
                                /\ m = TOP_LARGEST /\ sz = Sizes
      OBVIOUS
    <2>2. n \in Nat /\ S \in SUBSET (1 .. n) /\ \A f \in S : SizeOf(f) \in Nat
      BY <2>1, WalkShape DEF LargestInv
    <2>3. K \in Nat /\ m \in Nat /\ m <= K
      BY <2>1, WalkAssumption
    <2>4. Sized(sz, S) /\ \A f \in S : sz[f] = SizeOf(f)
      BY <2>1, <2>2 DEF Sizes, Sized
    <2>5. PICK P \in SUBSET S : Records(sz, P, largest) /\ Forgets(sz, S, P, K)
      BY <2>1 DEF LargestInv
    <2>6. Tops(sz, P, m, SortAndCut(largest, m))
      <3>1. P \in SUBSET (1 .. n) /\ Sized(sz, P)
        BY <2>2, <2>4 DEF Sized
      <3>. QED
        BY ONLY <2>2, <2>3, <2>5, <3>1, SortingTops
    <2>7. PICK files, full :
             /\ files = InWalkOrder(S)
             /\ full = [i \in DOMAIN files |-> [size |-> SizeOf(files[i]), path |-> files[i]]]
      OBVIOUS
    <2>8. Records(sz, S, full)
      <3>1. Lists(files, S)
        BY <2>2, <2>7, InWalkOrderLists
      <3>2. PICK c : c = Cardinality(S)
        OBVIOUS
      <3>3. /\ c \in Nat /\ DOMAIN files = 1 .. c
            /\ \A i \in 1 .. c : files[i] \in S /\ files[i] \in Nat
            /\ \A i, j \in 1 .. c : i < j => files[i] < files[j]
        <4>1. c \in Nat /\ \A x \in S : x \in Nat
          BY <2>2, <3>2, PositionsAreFinite
        <4>2. files \in [1 .. c -> S] /\ Increasing(files)
          BY <3>1, <3>2 DEF Lists
        <4>. QED
          BY <4>1, <4>2 DEF Increasing
      <3>4. \A x \in S : \E i \in DOMAIN files : files[i] = x
        BY ONLY <2>2, <3>1, ListHasAll
      <3>5. \A i \in 1 .. c : full[i] \in Record
        BY <2>2, <2>7, <3>3 DEF Record
      <3>6. DOMAIN full = 1 .. c
        BY <2>7, <3>3
      <3>7. full \in Seq(Record)
        <4>1. full = [i \in 1 .. c |-> full[i]]
          BY <2>7, <3>3
        <4>2. full \in [1 .. c -> Record]
          BY ONLY <3>5, <4>1
        <4>. QED
          BY <3>3, <4>2
      <3>8. \A i \in 1 .. c : full[i].path = files[i] /\ full[i].size = sz[files[i]]
        BY <2>4, <2>7, <3>3
      <3>. QED
        BY <3>3, <3>4, <3>6, <3>7, <3>8 DEF Records
    <2>9. Tops(sz, S, m, SortAndCut(full, m))
      BY ONLY <2>2, <2>3, <2>4, <2>8, SortingTops
    <2>10. SortAndCut(largest, m) = SortAndCut(full, m)
      BY ONLY <2>2, <2>3, <2>4, <2>5, <2>6, <2>9, TopsAgree
    <2>. QED
      BY <2>1, <2>7, <2>10 DEF LargestAreTheLargest, largest_files
  <1>. QED
    BY <1>1, LargestInit, LargestStep, PTL DEF Spec

-----------------------------------------------------------------------------
(* What classes of equal files would give back *)

(* One of a class g is kept.                                                *)
Value(sz, g) == (Cardinality(g) - 1) * sz[CHOOSE f \in g : TRUE]

Gain(sz, C) == SumFunction([g \in C |-> Value(sz, g)])

(* The files of the classes C that are not the first of theirs.             *)
Rest(C) == {f \in UNION C : \E g \in C : f \in g /\ f # Min(g)}

(* Classes of files of one size each, no two with a file in common.         *)
Classes(sz, U, C) ==
    /\ \A g \in C : g \in SUBSET U /\ g # {} /\ \A a, b \in g : sz[a] = sz[b]
    /\ \A g, h \in C : g = h \/ g \cap h = {}

(* A class holds its value in bytes that are not of its first file.         *)
LEMMA ValueOfAClass ==
    ASSUME NEW n \in Nat, NEW g \in SUBSET (1 .. n), g # {}, NEW size \in Nat,
           NEW sz, \A f \in g : sz[f] = size
    PROVE  /\ Min(g) \in g
           /\ IsFiniteSet((g \ {Min(g)}) \X (1 .. size))
           /\ Cardinality((g \ {Min(g)}) \X (1 .. size)) = Value(sz, g)
           /\ Value(sz, g) \in Nat
  <1>1. PICK first, k, A, B : /\ first = Min(g) /\ k = Cardinality(g)
                              /\ A = g \ {first} /\ B = 1 .. size
    OBVIOUS
  <1>2. first \in g
    BY <1>1, MinimumExists
  <1>3. IsFiniteSet(g) /\ k \in Nat
    BY <1>1, PositionsAreFinite
  <1>4. IsFiniteSet(A) /\ Cardinality(A) = k - 1 /\ k - 1 \in Nat
    <2>1. IsFiniteSet(A) /\ Cardinality(A) = k - 1
      BY <1>1, <1>2, <1>3, FS_RemoveElement
    <2>. QED
      BY <2>1, FS_CardinalityType
  <1>5. IsFiniteSet(B) /\ Cardinality(B) = size
    BY <1>1, FS_Interval
  <1>6. IsFiniteSet(A \X B) /\ Cardinality(A \X B) = Cardinality(A) * Cardinality(B)
    BY <1>4, <1>5, FS_Product
  <1>7. sz[CHOOSE f \in g : TRUE] = size
    OBVIOUS
  <1>8. Value(sz, g) = (k - 1) * size
    BY <1>1, <1>7 DEF Value
  <1>9. (k - 1) * size \in Nat
    BY <1>4
  <1>. QED
    BY <1>1, <1>2, <1>4, <1>5, <1>6, <1>8, <1>9

(* So the classes give back the bytes of the files that are not first in    *)
(* theirs.                                                                  *)
LEMMA GainIsRest ==
    ASSUME NEW n \in Nat, NEW U \in SUBSET (1 .. n), NEW sz \in [U -> Nat],
           NEW C, Classes(sz, U, C)
    PROVE  /\ Gain(sz, C) = Cardinality(Cells(sz, Rest(C)))
           /\ Rest(C) \in SUBSET U
           /\ IsFiniteSet(Cells(sz, Rest(C))) /\ Cardinality(Cells(sz, Rest(C))) \in Nat
  <1>0. PICK val : val = [g \in C |-> Value(sz, g)]
    OBVIOUS
  <1>1. IsFiniteSet(U) /\ C \in SUBSET (SUBSET U)
    BY PositionsAreFinite DEF Classes
  <1>2. IsFiniteSet(C)
    BY <1>1, FS_SUBSET, FS_Subset
  <1>3. ASSUME NEW g \in C
        PROVE  /\ g \in SUBSET (1 .. n) /\ g # {} /\ Min(g) \in g
               /\ \E size \in Nat : \A f \in g : sz[f] = size
    <2>1. PICK x \in g : TRUE
      BY DEF Classes
    <2>2. sz[x] \in Nat /\ \A f \in g : sz[f] = sz[x]
      BY <1>1, <2>1 DEF Classes
    <2>3. g \in SUBSET (1 .. n) /\ g # {}
      BY <1>1 DEF Classes
    <2>. QED
      BY <2>2, <2>3, MinimumExists
  <1>4. \A g \in C : Value(sz, g) \in Nat
    BY <1>3, ValueOfAClass
  <1>5. val \in [C -> Nat] /\ \A g \in C : val[g] = Value(sz, g)
    BY <1>0, <1>4
  <1>6. \A t \in SUBSET C : Rest(t) \in SUBSET U
    BY <1>1 DEF Rest
  <1>7. \A t \in SUBSET C : /\ IsFiniteSet(Cells(sz, Rest(t)))
                            /\ Cardinality(Cells(sz, Rest(t))) \in Nat
    BY <1>1, <1>6, CellsAreFinite
  <1>8. \A t \in SUBSET C : IsFiniteSet(Cells(val, t)) /\ Cardinality(Cells(val, t)) \in Nat
    BY <1>2, <1>5, CellsAreFinite
  <1> DEFINE G == {t \in SUBSET C : Cardinality(Cells(val, t)) = Cardinality(Cells(sz, Rest(t)))}
  <1>9. {} \in G
    <2>1. Cells(val, {}) = {} /\ Cells(sz, Rest({})) = {}
      BY DEF Cells, Rest
    <2>. QED
      BY <2>1
  <1>10. ASSUME NEW t \in SUBSET C, NEW g \in t, t \ {g} \in G
         PROVE  t \in G
    <2>1. PICK size \in Nat : \A f \in g : sz[f] = size
      BY <1>3
    <2>2. PICK old, new : /\ old = Cells(sz, Rest(t \ {g}))
                          /\ new = (g \ {Min(g)}) \X (1 .. size)
      OBVIOUS
    <2>3. IsFiniteSet(new) /\ Cardinality(new) = Value(sz, g) /\ Value(sz, g) \in Nat
      BY <1>3, <2>1, <2>2, ValueOfAClass
    <2>4. Rest(t) = Rest(t \ {g}) \cup (g \ {Min(g)})
      BY DEF Rest
    <2>5. Cells(sz, Rest(t)) = old \cup new
      <3>1. Cells(sz, g \ {Min(g)}) = new
        BY <2>1, <2>2 DEF Cells
      <3>2. Cells(sz, Rest(t)) = Cells(sz, Rest(t \ {g})) \cup Cells(sz, g \ {Min(g)})
        BY <2>4 DEF Cells
      <3>. QED
        BY <2>2, <3>1, <3>2
    <2>6. old \cap new = {}
      <3>1. \A f \in Rest(t \ {g}) : f \notin g
        BY DEF Rest, Classes
      <3>. QED
        BY <2>2, <3>1 DEF Cells
    <2>7. /\ IsFiniteSet(old) /\ Cardinality(old) \in Nat
          /\ Cardinality(old) = Cardinality(Cells(val, t \ {g}))
      BY <1>7, <1>10, <2>2
    <2>8. Cardinality(old \cup new) = Cardinality(old) + Cardinality(new)
      <3>1. Cardinality(old \cup new) = Cardinality(old) + Cardinality(new) - Cardinality({})
        BY ONLY <2>3, <2>6, <2>7, FS_Union
      <3>. QED
        BY <2>3, <2>7, <3>1, FS_EmptySet
    <2>9. Cardinality(Cells(val, t)) = val[g] + Cardinality(Cells(val, t \ {g}))
      BY <1>5, <1>8, OneMoreColumn
    <2>10. g \in C
      OBVIOUS
    <2>11. Cardinality(Cells(val, t)) = Cardinality(Cells(sz, Rest(t)))
      BY <1>5, <2>3, <2>5, <2>7, <2>8, <2>9, <2>10
    <2>. QED
      BY ONLY <2>11, t \in SUBSET C
  <1>11. C \in G
    <2> HIDE DEF G
    <2>1. \A t \in SUBSET C : t # {} /\ (\A x \in t : t \ {x} \in G) => t \in G
      BY <1>10
    <2>2. \A t \in SUBSET C : t \in G
      BY ONLY <1>2, <1>9, <2>1, FiniteSubsets
    <2>. QED
      BY <2>2
  <1>12. SumFunction(val) = Cardinality(Cells(val, C))
    BY <1>2, <1>5, SumIsCells
  <1>13. Gain(sz, C) = SumFunction(val)
    BY <1>0 DEF Gain
  <1>. QED
    BY <1>6, <1>7, <1>11, <1>12, <1>13

(* Finer classes of fewer files give back less.                             *)
LEMMA FinerGainsLess ==
    ASSUME NEW n \in Nat, NEW U \in SUBSET (1 .. n), NEW sz \in [U -> Nat],
           NEW C, Classes(sz, U, C), NEW D, Classes(sz, U, D),
           \A g \in C : \E h \in D : g \subseteq h
    PROVE  Gain(sz, C) <= Gain(sz, D)
  <1>1. /\ Gain(sz, C) = Cardinality(Cells(sz, Rest(C)))
        /\ Gain(sz, D) = Cardinality(Cells(sz, Rest(D)))
        /\ IsFiniteSet(Cells(sz, Rest(D)))
    BY GainIsRest
  <1>2. Rest(C) \subseteq Rest(D)
    <2> SUFFICES ASSUME NEW g \in C, NEW f \in g, f # Min(g) PROVE f \in Rest(D)
      BY DEF Rest
    <2>1. PICK h \in D : g \subseteq h
      OBVIOUS
    <2>2. g \in SUBSET U /\ h \in SUBSET U /\ f \in h
      BY <2>1 DEF Classes
    <2>3. g \in SUBSET (1 .. n) /\ h \in SUBSET (1 .. n) /\ g # {} /\ h # {}
      BY <2>2
    <2>4. Min(g) \in g /\ (\A j \in g : Min(g) <= j) /\ \A j \in h : Min(h) <= j
      BY <2>3, MinimumExists
    <2>5. f # Min(h)
      <3>1. PICK a, b : a = Min(g) /\ b = Min(h)
        OBVIOUS
      <3>2. a \in h /\ a <= f /\ a # f /\ b <= a
        BY <2>1, <2>4, <3>1
      <3>3. a \in Nat /\ f \in Nat /\ b \in Nat
        <4>1. b \in h
          BY <2>3, <3>1, MinimumExists
        <4>2. \A j \in h : j \in Nat
          BY <2>3
        <4>. QED
          BY <2>2, <3>2, <4>1, <4>2
      <3>4. f # b
        BY <3>2, <3>3
      <3>. QED
        BY <3>1, <3>4
    <2>. QED
      BY <2>1, <2>2, <2>5 DEF Rest
  <1>3. Cells(sz, Rest(C)) \subseteq Cells(sz, Rest(D))
    BY <1>2 DEF Cells
  <1>. QED
    BY <1>1, <1>3, FS_Subset

-----------------------------------------------------------------------------
(* The estimate of duplicates *)

OfSize(s) == {f \in Profiled : SizeOf(f) = s}

Candidates == UNION {Range(g) : g \in SizeCandidates}

FilesIn(S) == SumFunction([g \in S |-> Len(g)])

GainOf(C) == SumFunction([g \in C |-> (Cardinality(g) - 1) * SizeOf(CHOOSE f \in g : TRUE)])

(* The profiled files are positions in the walk, each with a size.          *)
LEMMA ProfiledShape ==
    ASSUME walked \in Seq(Entry)
    PROVE  /\ Len(walked) \in Nat /\ Profiled \in SUBSET (1 .. Len(walked))
           /\ IsFiniteSet(Profiled)
           /\ Sizes \in [Profiled -> Nat]
           /\ \A f \in Profiled : Sizes[f] = SizeOf(f) /\ SizeOf(f) \in Nat
  <1>1. PICK n : n = Len(walked)
    OBVIOUS
  <1>2. n \in Nat /\ DOMAIN walked = 1 .. n
    BY <1>1, LenProperties
  <1>3. Profiled \in SUBSET (1 .. n)
    BY <1>2 DEF Profiled
  <1>4. IsFiniteSet(Profiled)
    BY <1>2, <1>3, PositionsAreFinite
  <1>5. ASSUME NEW f \in Profiled PROVE SizeOf(f) \in Nat
    <2>1. walked[f] \in Entry /\ walked[f].kind = "file"
      BY <1>1, <1>2, ElementOfSeq DEF Profiled
    <2>2. walked[f].content \in Contents
      BY <2>1 DEF Entry
    <2>. QED
      BY <2>2, WalkAssumption DEF SizeOf
  <1>. QED
    BY <1>1, <1>2, <1>3, <1>4, <1>5 DEF Sizes

(* There are finitely many groups; each is all the files of one size.       *)
LEMMA GroupsOfOneSize ==
    ASSUME walked \in Seq(Entry)
    PROVE  /\ IsFiniteSet(SizeCandidates)
           /\ \A g \in SizeCandidates : /\ g \in Seq(Nat) /\ Len(g) \in Nat /\ Len(g) > 1
                                        /\ \E s \in Nat : Range(g) = OfSize(s)
  <1>1. PICK n : n = Len(walked)
    OBVIOUS
  <1>2. /\ n \in Nat /\ Profiled \in SUBSET (1 .. n) /\ IsFiniteSet(Profiled)
        /\ \A f \in Profiled : SizeOf(f) \in Nat
    BY <1>1, ProfiledShape
  <1>3. ASSUME NEW g \in SizeCandidates
        PROVE  \E f \in Profiled : g = InWalkOrder(OfSize(SizeOf(f))) /\ Len(g) > 1
    BY DEF SizeCandidates, OfSize
  <1>4. IsFiniteSet(SizeCandidates)
    <2>1. PICK img, T : /\ img = [f \in Profiled |-> InWalkOrder(OfSize(SizeOf(f)))]
                        /\ T = {img[f] : f \in Profiled}
      OBVIOUS
    <2>2. img \in Surjection(Profiled, T)
      BY <2>1 DEF Surjection
    <2>3. IsFiniteSet(T)
      BY <1>2, <2>2, FS_Surjection
    <2>4. SizeCandidates \subseteq T
      BY <1>3, <2>1
    <2>. QED
      BY <2>3, <2>4, FS_Subset
  <1>5. ASSUME NEW g \in SizeCandidates
        PROVE  /\ g \in Seq(Nat) /\ Len(g) \in Nat /\ Len(g) > 1
               /\ \E s \in Nat : Range(g) = OfSize(s)
    <2>1. PICK f \in Profiled : g = InWalkOrder(OfSize(SizeOf(f))) /\ Len(g) > 1
      BY <1>3
    <2>2. PICK S : S = OfSize(SizeOf(f))
      OBVIOUS
    <2>3. S \in SUBSET (1 .. n)
      BY <1>2, <2>2 DEF OfSize
    <2>4. g \in Seq(Nat) /\ Range(g) = S
      BY <1>2, <2>1, <2>2, <2>3, Joins
    <2>. QED
      BY <1>2, <2>1, <2>2, <2>4, LenProperties
  <1>. QED
    BY <1>4, <1>5

(* A group taken out of a set of groups takes its files with it.            *)
LEMMA OneGroupLess ==
    ASSUME walked \in Seq(Entry), NEW S \in SUBSET SizeCandidates
    PROVE  /\ FilesIn(S) \in Nat
           /\ S = {} => FilesIn(S) = 0
           /\ \A g \in S : FilesIn(S) = FilesIn(S \ {g}) + Len(g)
  <1>1. IsFiniteSet(S) /\ \A g \in S : Len(g) \in Nat
    BY GroupsOfOneSize, FS_Subset
  <1>2. PICK all : all = [g \in S |-> Len(g)]
    OBVIOUS
  <1>3. all \in [S -> Nat] /\ FilesIn(S) = SumFunction(all)
    BY <1>1, <1>2 DEF FilesIn
  <1>4. FilesIn(S) = Cardinality(Cells(all, S)) /\ FilesIn(S) \in Nat
    BY <1>1, <1>3, SumIsCells, CellsAreFinite
  <1>5. ASSUME S = {} PROVE FilesIn(S) = 0
    <2>1. Cells(all, S) = {}
      BY <1>5 DEF Cells
    <2>. QED
      BY <1>4, <2>1, FS_EmptySet
  <1>6. ASSUME NEW g \in S PROVE FilesIn(S) = FilesIn(S \ {g}) + Len(g)
    <2>1. PICK rest, D : D = S \ {g} /\ rest = [h \in D |-> Len(h)]
      OBVIOUS
    <2>2. /\ rest \in [D -> Nat] /\ FilesIn(S \ {g}) = SumFunction(rest)
          /\ \A h \in D : all[h] = rest[h]
      BY <1>1, <1>2, <2>1 DEF FilesIn
    <2>3. SumFunction(all) = SumFunction(rest) + all[g]
      <3>1. IsFiniteSet(S) /\ all \in [S -> Nat] /\ g \in S
        BY <1>1, <1>3
      <3>2. D = S \ {g} /\ rest \in [D -> Nat] /\ \A h \in D : all[h] = rest[h]
        BY <2>1, <2>2
      <3>. QED
        BY ONLY <3>1, <3>2, OneMoreTerm
    <2>. QED
      BY <1>2, <1>3, <2>2, <2>3
  <1>. QED
    BY <1>4, <1>5, <1>6

(* Every file of a group is somewhere: hashed, failed, in the queue, or in  *)
(* a group that is not begun.                                               *)
EstimateInv ==
    /\ walked \in Seq(Entry) /\ pc \in {"walk", "hash", "done"}
    /\ hashed \in Seq(Nat) /\ queue \in Seq(Nat) /\ hash_errors \in Nat
    /\ Range(hashed) \subseteq Candidates /\ Range(queue) \subseteq Candidates
    /\ Len(hashed) <= MaxHashFiles
    /\ by_size \in SUBSET SizeCandidates
    /\ pc = "walk" => hashed = <<>> /\ queue = <<>> /\ hash_errors = 0 /\ by_size = {}
    /\ pc # "walk" => Len(hashed) + hash_errors + Len(queue) + FilesIn(by_size)
                        = FilesIn(SizeCandidates)
    /\ pc = "done" => CapReached \/ (queue = <<>> /\ by_size = {})

LEMMA EstimateInit == ASSUME Init PROVE EstimateInv
  <1>1. /\ walked = <<>> /\ pc = "walk" /\ hashed = <<>> /\ queue = <<>>
        /\ hash_errors = 0 /\ by_size = {}
    BY DEF Init
  <1>2. Range(<<>>) = {} /\ 0 <= MaxHashFiles
    BY WalkAssumption DEF Range
  <1>. QED
    BY <1>1, <1>2 DEF EstimateInv

(* What follows the walk is about the files it met.                         *)
LEMMA SameCandidates ==
    ASSUME walked' = walked
    PROVE  SizeCandidates' = SizeCandidates /\ Candidates' = Candidates
  <1>1. SizeCandidates' = SizeCandidates
    BY DEF SizeCandidates, Profiled, SizeOf
  <1>. QED
    BY <1>1 DEF Candidates

LEMMA QueueHead ==
    ASSUME NEW q \in Seq(Nat), q # <<>>
    PROVE  /\ Head(q) \in Range(q) /\ Head(q) \in Nat
           /\ Tail(q) \in Seq(Nat) /\ Len(Tail(q)) = Len(q) - 1
           /\ Range(Tail(q)) \subseteq Range(q) /\ Len(q) \in Nat /\ Len(q) > 0
  <1>1. PICK n : n = Len(q)
    OBVIOUS
  <1>2. /\ n \in Nat /\ n > 0 /\ DOMAIN q = 1 .. n /\ Head(q) = q[1]
        /\ Tail(q) \in Seq(Nat) /\ Len(Tail(q)) = n - 1
        /\ DOMAIN Tail(q) = 1 .. (n - 1) /\ \A i \in 1 .. (n - 1) : Tail(q)[i] = q[i + 1]
    BY <1>1, EmptySeq, LenProperties, HeadTailProperties
  <1>3. Range(Tail(q)) \subseteq Range(q)
    BY <1>2 DEF Range
  <1>4. q[1] \in Range(q) /\ q[1] \in Nat
    BY <1>2 DEF Range
  <1>. QED
    BY <1>1, <1>2, <1>3, <1>4

LEMMA EstimateStep == ASSUME EstimateInv, [Next]_vars PROVE EstimateInv'
  <1>1. /\ walked \in Seq(Entry) /\ pc \in {"walk", "hash", "done"}
        /\ hashed \in Seq(Nat) /\ queue \in Seq(Nat) /\ hash_errors \in Nat
        /\ Len(hashed) \in Nat /\ Len(queue) \in Nat
        /\ by_size \in SUBSET SizeCandidates
    BY LenProperties DEF EstimateInv
  <1>2. FilesIn(SizeCandidates) \in Nat /\ FilesIn(by_size) \in Nat
    BY <1>1, OneGroupLess
  <1>3. CASE \E e \in Entry : Visit(e)
    <2>1. PICK e \in Entry : Visit(e)
      BY <1>3
    <2>2. /\ pc = "walk" /\ pc' = pc /\ walked' = Append(walked, e)
          /\ hashed' = hashed /\ queue' = queue /\ hash_errors' = hash_errors
          /\ by_size' = by_size
      BY <2>1 DEF Visit, estimate
    <2>3. walked' \in Seq(Entry)
      BY <1>1, <2>2, AppendProperties
    <2>4. hashed = <<>> /\ queue = <<>> /\ hash_errors = 0 /\ by_size = {}
      BY <2>2 DEF EstimateInv
    <2>5. Range(<<>>) = {} /\ 0 <= MaxHashFiles
      BY WalkAssumption DEF Range
    <2>6. Len(hashed) <= MaxHashFiles
      BY DEF EstimateInv
    <2>. QED
      BY <1>1, <2>2, <2>3, <2>4, <2>5, <2>6 DEF EstimateInv
  <1>4. CASE EndWalk
    <2>1. /\ pc = "walk" /\ pc' = "hash" /\ walked' = walked /\ by_size' = SizeCandidates
          /\ hashed' = hashed /\ queue' = queue /\ hash_errors' = hash_errors
      BY <1>4 DEF EndWalk, walk
    <2>2. SizeCandidates' = SizeCandidates /\ Candidates' = Candidates
      BY <2>1, SameCandidates
    <2>3. hashed = <<>> /\ queue = <<>> /\ hash_errors = 0 /\ Len(<<>>) = 0
      BY <2>1, EmptySeq DEF EstimateInv
    <2>4. FilesIn(by_size)' = FilesIn(SizeCandidates)' /\ FilesIn(by_size)' \in Nat
      BY <1>2, <2>1, <2>2 DEF FilesIn
    <2>. QED
      BY <1>1, <2>1, <2>2, <2>3, <2>4 DEF EstimateInv
  <1>5. CASE \E g \in by_size : NextGroup(g)
    <2>1. PICK g \in by_size : NextGroup(g)
      BY <1>5
    <2>2. /\ pc = "hash" /\ queue = <<>> /\ queue' = g /\ by_size' = by_size \ {g}
          /\ walked' = walked /\ hashed' = hashed /\ hash_errors' = hash_errors /\ pc' = pc
      BY <2>1 DEF NextGroup, walk
    <2>3. SizeCandidates' = SizeCandidates /\ Candidates' = Candidates
      BY <2>2, SameCandidates
    <2>4. g \in Seq(Nat) /\ Len(g) \in Nat /\ Range(g) \subseteq Candidates
      BY <1>1, GroupsOfOneSize DEF Candidates
    <2>5. PICK all, rest, sum : /\ all = FilesIn(SizeCandidates) /\ sum = FilesIn(by_size)
                                /\ rest = FilesIn(by_size \ {g})
      OBVIOUS
    <2>6. sum = rest + Len(g) /\ rest \in Nat
      BY <1>1, <2>5, OneGroupLess
    <2>7. Len(hashed) + hash_errors + Len(queue) + sum = all /\ Len(queue) = 0
      BY <2>2, <2>5, EmptySeq DEF EstimateInv
    <2>8. Len(hashed) + hash_errors + Len(g) + rest = all
      BY <1>1, <2>4, <2>6, <2>7
    <2>9. FilesIn(by_size)' = rest /\ FilesIn(SizeCandidates)' = all
      BY <2>2, <2>3, <2>5 DEF FilesIn
    <2>10. Len(hashed) <= MaxHashFiles /\ Range(hashed) \subseteq Candidates
      BY DEF EstimateInv
    <2>. QED
      BY <1>1, <2>2, <2>3, <2>4, <2>8, <2>9, <2>10 DEF EstimateInv
  <1>6. CASE HashFile
    <2>1. /\ pc = "hash" /\ queue # <<>> /\ ~(Len(hashed) >= MaxHashFiles)
          /\ queue' = Tail(queue) /\ walked' = walked /\ by_size' = by_size /\ pc' = pc
          /\ \/ hashed' = Append(hashed, Head(queue)) /\ hash_errors' = hash_errors
             \/ hashed' = hashed /\ hash_errors' = hash_errors + 1
      BY <1>6 DEF HashFile, walk, CapReached
    <2>2. SizeCandidates' = SizeCandidates /\ Candidates' = Candidates
      BY <2>1, SameCandidates
    <2>3. /\ Head(queue) \in Range(queue) /\ Head(queue) \in Nat
          /\ Tail(queue) \in Seq(Nat) /\ Len(Tail(queue)) = Len(queue) - 1
          /\ Range(Tail(queue)) \subseteq Range(queue)
      BY <1>1, <2>1, QueueHead
    <2>4. Range(queue) \subseteq Candidates /\ Range(hashed) \subseteq Candidates
      BY DEF EstimateInv
    <2>5. PICK one : one = Append(hashed, Head(queue))
      OBVIOUS
    <2>6. one \in Seq(Nat) /\ Len(one) = Len(hashed) + 1 /\ Range(one) \subseteq Candidates
      <3>1. PICK x : x = Head(queue)
        OBVIOUS
      <3>2. /\ one \in Seq(Nat) /\ Len(one) = Len(hashed) + 1
            /\ DOMAIN hashed = 1 .. Len(hashed) /\ DOMAIN one = 1 .. (Len(hashed) + 1)
            /\ one[Len(hashed) + 1] = x
            /\ \A i \in 1 .. Len(hashed) : one[i] = hashed[i]
        BY <1>1, <2>3, <2>5, <3>1, AppendProperties, LenProperties
      <3>3. ASSUME NEW i \in DOMAIN one PROVE one[i] \in Range(hashed) \/ one[i] = x
        <4>1. i \in DOMAIN hashed \/ i = Len(hashed) + 1
          BY <1>1, <3>2
        <4>2. CASE i \in DOMAIN hashed
          BY <3>2, <4>2 DEF Range
        <4>. QED
          BY <3>2, <4>1, <4>2
      <3>. QED
        BY <2>3, <2>4, <3>1, <3>2, <3>3 DEF Range
    <2>7. /\ hashed' \in Seq(Nat) /\ Range(hashed') \subseteq Candidates /\ hash_errors' \in Nat
          /\ Len(hashed') + hash_errors' = Len(hashed) + hash_errors + 1
          /\ Len(hashed') <= MaxHashFiles /\ Len(hashed') \in Nat
      <3>1. MaxHashFiles \in Nat
        BY WalkAssumption
      <3>2. CASE hashed' = one /\ hash_errors' = hash_errors
        <4>1. PICK h : h = Len(hashed)
          OBVIOUS
        <4>2. h \in Nat /\ ~(h >= MaxHashFiles) /\ Len(one) = h + 1 /\ hash_errors \in Nat
          BY <1>1, <2>1, <2>6, <4>1
        <4>3. h + 1 <= MaxHashFiles /\ h + 1 + hash_errors = h + hash_errors + 1 /\ h + 1 \in Nat
          BY <3>1, <4>2
        <4>. QED
          BY <2>6, <3>2, <4>1, <4>2, <4>3
      <3>3. CASE hashed' = hashed /\ hash_errors' = hash_errors + 1
        BY <1>1, <2>1, <2>4, <3>1, <3>3
      <3>. QED
        BY <2>1, <2>5, <3>2, <3>3
    <2>8. PICK all, sum : all = FilesIn(SizeCandidates) /\ sum = FilesIn(by_size)
      OBVIOUS
    <2>9. Len(hashed) + hash_errors + Len(queue) + sum = all
      BY <2>1, <2>8 DEF EstimateInv
    <2>10. Len(hashed') + hash_errors' + Len(queue') + sum = all
      BY <1>1, <1>2, <2>1, <2>3, <2>7, <2>8, <2>9
    <2>11. FilesIn(by_size)' = sum /\ FilesIn(SizeCandidates)' = all
      BY <2>1, <2>2, <2>8 DEF FilesIn
    <2>12. /\ Range(hashed)' \subseteq Candidates /\ Range(queue)' \subseteq Candidates
      BY <2>1, <2>3, <2>4, <2>7 DEF Range
    <2>. QED
      BY <1>1, <2>1, <2>2, <2>3, <2>7, <2>10, <2>11, <2>12 DEF EstimateInv
  <1>7. CASE Finish \/ Done \/ UNCHANGED vars
    <2>1. /\ walked' = walked /\ hashed' = hashed /\ queue' = queue
          /\ hash_errors' = hash_errors /\ by_size' = by_size
      BY <1>7 DEF Finish, Done, vars, walk, estimate
    <2>2. SizeCandidates' = SizeCandidates /\ Candidates' = Candidates
      BY <2>1, SameCandidates
    <2>3. FilesIn(by_size)' = FilesIn(by_size) /\ FilesIn(SizeCandidates)' = FilesIn(SizeCandidates)
      BY <2>1, <2>2 DEF FilesIn
    <2>4. Range(hashed)' = Range(hashed) /\ Range(queue)' = Range(queue)
          /\ CapReached' = CapReached
      BY <2>1 DEF Range, CapReached
    <2>5. \/ pc' = pc
          \/ pc # "walk" /\ pc' = "done" /\ (CapReached \/ (queue = <<>> /\ by_size = {}))
      BY <1>7 DEF Finish, Done, vars
    <2>. QED
      BY <2>1, <2>2, <2>3, <2>4, <2>5 DEF EstimateInv
  <1>. QED
    BY <1>3, <1>4, <1>5, <1>6, <1>7 DEF Next

(* Same of EstimateIsTrue.                                                  *)
SameContent(f) == {g \in Range(hashed) : walked[g].content = walked[f].content}

LEMMA GainOfSizes ==
    ASSUME walked \in Seq(Entry), NEW C, Classes(Sizes, Profiled, C)
    PROVE  GainOf(C) = Gain(Sizes, C)
  <1>1. ASSUME NEW g \in C
        PROVE  (Cardinality(g) - 1) * SizeOf(CHOOSE f \in g : TRUE) = Value(Sizes, g)
    <2>1. PICK f : f = CHOOSE k \in g : TRUE
      OBVIOUS
    <2>2. f \in g /\ f \in Profiled
      BY <2>1 DEF Classes
    <2>3. Sizes[f] = SizeOf(f)
      BY <2>2, ProfiledShape
    <2>. QED
      BY <2>1, <2>3 DEF Value
  <1>. QED
    BY <1>1 DEF GainOf, Gain

(* The cap, failures and the order of the groups only ever lower the        *)
(* estimate, and it is never less than what keeping one file of each        *)
(* content gives back (estimate_duplicates in profile/scanner.rs).          *)
THEOREM EstimatesAreBounds == Spec => []EstimateIsTrue
  <1>1. EstimateInv => EstimateIsTrue
    <2> SUFFICES ASSUME EstimateInv PROVE EstimateIsTrue
      OBVIOUS
    <2>1. PICK n, H, U, sz : n = Len(walked) /\ H = Range(hashed) /\ U = Profiled /\ sz = Sizes
      OBVIOUS
    <2>2. walked \in Seq(Entry) /\ H \subseteq Candidates
      BY <2>1 DEF EstimateInv
    <2>3. /\ n \in Nat /\ U \in SUBSET (1 .. n) /\ sz \in [U -> Nat]
          /\ \A f \in U : sz[f] = SizeOf(f)
      BY <2>1, <2>2, ProfiledShape
    <2>4. ASSUME pc = "done"
          PROVE  /\ Len(hashed) + hash_errors + files_not_examined = FilesIn(SizeCandidates)
                 /\ files_not_examined > 0 => Len(hashed) = MaxHashFiles
      <3>1. PICK all, left, h, q : /\ all = FilesIn(SizeCandidates) /\ left = FilesIn(by_size)
                                   /\ h = Len(hashed) /\ q = Len(queue)
        OBVIOUS
      <3>2. /\ all \in Nat /\ left \in Nat /\ h \in Nat /\ q \in Nat /\ hash_errors \in Nat
            /\ by_size \in SUBSET SizeCandidates
        BY <2>2, <3>1, OneGroupLess, LenProperties DEF EstimateInv
      <3>3. h + hash_errors + q + left = all /\ h <= MaxHashFiles
        BY <2>4, <3>1 DEF EstimateInv
      <3>4. files_not_examined = Minus(all, h + hash_errors)
        BY <3>1 DEF files_not_examined, SumOver, FilesIn
      <3>5. files_not_examined = q + left
        BY <3>2, <3>3, <3>4 DEF Minus
      <3>6. CASE CapReached
        <4>1. h >= MaxHashFiles /\ MaxHashFiles \in Nat
          BY <3>1, <3>6, WalkAssumption DEF CapReached
        <4>2. h = MaxHashFiles
          BY <3>2, <3>3, <4>1
        <4>. QED
          BY <3>1, <3>2, <3>3, <3>5, <4>2
      <3>7. CASE queue = <<>> /\ by_size = {}
        <4>1. q = 0 /\ left = 0
          BY <2>2, <3>1, <3>2, <3>7, OneGroupLess, EmptySeq
        <4>. QED
          BY <3>1, <3>2, <3>3, <3>5, <4>1
      <3>. QED
        BY <2>4, <3>6, <3>7 DEF EstimateInv
    <2>5. PICK contents, quick, sizes : /\ contents = {SameContent(f) : f \in H}
                                        /\ quick = {QuickHashGroup(f) : f \in H}
                                        /\ sizes = {Range(g) : g \in SizeCandidates}
      OBVIOUS
    <2>6. \A h \in sizes : \E s \in Nat : h = OfSize(s)
      BY <2>2, <2>5, GroupsOfOneSize
    <2>7. H \subseteq UNION sizes /\ H \subseteq U
      <3>1. H \subseteq UNION sizes
        BY <2>2, <2>5 DEF Candidates
      <3>. QED
        BY <2>1, <2>6, <3>1 DEF OfSize
    <2>8. Classes(sz, U, contents)
      <3>1. ASSUME NEW f \in H
            PROVE  /\ SameContent(f) \in SUBSET U /\ f \in SameContent(f)
                   /\ \A a \in SameContent(f) : a \in H /\ walked[a].content = walked[f].content
        BY <2>1, <2>7 DEF SameContent
      <3>2. ASSUME NEW f \in H, NEW a \in SameContent(f), NEW b \in SameContent(f)
            PROVE  sz[a] = sz[b]
        <4>1. walked[a].content = walked[b].content /\ a \in U /\ b \in U
          BY <2>7, <3>1
        <4>2. SizeOf(a) = SizeOf(b)
          BY <4>1 DEF SizeOf
        <4>. QED
          BY <2>3, <4>1, <4>2
      <3>3. \A f, k \in H : \/ SameContent(f) = SameContent(k)
                            \/ SameContent(f) \cap SameContent(k) = {}
        BY DEF SameContent
      <3>. QED
        BY <2>5, <3>1, <3>2, <3>3 DEF Classes
    <2>9. Classes(sz, U, quick)
      <3>1. ASSUME NEW f \in H
            PROVE  /\ QuickHashGroup(f) \in SUBSET U /\ f \in QuickHashGroup(f)
                   /\ \A a \in QuickHashGroup(f) : a \in H /\ SizeOf(a) = SizeOf(f)
        BY <2>1, <2>7 DEF QuickHashGroup
      <3>2. \A f \in H : \A a, b \in QuickHashGroup(f) : sz[a] = sz[b]
        BY <2>3, <2>7, <3>1
      <3>3. \A f, k \in H : \/ QuickHashGroup(f) = QuickHashGroup(k)
                            \/ QuickHashGroup(f) \cap QuickHashGroup(k) = {}
        BY DEF QuickHashGroup
      <3>. QED
        BY <2>5, <3>1, <3>2, <3>3 DEF Classes
    <2>10. Classes(sz, U, sizes)
      <3>1. ASSUME NEW h \in sizes
            PROVE  h \in SUBSET U /\ h # {} /\ \A a, b \in h : sz[a] = sz[b]
        <4>1. PICK s \in Nat : h = OfSize(s)
          BY <2>6
        <4>2. h # {}
          <5>1. PICK g \in SizeCandidates : h = Range(g)
            BY <2>5
          <5>2. g \in Seq(Nat) /\ g # <<>>
            BY <2>2, <5>1, GroupsOfOneSize, EmptySeq
          <5>. QED
            BY <5>1, <5>2, QueueHead
        <4>. QED
          BY <2>1, <2>3, <4>1, <4>2 DEF OfSize
      <3>2. \A h, k \in sizes : h = k \/ h \cap k = {}
        BY <2>6 DEF OfSize
      <3>. QED
        BY <3>1, <3>2 DEF Classes
    <2>11. \A g \in contents : \E h \in quick : g \subseteq h
      <3>1. \A f \in H : SameContent(f) \subseteq QuickHashGroup(f)
        BY DEF SameContent, QuickHashGroup, SizeOf
      <3>. QED
        BY <2>5, <3>1
    <2>12. \A g \in quick : \E h \in sizes : g \subseteq h
      <3> SUFFICES ASSUME NEW f \in H PROVE \E h \in sizes : QuickHashGroup(f) \subseteq h
        BY <2>5
      <3>1. PICK h \in sizes : f \in h
        BY <2>7
      <3>2. PICK s \in Nat : h = OfSize(s)
        BY <2>6
      <3>3. QuickHashGroup(f) \subseteq h
        BY <2>1, <2>7, <3>1, <3>2 DEF QuickHashGroup, OfSize
      <3>. QED
        BY <3>3
    <2>13. Gain(sz, contents) <= Gain(sz, quick)
      BY ONLY <2>3, <2>8, <2>9, <2>11, FinerGainsLess
    <2>14. Gain(sz, quick) <= Gain(sz, sizes)
      BY ONLY <2>3, <2>9, <2>10, <2>12, FinerGainsLess
    <2>15. /\ GainOf(contents) = Gain(sz, contents) /\ GainOf(quick) = Gain(sz, quick)
           /\ GainOf(sizes) = Gain(sz, sizes)
      BY <2>1, <2>2, <2>8, <2>9, <2>10, GainOfSizes
    <2>16. /\ GainOf({SameContent(f) : f \in Range(hashed)}) <= reclaimable_bytes
           /\ reclaimable_bytes <= GainOf({Range(g) : g \in SizeCandidates})
      <3>1. reclaimable_bytes = GainOf(quick)
        BY <2>1, <2>5 DEF reclaimable_bytes, SumOver, GainOf
      <3>. QED
        BY <2>1, <2>5, <2>13, <2>14, <2>15, <3>1
    <2>. QED
      BY <2>4, <2>16 DEF EstimateIsTrue, SumOver, FilesIn, GainOf, SameContent
  <1>. QED
    BY <1>1, EstimateInit, EstimateStep, PTL DEF Spec

=============================================================================
