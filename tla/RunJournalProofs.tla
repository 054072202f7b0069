-------------------------- MODULE RunJournalProofs --------------------------
(***************************************************************************)
(* What the numbers read off a journal do when an entry is appended.  The  *)
(* rows of a journal are a sum over its acknowledgements, and a sum is the *)
(* number of cells of a set with f[i] cells for each i: that turns every   *)
(* question about it into one about the cardinality of a finite set.  The  *)
(* facts about least elements, finite sets and sums serve the proofs about *)
(* the other components as well.                                           *)
(***************************************************************************)
EXTENDS RunJournal, FiniteSetTheorems, SequenceTheorems, TLAPS

(* A property that a set has if it is empty, or if every way to take one    *)
(* element out of it leaves a set that has it, holds of every finite set.   *)
LEMMA FiniteSubsets ==
    ASSUME NEW D, IsFiniteSet(D), NEW G, {} \in G,
           \A s \in SUBSET D : s # {} /\ (\A x \in s : s \ {x} \in G) => s \in G
    PROVE  \A s \in SUBSET D : s \in G
  <1> DEFINE R == StrictSubsetOrdering(D)
             T == {s \in SUBSET D : s \notin G}
  <1>1. IsWellFoundedOn(R, SUBSET D)
    BY FS_StrictSubsetOrderingWellFounded, FS_FiniteSubsetsOfFinite
  <1>2. SUFFICES ASSUME T # {} PROVE FALSE
    OBVIOUS
  <1> HIDE DEF R
  <1>3. PICK s \in T : \A t \in T : <<t, s>> \notin R
    <2> HIDE DEF T
    <2>1. T \subseteq SUBSET D
      BY DEF T
    <2>. QED
      BY <1>1, <1>2, <2>1, WFMin
  <1>4. ASSUME NEW x \in s PROVE s \ {x} \in G
    <2>1. <<s \ {x}, s>> \in R
      BY DEF R, StrictSubsetOrdering
    <2>. QED
      BY <1>3, <2>1
  <1>. QED
    BY <1>3, <1>4

-----------------------------------------------------------------------------
(* Sums *)

(* f[i] cells for each i in s.                                              *)
Cells(f, s) == {c \in s \X Nat : c[2] \in 1 .. f[c[1]]}

LEMMA OneMoreColumn ==
    ASSUME NEW D, NEW f \in [D -> Nat], NEW s \in SUBSET D, NEW x \in s,
           IsFiniteSet(Cells(f, s \ {x}))
    PROVE  /\ IsFiniteSet(Cells(f, s))
           /\ Cardinality(Cells(f, s)) = f[x] + Cardinality(Cells(f, s \ {x}))
  <1> DEFINE new == {x} \X (1 .. f[x])
             old == Cells(f, s \ {x})
  <1>1. f[x] \in Nat
    OBVIOUS
  <1>2. IsFiniteSet(1 .. f[x]) /\ Cardinality(1 .. f[x]) = f[x]
    BY <1>1, FS_Interval
  <1>3. IsFiniteSet({x}) /\ Cardinality({x}) = 1
    BY FS_Singleton
  <1>4. IsFiniteSet(new) /\ Cardinality(new) = f[x]
    <2>1. IsFiniteSet(new) /\ Cardinality(new) = Cardinality({x}) * Cardinality(1 .. f[x])
      BY <1>2, <1>3, FS_Product
    <2>. QED
      BY <1>1, <1>2, <1>3, <2>1
  <1>5. Cells(f, s) = old \cup new
    BY <1>1 DEF Cells
  <1>6. old \cap new = {}
    BY DEF Cells
  <1>7. Cardinality(old) \in Nat
    BY FS_CardinalityType
  <1> HIDE DEF old, new
  <1>8. /\ IsFiniteSet(old \cup new)
        /\ Cardinality(old \cup new) = Cardinality(old) + Cardinality(new) - Cardinality({})
    <2>1. IsFiniteSet(old) /\ IsFiniteSet(new)
      BY <1>4 DEF old
    <2>. QED
      BY <1>6, <2>1, FS_Union
  <1>. QED
    BY <1>1, <1>4, <1>5, <1>7, <1>8, FS_EmptySet DEF old

LEMMA CellsAreFinite ==
    ASSUME NEW D, IsFiniteSet(D), NEW f \in [D -> Nat], NEW s \in SUBSET D
    PROVE  IsFiniteSet(Cells(f, s)) /\ Cardinality(Cells(f, s)) \in Nat
  <1> DEFINE G == {t \in SUBSET D : IsFiniteSet(Cells(f, t))}
  <1>1. {} \in G
    BY FS_EmptySet DEF Cells
  <1>2. \A t \in SUBSET D : t # {} /\ (\A x \in t : t \ {x} \in G) => t \in G
    BY OneMoreColumn
  <1>3. \A t \in SUBSET D : t \in G
    <2> HIDE DEF G
    <2>. QED
      BY <1>1, <1>2, FiniteSubsets
  <1>. QED
    BY <1>3, FS_CardinalityType

(* A sum is a number of cells, in whichever order the fold takes its terms. *)
LEMMA SumIsCells ==
    ASSUME NEW D, IsFiniteSet(D), NEW f \in [D -> Nat]
    PROVE  SumFunction(f) = Cardinality(Cells(f, D))
  <1> DEFINE Step(g, s) == IF s = {} THEN 0
                           ELSE f[CHOOSE x \in s : TRUE] + g[s \ {CHOOSE x \in s : TRUE}]
             iter == CHOOSE g : g = [s \in SUBSET D |-> Step(g, s)]
             cells == [s \in SUBSET D |-> Cardinality(Cells(f, s))]
  <1>1. SumFunction(f) = iter[D]
    BY DEF SumFunction, SumFunctionOnSet, FoldFunctionOnSet, MapThenFoldSet
  <1>2. ASSUME NEW s \in SUBSET D, s # {}, NEW x \in s
        PROVE  Cardinality(Cells(f, s)) = f[x] + Cardinality(Cells(f, s \ {x}))
    BY <1>2, CellsAreFinite, OneMoreColumn
  <1>3. Cardinality(Cells(f, {})) = 0
    BY FS_EmptySet DEF Cells
  <1>4. cells = [s \in SUBSET D |-> Step(cells, s)]
    BY <1>2, <1>3
  <1>5. iter = [s \in SUBSET D |-> Step(iter, s)]
    BY <1>4
  <1> HIDE DEF iter
  <1> DEFINE G == {s \in SUBSET D : iter[s] = Cardinality(Cells(f, s))}
  <1>6. {} \in G
    BY <1>3, <1>5
  <1>7. ASSUME NEW s \in SUBSET D, s # {}, \A x \in s : s \ {x} \in G
        PROVE  s \in G
    <2>1. PICK x \in s : x = CHOOSE y \in s : TRUE
      BY <1>7
    <2>2. iter[s] = f[x] + iter[s \ {x}]
      BY <1>5, <1>7, <2>1
    <2>. QED
      BY <1>2, <1>7, <2>2
  <1>8. D \in G
    <2> HIDE DEF G
    <2>. QED
      BY <1>6, <1>7, FiniteSubsets
  <1>. QED
    BY <1>1, <1>8

(* A sum with a term more.                                                  *)
LEMMA OneMoreTerm ==
    ASSUME NEW E, IsFiniteSet(E), NEW g \in [E -> Nat], NEW x \in E,
           NEW D, D = E \ {x}, NEW f \in [D -> Nat], \A y \in D : g[y] = f[y]
    PROVE  SumFunction(g) = SumFunction(f) + g[x] /\ SumFunction(f) \in Nat
  <1>1. IsFiniteSet(D) /\ g[x] \in Nat
    BY FS_Subset
  <1>2. Cells(g, E \ {x}) = Cells(f, D)
    BY DEF Cells
  <1>3. IsFiniteSet(Cells(f, D)) /\ Cardinality(Cells(f, D)) \in Nat
    BY <1>1, CellsAreFinite
  <1>4. Cardinality(Cells(g, E)) = g[x] + Cardinality(Cells(f, D))
    BY <1>2, <1>3, OneMoreColumn
  <1>5. SumFunction(f) = Cardinality(Cells(f, D)) /\ SumFunction(g) = Cardinality(Cells(g, E))
    BY <1>1, SumIsCells
  <1>. QED
    BY <1>1, <1>3, <1>4, <1>5

-----------------------------------------------------------------------------
(* The numbers of a journal *)

(* What the rows of an acknowledgement are, in every journal a run writes.  *)
RowsAreNumbers(h) == \A i \in Acks(h) : h[i].rows \in Nat

RowsOfAck(h) == [i \in Acks(h) |-> h[i].rows]

(* A history has finitely many acknowledgements, and its rows are cells.    *)
LEMMA CountsAreNumbers ==
    ASSUME NEW S, NEW h \in Seq(S), RowsAreNumbers(h)
    PROVE  /\ IsFiniteSet(Acks(h)) /\ RowsOfAck(h) \in [Acks(h) -> Nat]
           /\ RowsCommitted(h) = Cardinality(Cells(RowsOfAck(h), Acks(h)))
           /\ IsFiniteSet(Cells(RowsOfAck(h), Acks(h)))
           /\ RowsCommitted(h) \in Nat /\ BatchesCommitted(h) \in Nat
  <1>1. IsFiniteSet(Acks(h))
    <2>1. DOMAIN h = 1 .. Len(h) /\ Len(h) \in Nat
      BY LenProperties
    <2>2. IsFiniteSet(1 .. Len(h)) /\ Acks(h) \subseteq 1 .. Len(h)
      BY <2>1, FS_Interval DEF Acks
    <2>. QED
      BY <2>2, FS_Subset
  <1>2. RowsOfAck(h) \in [Acks(h) -> Nat]
    BY DEF RowsAreNumbers, RowsOfAck
  <1>3. RowsCommitted(h) = SumFunction(RowsOfAck(h))
    BY DEF RowsCommitted, RowsOfAck
  <1>. QED
    BY <1>1, <1>2, <1>3, SumIsCells, CellsAreFinite, FS_CardinalityType DEF BatchesCommitted

(* A history without an acknowledgement counts nothing.                     *)
LEMMA NoAcksNoRows ==
    ASSUME NEW S, NEW h \in Seq(S), Acks(h) = {}
    PROVE  RowsAreNumbers(h) /\ RowsCommitted(h) = 0 /\ BatchesCommitted(h) = 0
  <1>1. RowsAreNumbers(h)
    BY DEF RowsAreNumbers
  <1>2. Cells(RowsOfAck(h), Acks(h)) = {}
    BY DEF Cells
  <1>. QED
    BY <1>1, <1>2, CountsAreNumbers, FS_EmptySet DEF BatchesCommitted

(* A history with no other acknowledgements than a second one says no more. *)
LEMMA FewerAcksCountLess ==
    ASSUME NEW S, NEW h \in Seq(S), NEW T, NEW g \in Seq(T), RowsAreNumbers(g),
           Acks(h) \subseteq Acks(g), \A i \in Acks(h) : h[i] = g[i]
    PROVE  RowsAreNumbers(h) /\ RowsCommitted(h) <= RowsCommitted(g)
  <1>1. RowsAreNumbers(h)
    BY DEF RowsAreNumbers
  <1>2. Cells(RowsOfAck(h), Acks(h)) \subseteq Cells(RowsOfAck(g), Acks(g))
    BY DEF Cells, RowsOfAck
  <1>. QED
    BY <1>1, <1>2, CountsAreNumbers, FS_Subset

(* An acknowledgement adds its rows and one batch, any other entry nothing. *)
LEMMA AppendCounts ==
    ASSUME NEW S, NEW h \in Seq(S), NEW e \in S, RowsAreNumbers(h),
           IsAck(e) => e.rows \in Nat
    PROVE  /\ Acks(Append(h, e)) = Acks(h) \cup (IF IsAck(e) THEN {Len(h) + 1} ELSE {})
           /\ RowsAreNumbers(Append(h, e))
           /\ RowsCommitted(Append(h, e)) = RowsCommitted(h) + (IF IsAck(e) THEN e.rows ELSE 0)
           /\ BatchesCommitted(Append(h, e)) = BatchesCommitted(h) + (IF IsAck(e) THEN 1 ELSE 0)
  <1> DEFINE g == Append(h, e)
             last == Len(h) + 1
  <1>1. /\ g \in Seq(S) /\ Len(h) \in Nat
        /\ DOMAIN h = 1 .. Len(h) /\ DOMAIN g = 1 .. last
        /\ \A i \in 1 .. Len(h) : g[i] = h[i]
        /\ g[last] = e
    BY AppendProperties, LenProperties
  <1> HIDE DEF g
  <1>2. last \notin Acks(h) /\ \A i \in Acks(h) : g[i] = h[i]
    BY <1>1 DEF Acks
  <1>3. Acks(g) = Acks(h) \cup (IF IsAck(e) THEN {last} ELSE {})
    BY <1>1 DEF Acks
  <1>4. RowsAreNumbers(g)
    BY <1>1, <1>2, <1>3 DEF RowsAreNumbers
  <1>5. CASE ~IsAck(e)
    <2>1. Acks(g) = Acks(h) /\ RowsOfAck(g) = RowsOfAck(h)
      BY <1>2, <1>3, <1>5 DEF RowsOfAck
    <2>2. /\ RowsCommitted(g) = RowsCommitted(h) /\ RowsCommitted(h) \in Nat
          /\ BatchesCommitted(g) = BatchesCommitted(h) /\ BatchesCommitted(h) \in Nat
      BY <1>1, <1>4, <2>1, CountsAreNumbers DEF BatchesCommitted
    <2>. QED
      BY <1>3, <1>4, <1>5, <2>2 DEF g
  <1>6. CASE IsAck(e)
    <2> DEFINE f == RowsOfAck(g)
               D == Acks(g)
    <2>1. /\ D = Acks(h) \cup {last} /\ last \in D /\ D \ {last} = Acks(h)
          /\ f[last] = e.rows
      BY <1>1, <1>2, <1>3, <1>6 DEF RowsOfAck
    <2>2. Cells(f, Acks(h)) = Cells(RowsOfAck(h), Acks(h))
      BY <1>2, <1>3 DEF Cells, RowsOfAck
    <2>3. f \in [D -> Nat] /\ RowsCommitted(g) = Cardinality(Cells(f, D))
      BY <1>1, <1>4, CountsAreNumbers
    <2>4. /\ RowsCommitted(h) = Cardinality(Cells(f, D \ {last}))
          /\ IsFiniteSet(Cells(f, D \ {last})) /\ RowsCommitted(h) \in Nat
          /\ IsFiniteSet(Acks(h)) /\ BatchesCommitted(h) \in Nat
      BY <2>1, <2>2, CountsAreNumbers
    <2>5. Cardinality(D) = Cardinality(Acks(h)) + 1
      <3> HIDE DEF D
      <3>1. last \notin Acks(h)
        BY <1>2
      <3>2. IsFiniteSet(Acks(h))
        BY <2>4
      <3>3. Cardinality(Acks(h) \cup {last}) = Cardinality(Acks(h)) + 1
        BY ONLY <3>1, <3>2, FS_AddElement
      <3>. QED
        BY ONLY <2>1, <3>3
    <2> HIDE DEF f, D
    <2>6. RowsCommitted(g) = e.rows + RowsCommitted(h)
      BY ONLY <2>1, <2>3, <2>4, OneMoreColumn
    <2>7. e.rows \in Nat
      BY <1>6
    <2>8. BatchesCommitted(g) = BatchesCommitted(h) + 1
      BY <2>5 DEF BatchesCommitted, D
    <2>. QED
      BY <1>3, <1>4, <1>6, <2>4, <2>6, <2>7, <2>8 DEF g
  <1>. QED
    BY <1>5, <1>6

-----------------------------------------------------------------------------
(* What a history says *)

Ordinary(h) ==
    \A i \in DOMAIN h : h[i].state \in {"started", "committing", "batch_committed"}

(* An element that bounds a set of numbers is its maximum.                  *)
LEMMA Greatest ==
    ASSUME NEW s \in SUBSET Nat, NEW i \in s, \A j \in s : j <= i
    PROVE  Max(s) = i
  <1>1. \A y \in s : i >= y
    OBVIOUS
  <1>2. \A x \in s : (\A y \in s : x >= y) => x = i
    OBVIOUS
  <1>. QED
    BY <1>1, <1>2 DEF Max

(* The greatest index of a history is its length.                           *)
LEMMA LastIndex == ASSUME NEW n \in Nat \ {0} PROVE Max(1 .. n) = n
  BY Greatest

(* A journal without a terminal entry and without a closure is open.        *)
LEMMA OrdinaryIsOpen ==
    ASSUME NEW S, NEW h \in Seq(S), Ordinary(h)
    PROVE  /\ IsOpen(h) /\ ~IsClosed(h)
           /\ LastOwn(h).state \in {"started", "committing", "batch_committed"}
  <1>1. Len(h) \in Nat /\ DOMAIN h = 1 .. Len(h)
    BY LenProperties
  <1>2. \A i \in DOMAIN h : ~IsClosure(h[i])
    BY DEF Ordinary, IsClosure
  <1>3. ~IsClosed(h)
    BY <1>2 DEF IsClosed
  <1>4. LastOwn(h).state \in {"started", "committing", "batch_committed"}
    <2>1. {i \in DOMAIN h : ~IsClosure(h[i])} = 1 .. Len(h)
      BY <1>1, <1>2
    <2>2. CASE Len(h) = 0
      BY <2>1, <2>2 DEF LastOwn, Started
    <2>3. CASE Len(h) # 0
      <3>1. Max(1 .. Len(h)) = Len(h) /\ Len(h) \in 1 .. Len(h)
        BY <1>1, <2>3, LastIndex
      <3>2. LastOwn(h) = h[Len(h)]
        BY <2>1, <3>1 DEF LastOwn
      <3>. QED
        BY <1>1, <3>1, <3>2 DEF Ordinary
    <2>. QED
      BY <2>2, <2>3
  <1>. QED
    BY <1>3, <1>4 DEF IsOpen, Outcome

(* After a terminal entry the journal says what the entry says.             *)
LEMMA TerminalSpeaks ==
    ASSUME NEW S, NEW h \in Seq(S), Ordinary(h), NEW e \in S, ~IsClosure(e)
    PROVE  LastOwn(Append(h, e)) = e /\ ~IsClosed(Append(h, e))
  <1>. DEFINE g == Append(h, e)
  <1>1. /\ g \in Seq(S) /\ Len(g) = Len(h) + 1 /\ Len(h) \in Nat
        /\ \A i \in 1 .. Len(h) : g[i] = h[i]
        /\ g[Len(h) + 1] = e
        /\ DOMAIN h = 1 .. Len(h)
    BY AppendProperties, LenProperties
  <1>2. DOMAIN g = 1 .. Len(g)
    BY <1>1, LenProperties
  <1>. HIDE DEF g
  <1>3. \A i \in DOMAIN g : ~IsClosure(g[i])
    BY <1>1, <1>2 DEF Ordinary, IsClosure
  <1>4. {i \in DOMAIN g : ~IsClosure(g[i])} = 1 .. Len(g)
    BY <1>2, <1>3
  <1>5. Max(1 .. Len(g)) = Len(g) /\ Len(g) \in 1 .. Len(g)
    BY <1>1, LastIndex
  <1>6. LastOwn(g) = g[Len(g)]
    BY <1>4, <1>5 DEF LastOwn
  <1>. QED
    BY <1>1, <1>3, <1>6 DEF IsClosed, g

(* A set of indices that is not empty has a maximum.                        *)
LEMMA MaximumExists ==
    ASSUME NEW n \in Nat, NEW s \in SUBSET (1 .. n), s # {}
    PROVE  Max(s) \in s /\ \A j \in s : j <= Max(s)
  <1> DEFINE D == 1 .. n
             G == {t \in SUBSET D : t = {} \/ \E m \in t : \A j \in t : j <= m}
  <1>1. ASSUME NEW t \in SUBSET D, t # {}, \A x \in t : t \ {x} \in G
        PROVE  t \in G
    <2>1. PICK x \in t : t \ {x} \in G
      BY <1>1
    <2>2. CASE t \ {x} = {}
      BY <2>1, <2>2
    <2>3. CASE t \ {x} # {}
      <3>1. PICK m \in t \ {x} : \A j \in t \ {x} : j <= m
        BY <2>1, <2>3
      <3>2. \A j \in t : j <= m \/ j <= x
        BY <3>1
      <3>3. CASE m <= x
        BY <3>2, <3>3
      <3>4. CASE x <= m
        BY <3>2, <3>4
      <3>. QED
        BY <3>3, <3>4
    <2>. QED
      BY <2>2, <2>3
  <1>2. s \in G
    <2>1. IsFiniteSet(D) /\ {} \in G /\ s \in SUBSET D
      BY FS_Interval
    <2> HIDE DEF D, G
    <2>. QED
      BY <1>1, <2>1, FiniteSubsets
  <1>3. PICK m \in s : \A j \in s : j <= m
    BY <1>2
  <1>. QED
    BY <1>3, Greatest

(* And a minimum.                                                           *)
LEMMA MinimumExists ==
    ASSUME NEW n \in Nat, NEW s \in SUBSET (1 .. n), s # {}
    PROVE  Min(s) \in s /\ \A j \in s : Min(s) <= j
  <1> DEFINE D == 1 .. n
             G == {t \in SUBSET D : t = {} \/ \E m \in t : \A j \in t : m <= j}
  <1>1. ASSUME NEW t \in SUBSET D, t # {}, \A x \in t : t \ {x} \in G
        PROVE  t \in G
    <2>1. PICK x \in t : t \ {x} \in G
      BY <1>1
    <2>2. CASE t \ {x} = {}
      BY <2>1, <2>2
    <2>3. CASE t \ {x} # {}
      <3>1. PICK m \in t \ {x} : \A j \in t \ {x} : m <= j
        BY <2>1, <2>3
      <3>2. \A j \in t : m <= j \/ x <= j
        BY <3>1
      <3>3. CASE m <= x
        BY <3>2, <3>3
      <3>4. CASE x <= m
        BY <3>2, <3>4
      <3>. QED
        BY <3>3, <3>4
    <2>. QED
      BY <2>2, <2>3
  <1>2. s \in G
    <2>1. IsFiniteSet(D) /\ {} \in G /\ s \in SUBSET D
      BY FS_Interval
    <2> HIDE DEF D, G
    <2>. QED
      BY <1>1, <2>1, FiniteSubsets
  <1>3. \E m \in s : \A j \in s : m <= j
    BY <1>2
  <1>. QED
    BY <1>3 DEF Min

(* A closure changes neither the numbers of a run nor its last own entry.   *)
LEMMA ClosureAppended ==
    ASSUME NEW S, NEW h \in Seq(S), NEW e \in S, IsClosure(e), RowsAreNumbers(h)
    PROVE  /\ LastOwn(Append(h, e)) = LastOwn(h)
           /\ RowsAreNumbers(Append(h, e))
           /\ RowsCommitted(Append(h, e)) = RowsCommitted(h)
  <1> DEFINE g == Append(h, e)
             own == {i \in DOMAIN h : ~IsClosure(h[i])}
  <1>1. /\ Len(h) \in Nat /\ DOMAIN h = 1 .. Len(h) /\ DOMAIN g = 1 .. Len(h) + 1
        /\ \A i \in 1 .. Len(h) : g[i] = h[i]
        /\ g[Len(h) + 1] = e
    BY AppendProperties, LenProperties
  <1> HIDE DEF g
  <1>2. {i \in DOMAIN g : ~IsClosure(g[i])} = own
    BY <1>1
  <1>3. LastOwn(g) = LastOwn(h)
    <2>1. own \subseteq 1 .. Len(h)
      BY <1>1
    <2>2. own # {} => g[Max(own)] = h[Max(own)]
      <3> HIDE DEF own
      <3>. QED
        BY <1>1, <2>1, MaximumExists
    <2>. QED
      BY <1>2, <2>2 DEF LastOwn
  <1>4. ~IsAck(e)
    BY DEF IsAck, IsClosure
  <1>5. RowsAreNumbers(g) /\ RowsCommitted(g) = RowsCommitted(h) + 0
    BY <1>4, AppendCounts DEF g
  <1>. QED
    BY <1>3, <1>5, CountsAreNumbers DEF g
=============================================================================
