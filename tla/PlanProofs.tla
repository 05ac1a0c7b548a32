----------------------------- MODULE PlanProofs -----------------------------
(***************************************************************************)
(* Theorems about the partitions that open one file, and about the hint    *)
(* that a column is squeezed by.                                           *)
(***************************************************************************)
EXTENDS FileOpener, SqueezeHints, VariantColumns, NumberTheorems

-----------------------------------------------------------------------------
(* A file that several partitions open                                     *)

InRange(p, g) == range[p][1] <= offset[g] /\ offset[g] < range[p][2]
Wanted(r) == \A c \in predicate : Satisfies(r[2], c)

OpenType ==
  /\ file \in [RowGroups -> RowSets] /\ offset \in Layouts /\ range \in Splits
  /\ predicate \in SUBSET Conjuncts
  /\ opening \in [Partitions -> {"start", "upgrade", "loading", "prune", "open", "failed"}]
  /\ delivered \in [Partitions -> SUBSET AllRows]
  /\ cached \in BOOLEAN /\ loads \in Nat

\* The write lock belongs to the partition that loads; it was taken when nothing was
\* cached, and what is cached was loaded once.
LockInv ==
  /\ \A p \in Partitions : opening[p] = "loading" <=> p \in writer
  /\ writer \in SUBSET Partitions /\ \A p, q \in writer : p = q
  /\ writer # {} => ~cached
  /\ loads = IF cached THEN 1 ELSE 0

\* An open partition hands out rows of its range only, and of these all that satisfy
\* the predicate.
RowsInv ==
  \A p \in Opened :
    /\ \A r \in delivered[p] : InRange(p, r[1])
    /\ \A r \in AllRows : InRange(p, r[1]) /\ Wanted(r) => r \in delivered[p]

OpenInv == OpenType /\ LockInv /\ RowsInv

\* Before any partition opens the file the invariant holds.
LEMMA OpenInitially == OpenInit => OpenInv
<1> SUFFICES ASSUME OpenInit PROVE OpenInv
  OBVIOUS
<1>1. OpenType BY DEF OpenInit, OpenType
<1>2. LockInv BY DEF OpenInit, LockInv
<1>3. Opened = {} BY DEF OpenInit, Opened
<1> QED BY <1>1, <1>2, <1>3 DEF OpenInv, RowsInv

\* Finding the metadata cached, or not, keeps OpenInv.
LEMMA CheckCachedKeeps ==
  ASSUME OpenInv, NEW p \in Partitions, CheckCached(p) PROVE OpenInv'
<1> USE DEF OpenInv, CheckCached, Goto
<1>1. OpenType' BY DEF OpenType, AllRows
<1>2. LockInv' BY DEF OpenType, LockInv
<1>3. Opened' = Opened BY DEF OpenType, Opened
<1>4. RowsInv' BY <1>3 DEF RowsInv, InRange, Wanted, Satisfies, AllRows
<1> QED BY <1>1, <1>2, <1>4

\* Taking the write lock and looking again keeps OpenInv.
LEMMA LockAndCheckKeeps ==
  ASSUME OpenInv, NEW p \in Partitions, LockAndCheck(p) PROVE OpenInv'
<1> USE DEF OpenInv, LockAndCheck, Goto
<1>1. OpenType' BY DEF OpenType, AllRows
<1>2. LockInv' BY DEF OpenType, LockInv
<1>3. Opened' = Opened BY DEF OpenType, Opened
<1>4. RowsInv' BY <1>3 DEF RowsInv, InRange, Wanted, Satisfies, AllRows
<1> QED BY <1>1, <1>2, <1>4

\* Loading the metadata under the lock keeps OpenInv.
LEMMA LoadKeeps ==
  ASSUME OpenInv, NEW p \in Partitions, Load(p) PROVE OpenInv'
<1> USE DEF OpenInv, Load, Goto
<1>1. OpenType' BY DEF OpenType, AllRows
<1>2. LockInv' BY DEF OpenType, LockInv
<1>3. Opened' = Opened BY DEF OpenType, Opened
<1>4. RowsInv' BY <1>3 DEF RowsInv, InRange, Wanted, Satisfies, AllRows
<1> QED BY <1>1, <1>2, <1>4

\* Failing to load the metadata keeps OpenInv.
LEMMA GiveUpKeeps ==
  ASSUME OpenInv, NEW p \in Partitions, GiveUp(p) PROVE OpenInv'
<1> USE DEF OpenInv, GiveUp, Goto
<1>1. OpenType' BY DEF OpenType, AllRows
<1>2. LockInv' BY DEF OpenType, LockInv
<1>3. Opened' = Opened BY DEF OpenType, Opened
<1>4. RowsInv' BY <1>3 DEF RowsInv, InRange, Wanted, Satisfies, AllRows
<1> QED BY <1>1, <1>2, <1>4

\* Statistics and bloom filters prune no group that has a row the predicate wants.
LEMMA PruningIsSound ==
  ASSUME OpenType, NEW r \in AllRows, Wanted(r)
  PROVE  /\ r[1] \in RowGroups
         /\ \A c \in predicate : ~OutOfBounds(r[1], c) /\ ~Absent(r[1], c)
<1>0. PICK g \in RowGroups : \E row \in file[g] : r = <<g, row>>
  BY DEF AllRows
<1>1. PICK row \in file[g] : r = <<g, row>>
  BY <1>0
<1>2. r[1] = g /\ r[2] = row
  BY <1>1
<1>3. row.a \in Int
  BY OpenAssumption DEF OpenType
<1>4. ASSUME NEW c \in predicate, c.column = "a" PROVE ~OutOfBounds(g, c) /\ ~Absent(g, c)
  <2>1. row.a = c.value
    BY <1>2, <1>4 DEF Wanted, Satisfies
  <2>2. c.value \in Int
    BY OpenAssumption DEF OpenType
  <2> QED BY <2>1, <2>2, <1>3, OpenAssumption DEF OutOfBounds, Absent, OpenType
<1> QED BY <1>2, <1>4 DEF OutOfBounds, Absent

\* Pruning row groups and building the stream keeps OpenInv.
LEMMA OpenStreamKeeps ==
  ASSUME OpenInv, NEW p \in Partitions, NEW statistics \in BOOLEAN, NEW failed \in BOOLEAN,
         NEW exact \in {{}, RowGroups}, OpenStream(p, statistics, exact, failed)
  PROVE  OpenInv'
<1> DEFINE ranged == PruneByRange(RowGroups, range[p])
           bounded == IF statistics THEN PruneByStatistics(ranged) ELSE ranged
           groups == PruneByBloomFilters(bounded, exact)
           rows == {r \in AllRows : r[1] \in groups /\ \A c \in BuildRowFilter(failed) : Satisfies(r[2], c)}
<1>1. /\ opening[p] = "prune" /\ opening' = [opening EXCEPT ![p] = "open"]
      /\ delivered' = [delivered EXCEPT ![p] = rows]
      /\ UNCHANGED <<file, offset, range, predicate, cached, writer, loads>>
  BY DEF OpenStream, Goto
<1>2. \A r \in rows : InRange(p, r[1])
  BY DEF PruneByBloomFilters, PruneByStatistics, PruneByRange, InRange
<1>3. ASSUME NEW r \in AllRows, InRange(p, r[1]), Wanted(r) PROVE r \in rows
  <2>1. r[1] \in RowGroups /\ \A c \in predicate : ~OutOfBounds(r[1], c) /\ ~Absent(r[1], c)
    BY <1>3, PruningIsSound DEF OpenInv
  <2>2. r[1] \in ranged
    BY <1>3, <2>1 DEF PruneByRange, InRange
  <2>3. r[1] \in bounded
    BY <2>1, <2>2 DEF PruneByStatistics
  <2>4. r[1] \in groups
    BY <2>1, <2>3 DEF PruneByBloomFilters
  <2>5. \A c \in BuildRowFilter(failed) : Satisfies(r[2], c)
    BY <1>3 DEF BuildRowFilter, Wanted
  <2> QED BY <2>4, <2>5
<1>4. rows \in SUBSET AllRows
  OBVIOUS
<1> HIDE DEF rows
<1>5. OpenType'
  BY <1>1, <1>4 DEF OpenInv, OpenType, AllRows
<1>6. LockInv'
  BY <1>1 DEF OpenInv, OpenType, LockInv
<1>7. AllRows' = AllRows /\ \A r : Wanted(r)' = Wanted(r)
  BY <1>1 DEF AllRows, Wanted, Satisfies
<1>8. ASSUME NEW q \in Opened'
      PROVE  /\ \A r \in delivered'[q] : InRange(q, r[1])'
             /\ \A r \in AllRows' : InRange(q, r[1])' /\ Wanted(r)' => r \in delivered'[q]
  <2>1. CASE q = p
    BY <2>1, <1>1, <1>2, <1>3, <1>7 DEF OpenInv, OpenType, InRange
  <2>2. CASE q # p
    <3>1. q \in Opened /\ delivered'[q] = delivered[q]
      BY <2>2, <1>1 DEF OpenInv, OpenType, Opened
    <3> QED BY <3>1, <1>1, <1>7 DEF OpenInv, RowsInv, InRange
  <2> QED BY <2>1, <2>2
<1>9. RowsInv'
  BY <1>8 DEF RowsInv
<1> QED BY <1>5, <1>6, <1>9 DEF OpenInv

\* OpenInv holds whatever order partitions open the file in.
LEMMA OpenInvariant == OpenSpec => []OpenInv
<1>1. OpenInv /\ [OpenNext]_openVars => OpenInv'
  <2> SUFFICES ASSUME OpenInv, [OpenNext]_openVars PROVE OpenInv'
    OBVIOUS
  <2>1. CASE UNCHANGED openVars
    BY <2>1 DEF openVars, OpenInv, OpenType, LockInv, RowsInv, Opened, InRange, Wanted, Satisfies, AllRows
  <2>2. CASE OpenNext
    <3>1. PICK p \in Partitions :
            \/ CheckCached(p) \/ LockAndCheck(p) \/ Load(p) \/ GiveUp(p)
            \/ \E statistics, failed \in BOOLEAN : \E exact \in {{}, RowGroups} : OpenStream(p, statistics, exact, failed)
      BY <2>2 DEF OpenNext
    <3> QED BY <3>1, CheckCachedKeeps, LockAndCheckKeeps, LoadKeeps, GiveUpKeeps, OpenStreamKeeps
  <2> QED BY <2>1, <2>2
<1> QED BY <1>1, OpenInitially, PTL DEF OpenSpec

\* The partitions of a file hand out each row at most once and, once all are open,
\* every row that the predicate wants, and they load its metadata once, for every
\* number of partitions and row groups, every layout of the file and every way to
\* cut it (opener.rs, row_group_filter.rs, metadata cache).
THEOREM FilesOpenExactly == OpenSpec => []OpenedExactly
<1>1. OpenInv => OpenedExactly
  <2> SUFFICES ASSUME OpenInv PROVE OpenedExactly
    OBVIOUS
  <2>1. ASSUME NEW p \in Opened, NEW q \in Opened, p # q PROVE delivered[p] \intersect delivered[q] = {}
    <3> SUFFICES ASSUME NEW r \in delivered[p], r \in delivered[q] PROVE FALSE
      OBVIOUS
    <3>1. r[1] \in RowGroups
      BY DEF OpenInv, OpenType, Opened, AllRows
    <3>2. InRange(p, r[1]) /\ InRange(q, r[1])
      BY DEF OpenInv, RowsInv
    <3>3. offset[r[1]] \in Nat
      BY <3>1, OpenAssumption DEF OpenInv, OpenType
    <3>4. range[p] \in Nat \X Nat /\ range[q] \in Nat \X Nat
      BY OpenAssumption DEF OpenInv, OpenType, Opened
    <3>5. range[p][2] <= range[q][1] \/ range[q][2] <= range[p][1]
      BY <2>1, OpenAssumption DEF OpenInv, OpenType, Opened
    <3> QED BY <3>2, <3>3, <3>4, <3>5 DEF InRange
  <2>2. ASSUME Opened = Partitions, NEW r \in AllRows, Wanted(r) PROVE \E p \in Partitions : r \in delivered[p]
    <3>1. r[1] \in RowGroups
      BY DEF AllRows
    <3>2. PICK p \in Partitions : InRange(p, r[1])
      BY <3>1, OpenAssumption DEF OpenInv, OpenType, InRange
    <3> QED BY <3>2, <2>2 DEF OpenInv, RowsInv
  <2>3. loads <= 1
    BY DEF OpenInv, LockInv
  <2> QED BY <2>1, <2>2, <2>3 DEF OpenedExactly, Wanted
<1> QED BY <1>1, OpenInvariant, PTL

-----------------------------------------------------------------------------
(* The hint of a column                                                    *)

\* The positions of an expression in a history, and how many they are.
LEMMA CountIsBounded ==
  ASSUME NEW S, NEW h \in Seq(S), NEW x
  PROVE  /\ Count(h, x) \in Nat /\ Count(h, x) <= Len(h)
         /\ \A n \in 0 .. Len(h) : (\A i \in n + 1 .. Len(h) : h[i] # x) => Count(h, x) <= n
         /\ \A n \in 0 .. Len(h) : (\A i \in n + 1 .. Len(h) : h[i] = x) => Len(h) - n <= Count(h, x)
<1> DEFINE P == {i \in DOMAIN h : h[i] = x}
<1>1. Len(h) \in Nat /\ DOMAIN h = 1 .. Len(h)
  OBVIOUS
<1>2. \A a, b \in Int : IsFiniteSet(a .. b) /\ Cardinality(a .. b) = IF a > b THEN 0 ELSE b - a + 1
  BY FS_Interval
<1>3. IsFiniteSet(P) /\ P \in SUBSET (1 .. Len(h))
  <2>1. P \in SUBSET (1 .. Len(h))
    BY <1>1
  <2>2. IsFiniteSet(1 .. Len(h))
    BY <1>1, <1>2
  <2> QED BY <2>1, <2>2, FS_Subset
<1> HIDE DEF P
<1>4. Cardinality(P) \in Nat /\ Cardinality(P) <= Len(h)
  <2>0. IsFiniteSet(1 .. Len(h))
    BY <1>1, <1>2
  <2>1. Cardinality(P) <= Cardinality(1 .. Len(h))
    BY <2>0, <1>3, FS_Subset
  <2>2. Cardinality(1 .. Len(h)) = Len(h)
    BY <1>1, <1>2
  <2> QED BY <1>1, <1>3, <2>1, <2>2, FS_CardinalityType
<1>5. ASSUME NEW n \in 0 .. Len(h), \A i \in n + 1 .. Len(h) : h[i] # x PROVE Cardinality(P) <= n
  <2>1. P \subseteq 1 .. n
    BY <1>1, <1>5 DEF P
  <2>2. Cardinality(1 .. n) = n /\ IsFiniteSet(1 .. n)
    BY <1>1, <1>2
  <2> QED BY <2>1, <2>2, FS_Subset
<1>6. ASSUME NEW n \in 0 .. Len(h), \A i \in n + 1 .. Len(h) : h[i] = x PROVE Len(h) - n <= Cardinality(P)
  <2>1. (n + 1 .. Len(h)) \in SUBSET P
    BY <1>1, <1>6 DEF P
  <2>2. Cardinality(n + 1 .. Len(h)) = Len(h) - n
    <3>1. PICK a \in Int : a = n + 1
      OBVIOUS
    <3>2. Cardinality(a .. Len(h)) = Len(h) - a + 1
      BY <1>1, <3>1, IntervalSize
    <3> QED BY <1>1, <3>1, <3>2
  <2>3. Cardinality(n + 1 .. Len(h)) <= Cardinality(P)
    BY <2>1, <1>3, FS_Subset
  <2> QED BY <2>2, <2>3
<1>7. Count(h, x) = Cardinality(P)
  BY DEF Count, P
<1> QED BY <1>4, <1>5, <1>6, <1>7

\* LastOf is the last position at which x occurs.
LEMMA LastOfIsLast ==
  ASSUME NEW S, NEW h \in Seq(S), NEW x \in {h[i] : i \in DOMAIN h}
  PROVE  /\ LastOf(h, x) \in 1 .. Len(h) /\ h[LastOf(h, x)] = x
         /\ \A j \in LastOf(h, x) + 1 .. Len(h) : h[j] # x
<1> DEFINE P == {i \in 1 .. Len(h) : h[i] = x}
<1>1. Len(h) \in Nat /\ DOMAIN h = 1 .. Len(h)
  OBVIOUS
<1>2. P \in SUBSET Nat /\ P # {} /\ \A i \in P : i <= Len(h)
  BY <1>1
<1> HIDE DEF P
<1>3. PICK n \in P : \A m \in P : m <= n
  BY <1>1, <1>2, GreatestNumber
<1>4. n \in DOMAIN h /\ h[n] = x /\ \A j \in n + 1 .. Len(h) : h[j] # x
  BY <1>1, <1>3 DEF P
<1> QED BY <1>1, <1>4 DEF LastOf

\* The majority of a history is one expression.
LEMMA MajorityIsOne ==
  ASSUME NEW S, NEW h \in Seq(S), h # <<>> PROVE \E x : Majority(h) = {x}
<1> DEFINE R == {h[i] : i \in DOMAIN h}
           C == {Count(h, x) : x \in R}
<1>1. Len(h) \in Nat /\ R # {}
  OBVIOUS
<1>2. \A x \in R : Count(h, x) \in Nat /\ Count(h, x) <= Len(h)
  BY CountIsBounded
<1>3. \A x \in R : LastOf(h, x) \in 1 .. Len(h) /\ h[LastOf(h, x)] = x
  BY LastOfIsLast
<1>4. Majority(h) = {x \in R : \A y \in R : Count(h, y) < Count(h, x) \/ (Count(h, y) = Count(h, x) /\ LastOf(h, y) <= LastOf(h, x))}
  BY DEF Majority
<1> HIDE DEF R
<1>5. PICK c \in C : \A d \in C : d <= c
  <2>1. C \in SUBSET Nat /\ C # {} /\ \A d \in C : d <= Len(h)
    BY <1>1, <1>2
  <2> HIDE DEF C
  <2> QED BY <1>1, <2>1, GreatestNumber
<1> DEFINE L == {LastOf(h, x) : x \in {y \in R : Count(h, y) = c}}
<1>6. PICK l \in L : \A k \in L : k <= l
  <2>1. L \in SUBSET Nat /\ L # {} /\ \A k \in L : k <= Len(h)
    BY <1>1, <1>3, <1>5
  <2> HIDE DEF L
  <2> QED BY <1>1, <2>1, GreatestNumber
<1>7. PICK x \in R : Count(h, x) = c /\ LastOf(h, x) = l
  BY <1>6
<1>8. \A y \in R : Count(h, y) <= c /\ (Count(h, y) = c => LastOf(h, y) <= l)
  BY <1>5, <1>6
<1> HIDE DEF C, L
<1>9. x \in Majority(h)
  BY <1>2, <1>4, <1>7, <1>8
<1>10. ASSUME NEW z \in Majority(h) PROVE z = x
  <2>1. z \in R /\ (Count(h, x) < Count(h, z) \/ (Count(h, x) = Count(h, z) /\ LastOf(h, x) <= LastOf(h, z)))
    BY <1>4
  <2>2. Count(h, z) = c /\ l <= LastOf(h, z)
    BY <2>1, <1>2, <1>7, <1>8
  <2>3. LastOf(h, z) = l
    BY <2>1, <2>2, <1>3, <1>7, <1>8
  <2> QED BY <2>1, <2>3, <1>3, <1>7
<1> QED BY <1>9, <1>10

\* An expression that fills the newer half of the history is the majority.
LEMMA NewerHalfWins ==
  ASSUME NEW S, NEW h \in Seq(S), NEW half \in Nat \ {0}, NEW x,
         half <= Len(h), Len(h) <= 2 * half,
         \A i \in Len(h) - half + 1 .. Len(h) : h[i] = x
  PROVE  Majority(h) = {x}
<1> DEFINE R == {h[i] : i \in DOMAIN h}
<1>1. PICK n \in Nat : n = Len(h) - half
  OBVIOUS
<1>2. Len(h) \in Nat \ {0} /\ DOMAIN h = 1 .. Len(h) /\ n \in 0 .. Len(h) /\ \A i \in n + 1 .. Len(h) : h[i] = x
  BY <1>1
<1>3. h[Len(h)] = x /\ x \in R
  BY <1>1, <1>2
<1>4. Count(h, x) \in Nat /\ half <= Count(h, x)
  <2>1. Len(h) - n <= Count(h, x) /\ Count(h, x) \in Nat
    BY <1>2, CountIsBounded
  <2> QED BY <1>1, <2>1
<1>5. LastOf(h, x) = Len(h)
  <2>1. LastOf(h, x) \in 1 .. Len(h) /\ \A j \in LastOf(h, x) + 1 .. Len(h) : h[j] # x
    BY <1>3, LastOfIsLast
  <2> QED BY <2>1, <1>2, <1>3
<1>6. ASSUME NEW y \in R
      PROVE  Count(h, y) < Count(h, x) \/ (Count(h, y) = Count(h, x) /\ LastOf(h, y) <= LastOf(h, x))
  <2>1. LastOf(h, y) \in 1 .. Len(h)
    BY LastOfIsLast
  <2>2. CASE y = x
    BY <2>1, <2>2, <1>5
  <2>3. CASE y # x
    <3>1. \A i \in n + 1 .. Len(h) : h[i] # y
      BY <2>3, <1>2
    <3>2. Count(h, y) \in Nat /\ Count(h, y) <= n
      BY <3>1, <1>2, CountIsBounded
    <3>3. Count(h, y) <= Count(h, x)
      BY <3>2, <1>1, <1>2, <1>4
    <3> QED BY <2>1, <3>2, <3>3, <1>4, <1>5
  <2> QED BY <2>2, <2>3
<1>7. x \in Majority(h)
  BY <1>3, <1>6 DEF Majority
<1>8. h # <<>>
  BY <1>2
<1> HIDE DEF R
<1> QED BY <1>7, <1>8, MajorityIsOne

\* The history is the end of the workload.
HintInv ==
  /\ history \in Seq(Expressed) /\ queries \in Seq(Expressed)
  /\ Len(history) = IF Len(queries) < History THEN Len(queries) ELSE History
  /\ \A i \in 1 .. Len(history) : history[i] = queries[Len(queries) - Len(history) + i]

\* HintInv holds after any workload.
LEMMA HintInvariant == HintSpec => []HintInv
<1>1. HintInit => HintInv
  BY HintsAssumption DEF HintInit, HintInv
<1>2. HintInv /\ [HintNext]_hintVars => HintInv'
  <2> SUFFICES ASSUME HintInv, [HintNext]_hintVars PROVE HintInv'
    OBVIOUS
  <2>1. CASE UNCHANGED hintVars
    BY <2>1 DEF hintVars, HintInv
  <2>2. CASE HintNext
    <3>1. PICK x \in Expressed : AddSqueezeHint(x)
      BY <2>2 DEF HintNext
    <3>2. queries' = Append(queries, x) /\ queries' \in Seq(Expressed) /\ Len(queries') = Len(queries) + 1
      BY <3>1 DEF AddSqueezeHint, HintInv
    <3>3. CASE Len(history) = History
      <4>1. history # <<>> /\ Tail(history) \in Seq(Expressed) /\ Len(Tail(history)) = History - 1
        BY <3>3, HintsAssumption DEF HintInv
      <4>2. history' = Append(Tail(history), x)
        BY <3>1, <3>3 DEF AddSqueezeHint, Record
      <4>3. history' \in Seq(Expressed) /\ Len(history') = History
        BY <4>1, <4>2, HintsAssumption
      <4>4. \A i \in 1 .. History : history'[i] = IF i < History THEN history[i + 1] ELSE x
        BY <4>1, <4>2, <3>3, HintsAssumption DEF HintInv
      <4>5. \A i \in 1 .. Len(queries) + 1 : queries'[i] = IF i <= Len(queries) THEN queries[i] ELSE x
        BY <3>2 DEF HintInv
      <4>6. Len(queries) \in Nat /\ History <= Len(queries)
        BY <3>3, HintsAssumption DEF HintInv
      <4>7. \A i \in 1 .. History : history'[i] = queries'[Len(queries) + 1 - History + i]
        <5> SUFFICES ASSUME NEW i \in 1 .. History PROVE history'[i] = queries'[Len(queries) + 1 - History + i]
          OBVIOUS
        <5>1. PICK j \in 1 .. Len(queries) + 1 : j = Len(queries) + 1 - History + i
          BY <4>6, HintsAssumption
        <5>2. CASE i < History
          <6>1. i + 1 \in 1 .. Len(history) /\ Len(queries) - Len(history) + (i + 1) = j
            BY <5>1, <5>2, <3>3, <4>6, HintsAssumption
          <6>2. history[i + 1] = queries[j]
            BY <6>1 DEF HintInv
          <6>3. j <= Len(queries)
            BY <5>1, <5>2, <4>6, HintsAssumption
          <6> QED BY <6>2, <6>3, <5>1, <5>2, <4>4, <4>5
        <5>3. CASE i = History
          <6>1. j = Len(queries) + 1
            BY <5>1, <5>3, <4>6, HintsAssumption
          <6> QED BY <6>1, <5>1, <5>3, <4>4, <4>5, <4>6
        <5> QED BY <5>2, <5>3, HintsAssumption
      <4>8. Len(queries') - Len(history') = Len(queries) + 1 - History /\ ~(Len(queries') < History)
        BY <3>2, <4>3, <4>6, HintsAssumption
      <4> QED BY <3>2, <4>3, <4>7, <4>8 DEF HintInv
    <3>4. CASE Len(history) # History
      <4>1. history' = Append(history, x)
        BY <3>1, <3>4 DEF AddSqueezeHint, Record
      <4>2. Len(history) = Len(queries) /\ Len(queries) < History /\ Len(queries) \in Nat
        BY <3>4 DEF HintInv
      <4>3. history' \in Seq(Expressed) /\ Len(history') = Len(queries')
        BY <4>1, <4>2, <3>2 DEF HintInv
      <4>4. \A i \in 1 .. Len(history') : history'[i] = queries'[i]
        BY <4>1, <4>2, <3>2 DEF HintInv
      <4> QED BY <3>2, <4>2, <4>3, <4>4, HintsAssumption DEF HintInv
    <3> QED BY <3>3, <3>4
  <2> QED BY <2>1, <2>2
<1> QED BY <1>1, <1>2, PTL DEF HintSpec

\* However long the history is kept, an expression that half as many queries in a
\* row asked for is the one that the column is squeezed for, and there is always
\* exactly one (ColumnExpressionTracker::majority, squeeze hints).
THEOREM HintsFollowWorkload == HintSpec => []HintFollowsWorkload
<1>1. HintInv => HintFollowsWorkload
  <2> SUFFICES ASSUME HintInv PROVE HintFollowsWorkload
    OBVIOUS
  <2>1. PICK half \in Nat \ {0} : half = (History + 1) \div 2 /\ half <= History /\ History <= 2 * half
    BY HintsAssumption
  <2> DEFINE recent == SubSeq(queries, Len(queries) - half + 1, Len(queries))
  <2>2. ASSUME Len(queries) >= half, \A i, j \in DOMAIN recent : recent[i] = recent[j]
        PROVE  Majority(history) = {recent[1]}
    <3>1. Len(queries) \in Nat /\ Len(history) \in Nat /\ history \in Seq(Expressed)
      BY DEF HintInv
    <3>2. DOMAIN recent = 1 .. half /\ \A i \in 1 .. half : recent[i] = queries[Len(queries) - half + i]
      BY <2>1, <2>2, <3>1, SMTT(40) DEF HintInv
    <3>3. half <= Len(history) /\ Len(history) <= 2 * half
      BY <2>1, <2>2, <3>1, HintsAssumption DEF HintInv
    <3>4. ASSUME NEW i \in Len(history) - half + 1 .. Len(history) PROVE history[i] = recent[1]
      <4>1. PICK k \in 1 .. half : k = i - (Len(history) - half)
        BY <3>1, <3>3
      <4>2. history[i] = queries[Len(queries) - Len(history) + i]
        BY <3>1, <3>3 DEF HintInv
      <4>3. Len(queries) - Len(history) + i = Len(queries) - half + k
        BY <3>1, <4>1
      <4>4. history[i] = recent[k]
        BY <4>1, <4>2, <4>3, <3>2
      <4>5. 1 \in DOMAIN recent /\ k \in DOMAIN recent
        BY <4>1, <3>2
      <4> HIDE DEF recent
      <4> QED BY <4>4, <4>5, <2>2
    <3> HIDE DEF recent
    <3> QED BY <3>1, <3>3, <3>4, NewerHalfWins
  <2>3. queries # <<>> => Cardinality(Majority(history)) = 1
    <3> SUFFICES ASSUME queries # <<>> PROVE Cardinality(Majority(history)) = 1
      OBVIOUS
    <3>1. history # <<>>
      BY HintsAssumption DEF HintInv
    <3>2. \E x : Majority(history) = {x}
      BY <3>1, MajorityIsOne DEF HintInv
    <3> QED BY <3>2, SingletonSize
  <2> QED BY <2>1, <2>2, <2>3 DEF HintFollowsWorkload
<1> QED BY <1>1, HintInvariant, PTL

-----------------------------------------------------------------------------
(* A cached batch of a variant column                                      *)

\* The columns that a squeezed entry keeps hold what the documents say at their
\* paths, whatever queries they were kept for.
Keeps(values) == \A p \in DOMAIN values : values[p].column = VariantGet(documents, Request(p, values[p].type))
NullRows(rows) == {i \in DOMAIN rows : ~rows[i].valid}
SqueezedEntry(values, rows) == [form |-> "squeezed", values |-> values, nulls |-> NullRows(rows), len |-> Len(rows)]

VariantInv ==
  /\ DOMAIN documents = 1 .. Len(documents)
  /\ \/ variant = NotCached
     \/ \E array : variant = InMemory(array) /\ array.rows = documents
     \/ variant = OnDisk /\ backing.rows = documents
     \/ /\ \E values : variant = SqueezedEntry(values, documents) /\ Keeps(values)
        /\ backing.rows = documents

\* Shredding and squeezing look at the rows and never change them.
LEMMA ShreddingKeepsRows == \A array, mapping : MaybeShred(array, mapping).rows = array.rows
  BY DEF MaybeShred, Shredded

\* A squeezed batch keeps the documents' values at its paths, and its bytes
\* the documents.
LEMMA SqueezeKeepsValues ==
  ASSUME NEW array, NEW requests, array.rows = documents,
         NEW new, new = TryVariantSqueeze(array, requests), new # NoSqueeze
  PROVE  /\ new[2].rows = documents
         /\ \E values : new[1] = SqueezedEntry(values, documents) /\ Keeps(values)
<1> DEFINE shredded == Shredded(array.rows, ShreddingType(InsertPaths(array.typed, requests)))
           collected == {p \in {requests[i].path : i \in DOMAIN requests} : HasNode(shredded.typed, p)}
           values == [p \in collected |-> [type |-> shredded.typed[p], column |-> TypedValues(shredded, p)]]
<1>1. new = << SqueezedEntry(values, array.rows), shredded >>
  BY DEF TryVariantSqueeze, SqueezedEntry, NullRows
<1>2. shredded.rows = documents
  BY DEF Shredded
<1>3. Keeps(values)
  BY <1>2 DEF Keeps, TypedValues, Request
<1> HIDE DEF shredded, collected, values
<1> QED BY <1>1, <1>2, <1>3

\* Inserting a shredded batch keeps VariantInv.
LEMMA InsertVariantKeeps ==
  ASSUME VariantInv, NEW array \in VariantFiles, NEW mapping, InsertVariant(array, mapping) PROVE VariantInv'
<1>1. documents' = array.rows /\ variant' = InMemory(MaybeShred(array, mapping))
  BY DEF InsertVariant
<1>2. MaybeShred(array, mapping).rows = array.rows
  BY ShreddingKeepsRows
<1>3. DOMAIN documents' = 1 .. Len(documents')
  BY <1>1, VariantAssumption
<1> QED BY <1>1, <1>2, <1>3 DEF VariantInv

\* Squeezing the batch for a hint keeps VariantInv.
LEMMA SqueezeVariantKeeps ==
  ASSUME VariantInv, NEW hint, SqueezeVariant(hint) PROVE VariantInv'
<1>1. PICK array : variant = InMemory(array) /\ array.rows = documents
  BY DEF VariantInv, SqueezeVariant, NotCached, OnDisk, SqueezedEntry
<1>2. variant.array = array
  BY <1>1 DEF InMemory
<1>3. documents' = documents
  BY DEF SqueezeVariant
<1> DEFINE new == TryVariantSqueeze(array, hint)
<1>4. CASE new = NoSqueeze
  <2>1. variant' = OnDisk /\ backing' = array
    BY <1>2, <1>4 DEF SqueezeVariant
  <2> QED BY <2>1, <1>1, <1>3 DEF VariantInv
<1>5. CASE new # NoSqueeze
  <2>1. variant' = new[1] /\ backing' = new[2]
    BY <1>2, <1>5 DEF SqueezeVariant
  <2> HIDE DEF new
  <2>2. new[2].rows = documents /\ \E values : new[1] = SqueezedEntry(values, documents) /\ Keeps(values)
    BY <1>1, <1>5, SqueezeKeepsValues DEF new
  <2>3. PICK values : new[1] = SqueezedEntry(values, documents) /\ Keeps(values)
    BY <2>2
  <2>4. variant' = SqueezedEntry(values, documents') /\ Keeps(values)'
    BY <2>1, <2>3, <1>3 DEF Keeps
  <2> QED BY <2>1, <2>2, <2>4, <1>3 DEF VariantInv
<1> QED BY <1>4, <1>5

\* Moving the batch to disk keeps VariantInv.
LEMMA EvictVariantKeeps ==
  ASSUME VariantInv, EvictVariant PROVE VariantInv'
<1>1. backing.rows = documents
  BY DEF VariantInv, EvictVariant, NotCached, InMemory, OnDisk
<1> QED BY <1>1 DEF VariantInv, EvictVariant

\* Reading the batch back from its file keeps VariantInv.
LEMMA HydrateVariantKeeps ==
  ASSUME VariantInv, NEW requests, HydrateVariant(requests) PROVE VariantInv'
<1>1. documents' = documents /\ backing' = backing
  BY DEF HydrateVariant
<1>2. backing.rows = documents
  BY DEF VariantInv, HydrateVariant, NotCached, InMemory
<1>3. VariantInv' \/ variant' # InMemory(backing)
  BY <1>1, <1>2 DEF VariantInv
<1>4. ASSUME NEW values, variant' = SqueezedEntry(values, documents), Keeps(values) PROVE VariantInv'
  <2>1. variant' = SqueezedEntry(values, documents') /\ Keeps(values)'
    BY <1>1, <1>4 DEF Keeps
  <2> QED BY <2>1, <1>1, <1>2 DEF VariantInv
<1>5. CASE variant.form = "disk" /\ variant' = HydrateDisk(requests)
  <2> DEFINE new == TryVariantSqueeze(backing, requests)
  <2>1. CASE new = NoSqueeze
    BY <2>1, <1>3, <1>5 DEF HydrateDisk
  <2>2. CASE new # NoSqueeze
    <3>1. variant' = new[1]
      BY <2>2, <1>5 DEF HydrateDisk
    <3> HIDE DEF new
    <3>2. \E values : new[1] = SqueezedEntry(values, documents) /\ Keeps(values)
      BY <2>2, <1>2, SqueezeKeepsValues DEF new
    <3> QED BY <3>1, <3>2, <1>4
  <2> QED BY <2>1, <2>2
<1>6. CASE variant.form = "squeezed" /\ variant' = HydrateVariantPaths(requests)
  <2> DEFINE IsMissing(r) == ~ContainsPath(variant, r.path)
             new == TryVariantSqueeze(backing, SelectSeq(requests, IsMissing))
  <2>1. CASE new = NoSqueeze
    BY <2>1, <1>3, <1>6 DEF HydrateVariantPaths
  <2>2. CASE new # NoSqueeze
    <3>1. variant' = [variant EXCEPT !.values = Extended(variant.values, new[1].values)]
      BY <2>2, <1>6 DEF HydrateVariantPaths
    <3>2. PICK old : variant = SqueezedEntry(old, documents) /\ Keeps(old)
      BY <1>6 DEF VariantInv, NotCached, InMemory, OnDisk
    <3>3. \E values : new[1] = SqueezedEntry(values, documents) /\ Keeps(values)
      <4>1. PICK list : list = SelectSeq(requests, IsMissing)
        OBVIOUS
      <4>2. new = TryVariantSqueeze(backing, list)
        BY <4>1
      <4> HIDE DEF new
      <4> QED BY <4>2, <2>2, <1>2, SqueezeKeepsValues
    <3> HIDE DEF new
    <3>4. PICK values : new[1] = SqueezedEntry(values, documents) /\ Keeps(values)
      BY <3>3
    <3>5. new[1].values = values /\ variant.values = old
      BY <3>2, <3>4 DEF SqueezedEntry
    <3>6. variant' = SqueezedEntry(Extended(old, values), documents)
      BY <3>1, <3>2, <3>5 DEF SqueezedEntry
    <3>7. Keeps(Extended(old, values))
      BY <3>2, <3>4 DEF Keeps, Extended
    <3> QED BY <3>6, <3>7, <1>4
  <2> QED BY <2>1, <2>2
<1> QED BY <1>5, <1>6 DEF HydrateVariant

\* VariantInv holds whatever squeezing and hydration is done.
LEMMA VariantInvariant == VariantSpec => []VariantInv
<1>1. VariantInit => VariantInv
  BY DEF VariantInit, VariantInv
<1>2. VariantInv /\ [VariantNext]_variantVars => VariantInv'
  <2> SUFFICES ASSUME VariantInv, [VariantNext]_variantVars PROVE VariantInv'
    OBVIOUS
  <2>1. CASE UNCHANGED variantVars
    BY <2>1 DEF variantVars, VariantInv, Keeps
  <2>2. CASE VariantNext
    BY <2>2, InsertVariantKeeps, SqueezeVariantKeeps, EvictVariantKeeps, HydrateVariantKeeps DEF VariantNext
  <2> QED BY <2>1, <2>2
<1> QED BY <1>1, <1>2, PTL DEF VariantSpec

\* What a squeezed entry shows for a request is what it keeps at the path.
LEMMA SqueezedAnswer ==
  ASSUME DOMAIN documents = 1 .. Len(documents),
         NEW values, Keeps(values), NEW paths, NEW r,
         r.path \in paths, r.path \in DOMAIN values, values[r.path].type = r.type,
         \A q \in paths : ~IsStrictPrefix(r.path, q)
  PROVE  VariantGet(BuildRootStruct(SqueezedEntry(values, documents), paths), r) = VariantGet(documents, r)
<1> DEFINE squeezed == SqueezedEntry(values, documents)
           shown == {p \in paths : \A q \in paths : ~IsStrictPrefix(p, q)}
           Doc(i) == [p \in {q \in shown : values[q].column[i] # NullValue} |-> values[p].column[i]]
           rows == [i \in 1 .. Len(documents) |-> Row(i \notin NullRows(documents), Doc(i))]
<1>1. BuildRootStruct(squeezed, paths) = rows
  BY DEF BuildRootStruct, SqueezedEntry
<1>2. r.path \in shown
  OBVIOUS
<1>3. values[r.path].column = VariantGet(documents, Request(r.path, r.type))
  BY DEF Keeps
<1>4. VariantGet(documents, Request(r.path, r.type)) = VariantGet(documents, r)
  BY DEF VariantGet, Request
<1>5. \A i \in 1 .. Len(documents) :
        /\ rows[i].valid <=> documents[i].valid
        /\ rows[i].doc = Doc(i)
  BY DEF Row, NullRows
<1> DEFINE Shown(i) == IF rows[i].valid /\ r.path \in DOMAIN rows[i].doc /\ rows[i].doc[r.path].type = r.type
                       THEN rows[i].doc[r.path] ELSE NullValue
           Value(i) == IF documents[i].valid /\ r.path \in DOMAIN documents[i].doc /\ documents[i].doc[r.path].type = r.type
                       THEN documents[i].doc[r.path] ELSE NullValue
<1>6. VariantGet(rows, r) = [i \in 1 .. Len(documents) |-> Shown(i)]
  BY DEF VariantGet
<1>7. VariantGet(documents, r) = [i \in 1 .. Len(documents) |-> Value(i)]
  BY DEF VariantGet
<1>8. ASSUME NEW i \in 1 .. Len(documents) PROVE Shown(i) = Value(i)
  <2>1. values[r.path].column[i] = Value(i)
    BY <1>3, <1>4, <1>7
  <2>2. r.path \in DOMAIN Doc(i) <=> Value(i) # NullValue
    BY <2>1, <1>2
  <2>3. Value(i) # NullValue => Doc(i)[r.path] = Value(i)
    BY <2>1, <1>2
  <2> HIDE DEF Doc, rows
  <2> QED BY <2>2, <2>3, <1>5
<1> HIDE DEF rows, Shown, Value, squeezed
<1>9. VariantGet(rows, r) = VariantGet(documents, r)
  BY <1>6, <1>7, <1>8
<1> QED BY <1>1, <1>9 DEF squeezed

\* A read of a variant column answers every path as the documents do, whatever paths
\* the batch was shredded, squeezed and hydrated for and however often it was evicted
\* (core.rs, squeeze.rs, hydration.rs, variant_array.rs).
THEOREM VariantReadsAreExact == VariantSpec => []VariantGetExact
<1>1. VariantInv => VariantGetExact
  <2> SUFFICES ASSUME VariantInv, variant # NotCached, NEW requests \in RequestLists, NEW i \in DOMAIN requests,
                      ~Excepted(requests[i], requests)
               PROVE  VariantGet(ReadVariant(requests), requests[i]) = VariantGet(documents, requests[i])
    BY DEF VariantGetExact
  <2>1. CASE \E array : variant = InMemory(array) /\ array.rows = documents
    BY <2>1 DEF ReadVariant, InMemory
  <2>2. CASE variant = OnDisk /\ backing.rows = documents
    BY <2>2 DEF ReadVariant, OnDisk
  <2>3. CASE (\E values : variant = SqueezedEntry(values, documents) /\ Keeps(values)) /\ backing.rows = documents
    <3>1. PICK values : variant = SqueezedEntry(values, documents) /\ Keeps(values)
      BY <2>3
    <3>2. variant.form = "squeezed" /\ variant.values = values
      BY <3>1 DEF SqueezedEntry
    <3>3. CASE ~AllPathsPresent(variant, requests)
      BY <3>2, <3>3, <2>3 DEF ReadVariant
    <3>4. CASE AllPathsPresent(variant, requests)
      <4> DEFINE paths == {requests[j].path : j \in DOMAIN requests}
      <4>1. ReadVariant(requests) = ToArrowArrayWithPaths(variant, paths)
        BY <3>2, <3>4 DEF ReadVariant
      <4>2. paths \subseteq DOMAIN values /\ requests[i].path \in paths
        BY <3>2, <3>4 DEF AllPathsPresent, ContainsPath
      <4>3. \A q \in paths : ~IsStrictPrefix(requests[i].path, q)
        BY DEF Excepted
      <4> HIDE DEF paths
      <4>4. ToArrowArrayWithPaths(variant, paths) = BuildRootStruct(variant, paths)
        <5>1. {p \in paths : ContainsPath(variant, p)} = paths
          BY <4>2, <3>2 DEF ContainsPath
        <5> QED BY <5>1, <4>2 DEF ToArrowArrayWithPaths
      <4>5. values[requests[i].path].type = requests[i].type
        BY <3>2, <4>2 DEF Excepted, ContainsPath
      <4> QED BY <4>1, <4>2, <4>3, <4>4, <4>5, <3>1, SqueezedAnswer DEF VariantInv
    <3> QED BY <3>3, <3>4
  <2> QED BY <2>1, <2>2, <2>3 DEF VariantInv
<1> QED BY <1>1, VariantInvariant, PTL
=============================================================================
