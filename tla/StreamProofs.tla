---------------------------- MODULE StreamProofs ----------------------------
(***************************************************************************)
(* Proofs about the scans of LiquidStream, for any files, queries, number  *)
(* of streams and batch size: the cache holds the rows that its            *)
(* identifiers name, no stream panics, and what a stream hands out is what *)
(* its query asks for.                                                     *)
(*                                                                         *)
(* The first half is about the algorithms of RowSelections: each is shown  *)
(* to do to the bits of a selection what its name says.  The second half   *)
(* states the inductive invariant Inv and shows, step by step, that it is  *)
(* kept.                                                                   *)
(***************************************************************************)
EXTENDS LiquidStream, NumberTheorems

-----------------------------------------------------------------------------
(* Sequences                                                               *)

\* Induction over sequences, with a set in place of the predicate.
LEMMA AppendInduction ==
  ASSUME NEW X, NEW P \in SUBSET Seq(X), <<>> \in P, \A s \in P : \A x \in X : Append(s, x) \in P
  PROVE  P = Seq(X)
<1> DEFINE Q == {n \in Nat : \A s \in Seq(X) : Len(s) = n => s \in P}
<1>1. 0 \in Q
  <2>1. ASSUME NEW s \in Seq(X), Len(s) = 0 PROVE s \in P
    <3>1. s = <<>>
      BY <2>1
    <3> QED BY <3>1
  <2> QED BY <2>1
<1>2. ASSUME NEW n \in Q PROVE n + 1 \in Q
  <2>1. n \in Nat /\ n + 1 \in Nat
    BY <1>2
  <2>2. ASSUME NEW s \in Seq(X), Len(s) = n + 1 PROVE s \in P
    <3>1. s # <<>>
      BY <2>1, <2>2
    <3>2. PICK u \in Seq(X), x \in X : s = Append(u, x)
      BY <3>1, SequenceEmptyOrAppend
    <3>3. Len(u) = n
      BY <2>1, <2>2, <3>2, AppendProperties
    <3>4. u \in P
      BY <1>2, <3>3
    <3> QED BY <3>2, <3>4
  <2> QED BY <2>1, <2>2
<1>3. Q = Nat
  <2> HIDE DEF Q
  <2>1. Q \in SUBSET Nat
    BY DEF Q
  <2> QED BY <2>1, <1>1, <1>2, NumberInduction
<1>4. ASSUME NEW s \in Seq(X) PROVE s \in P
  <2>1. Len(s) \in Q
    BY <1>3
  <2> QED BY <2>1
<1> QED BY <1>4

\* A value repeated is a sequence.
LEMMA ConstSeq ==
  ASSUME NEW S, NEW v \in S, NEW n \in Nat
  PROVE  [k \in 1..n |-> v] \in Seq(S) /\ Len([k \in 1..n |-> v]) = n
  OBVIOUS

\* Each element is replaced by a sequence, and these are joined.
Maps(h, X, Y) == h \in [X -> Seq(Y)]
\* h of each element, joined
FlatMap(h, s) == FlattenSeq([i \in DOMAIN s |-> h[s[i]]])

\* Nothing comes of nothing.
LEMMA FlatMapEmpty == \A h : FlatMap(h, <<>>) = <<>>
<1> TAKE h
<1>1. [i \in DOMAIN <<>> |-> h[<<>>[i]]] = <<>>
  OBVIOUS
<1> QED BY <1>1, FlattenEmpty DEF FlatMap

\* The joined sequence has elements of the replacements.
LEMMA FlatMapType ==
  ASSUME NEW X, NEW Y, NEW h, Maps(h, X, Y), NEW s \in Seq(X)
  PROVE  FlatMap(h, s) \in Seq(Y)
<1>1. PICK Z : Z = Seq(Y)
  OBVIOUS
<1>2. [i \in DOMAIN s |-> h[s[i]]] \in Seq(Z)
  <2>1. \A i \in DOMAIN s : h[s[i]] \in Z
    BY <1>1 DEF Maps
  <2>2. DOMAIN s = 1 .. Len(s) /\ Len(s) \in Nat
    OBVIOUS
  <2> QED BY <2>1, <2>2
<1> QED BY <1>1, <1>2, FlattenType DEF FlatMap

\* The parts of a sequence can be replaced apart.
LEMMA FlatMapConcat ==
  ASSUME NEW X, NEW Y, NEW h, Maps(h, X, Y), NEW s \in Seq(X), NEW t \in Seq(X)
  PROVE  FlatMap(h, s \o t) = FlatMap(h, s) \o FlatMap(h, t)
<1>1. PICK Z : Z = Seq(Y)
  OBVIOUS
<1> DEFINE ms == [i \in DOMAIN s |-> h[s[i]]]
           mt == [i \in DOMAIN t |-> h[t[i]]]
           st1 == s \o t
           mst == [i \in DOMAIN st1 |-> h[st1[i]]]
<1>2. st1 \in Seq(X) /\ Len(st1) = Len(s) + Len(t)
      /\ \A i \in 1 .. Len(s) + Len(t) : st1[i] = IF i <= Len(s) THEN s[i] ELSE t[i - Len(s)]
  BY ConcatProperties
<1>3. ms \in Seq(Z) /\ mt \in Seq(Z) /\ mst \in Seq(Z)
  <2>1. h \in [X -> Z] /\ st1 \in Seq(X)
    BY <1>1, <1>2 DEF Maps
  <2> HIDE DEF st1
  <2>2. ms \in Seq(Z)
    <3>1. \A i \in DOMAIN s : h[s[i]] \in Z
      BY <2>1
    <3>2. DOMAIN s = 1 .. Len(s) /\ Len(s) \in Nat
      OBVIOUS
    <3> QED BY <3>1, <3>2
  <2>3. mt \in Seq(Z)
    <3>1. \A i \in DOMAIN t : h[t[i]] \in Z
      BY <2>1
    <3>2. DOMAIN t = 1 .. Len(t) /\ Len(t) \in Nat
      BY <2>1
    <3> QED BY <3>1, <3>2
  <2>4. mst \in Seq(Z)
    <3>1. \A i \in DOMAIN st1 : h[st1[i]] \in Z
      BY <2>1
    <3>2. DOMAIN st1 = 1 .. Len(st1) /\ Len(st1) \in Nat
      BY <2>1
    <3> QED BY <3>1, <3>2
  <2> QED BY <2>2, <2>3, <2>4
<1>4. Len(ms) = Len(s) /\ Len(mt) = Len(t) /\ Len(mst) = Len(s) + Len(t)
  <2> HIDE DEF st1
  <2> QED BY <1>2
<1>5. \A i \in 1 .. Len(s) + Len(t) : mst[i] = IF i <= Len(s) THEN ms[i] ELSE mt[i - Len(s)]
  <2>1. ASSUME NEW i \in 1 .. Len(s) + Len(t) PROVE mst[i] = IF i <= Len(s) THEN ms[i] ELSE mt[i - Len(s)]
    <3> HIDE DEF st1
    <3>1. i \in DOMAIN st1
      BY <1>2
    <3>2. CASE i <= Len(s)
      <4>1. i \in DOMAIN s
        BY <3>2
      <4> QED BY <1>2, <3>1, <3>2, <4>1
    <3>3. CASE ~(i <= Len(s))
      <4>1. i - Len(s) \in DOMAIN t
        BY <3>3
      <4> QED BY <1>2, <3>1, <3>3, <4>1
    <3> QED BY <3>2, <3>3
  <2> QED BY <2>1
<1> HIDE DEF st1, ms, mt, mst
<1>6. mst = ms \o mt
  <2>1. PICK c : c = ms \o mt
    OBVIOUS
  <2>2. c \in Seq(Z) /\ Len(c) = Len(ms) + Len(mt)
        /\ \A i \in 1 .. Len(ms) + Len(mt) : c[i] = IF i <= Len(ms) THEN ms[i] ELSE mt[i - Len(ms)]
    BY <1>3, <2>1, ConcatProperties
  <2>3. Len(mst) = Len(c) /\ \A i \in 1 .. Len(mst) : mst[i] = c[i]
    BY <1>4, <1>5, <2>2
  <2>4. mst = c
    BY <1>3, <2>2, <2>3, SeqEqual
  <2> QED BY <2>1, <2>4
<1>7. FlattenSeq(ms \o mt) = FlattenSeq(ms) \o FlattenSeq(mt)
  BY <1>1, <1>3, FlattenConcat
<1> QED BY <1>6, <1>7 DEF FlatMap, ms, mt, mst, st1

\* A single element gives its replacement.
LEMMA FlatMapOne ==
  ASSUME NEW X, NEW Y, NEW h, Maps(h, X, Y), NEW x \in X
  PROVE  FlatMap(h, <<x>>) = h[x]
<1>1. PICK Z : Z = Seq(Y)
  OBVIOUS
<1>2. <<>> \in Seq(Z) /\ h[x] \in Z
  BY <1>1 DEF Maps
<1>3. [i \in DOMAIN <<x>> |-> h[<<x>>[i]]] = Append(<<>>, h[x])
  OBVIOUS
<1>4. FlattenSeq(Append(<<>>, h[x])) = FlattenSeq(<<>>) \o h[x]
  BY <1>1, <1>2, FlattenAppend
<1>5. <<>> \o h[x] = h[x]
  BY <1>1, <1>2, ConcatEmptySeq
<1> QED BY <1>3, <1>4, <1>5, FlattenEmpty DEF FlatMap

\* One more element adds its replacement.
LEMMA FlatMapAppend ==
  ASSUME NEW X, NEW Y, NEW h, Maps(h, X, Y), NEW s \in Seq(X), NEW x \in X
  PROVE  FlatMap(h, Append(s, x)) = FlatMap(h, s) \o h[x]
<1>1. Append(s, x) = s \o <<x>> /\ <<x>> \in Seq(X)
  BY AppendIsConcat
<1>2. FlatMap(h, s \o <<x>>) = FlatMap(h, s) \o FlatMap(h, <<x>>)
  <2>1. PICK t \in Seq(X) : t = <<x>>
    BY <1>1
  <2>2. FlatMap(h, s \o t) = FlatMap(h, s) \o FlatMap(h, t)
    BY FlatMapConcat
  <2> QED BY <2>1, <2>2
<1>3. FlatMap(h, <<x>>) = h[x]
  BY FlatMapOne
<1> QED BY <1>1, <1>2, <1>3

-----------------------------------------------------------------------------
(* Selections and their bits                                               *)

\* a RowSelector
Run == [skip : BOOLEAN, n : Nat]
\* the rows of a selection, one bit each
Bits(sel) == RowSelectorToBooleanBuffer(sel)
\* n times b
Same(b, n) == [k \in 1..n |-> b]
\* the bits of one run
RunBits == [r \in Run |-> Same(~r.skip, r.n)]

\* The bits of a run
LEMMA RunBitsType == Maps(RunBits, Run, BOOLEAN)
<1>1. ASSUME NEW r \in Run PROVE Same(~r.skip, r.n) \in Seq(BOOLEAN)
  <2>1. r.n \in Nat /\ (~r.skip) \in BOOLEAN
    BY DEF Run
  <2>2. PICK v \in BOOLEAN, m \in Nat : v = ~r.skip /\ m = r.n
    BY <2>1
  <2>3. Same(v, m) \in Seq(BOOLEAN)
    BY <2>2, ConstSeq DEF Same
  <2> QED BY <2>2, <2>3
<1> QED BY <1>1 DEF RunBits, Maps

\* row_selector_to_boolean_buffer joins the bits of the runs.
LEMMA BitsFlat == \A sel \in Seq(Run) : Bits(sel) = FlatMap(RunBits, sel)
<1> TAKE sel \in Seq(Run)
<1>1. \A i \in DOMAIN sel : sel[i] \in Run
  OBVIOUS
<1>2. [i \in DOMAIN sel |-> [k \in 1..sel[i].n |-> ~sel[i].skip]] = [i \in DOMAIN sel |-> RunBits[sel[i]]]
  BY <1>1 DEF RunBits, Same
<1> QED BY <1>2 DEF Bits, RowSelectorToBooleanBuffer, FlatMap

\* No runs, no bits.
LEMMA BitsEmpty == Bits(<<>>) = <<>>
<1>1. <<>> \in Seq(Run)
  OBVIOUS
<1> QED BY <1>1, BitsFlat, FlatMapEmpty

\* The buffer is a sequence of bits.
LEMMA BitsType == \A sel \in Seq(Run) : Bits(sel) \in Seq(BOOLEAN)
<1> TAKE sel \in Seq(Run)
<1>1. FlatMap(RunBits, sel) \in Seq(BOOLEAN)
  BY RunBitsType, FlatMapType
<1> QED BY <1>1, BitsFlat

\* The bits of two selections, one after the other
LEMMA BitsConcat ==
  ASSUME NEW a \in Seq(Run), NEW b \in Seq(Run)
  PROVE  Bits(a \o b) = Bits(a) \o Bits(b)
<1>1. FlatMap(RunBits, a \o b) = FlatMap(RunBits, a) \o FlatMap(RunBits, b)
  BY RunBitsType, FlatMapConcat
<1>2. a \o b \in Seq(Run)
  BY ConcatProperties
<1> QED BY <1>1, <1>2, BitsFlat

\* The bits of a single run
LEMMA BitsOne == \A r \in Run : Bits(<<r>>) = Same(~r.skip, r.n)
<1> TAKE r \in Run
<1>1. FlatMap(RunBits, <<r>>) = RunBits[r]
  BY RunBitsType, FlatMapOne
<1>2. <<r>> \in Seq(Run)
  OBVIOUS
<1>3. Bits(<<r>>) = RunBits[r]
  BY <1>1, <1>2, BitsFlat
<1> QED BY <1>3 DEF RunBits

\* One more run adds its bits.
LEMMA BitsAppend ==
  ASSUME NEW a \in Seq(Run), NEW r \in Run
  PROVE  Bits(Append(a, r)) = Bits(a) \o Same(~r.skip, r.n)
<1>1. Append(a, r) = a \o <<r>> /\ <<r>> \in Seq(Run)
  BY AppendIsConcat
<1>2. Bits(a \o <<r>>) = Bits(a) \o Bits(<<r>>)
  BY <1>1, BitsConcat
<1>3. Bits(<<r>>) = Same(~r.skip, r.n)
  BY BitsOne
<1> QED BY <1>1, <1>2, <1>3

-----------------------------------------------------------------------------
(* Filtering by bits                                                       *)

\* an element if its bit is set
Keep(S) == [p \in S \X BOOLEAN |-> IF p[2] THEN <<p[1]>> ELSE <<>>]
\* each bit with its element
PairUp(s, bits) == [i \in DOMAIN bits |-> <<s[i], bits[i]>>]

\* Filtering keeps an element or leaves it out.
LEMMA KeepType == \A S : Maps(Keep(S), S \X BOOLEAN, S)
<1> TAKE S
<1>1. ASSUME NEW p \in S \X BOOLEAN PROVE (IF p[2] THEN <<p[1]>> ELSE <<>>) \in Seq(S)
  <2>1. p[1] \in S
    OBVIOUS
  <2>2. <<p[1]>> \in Seq(S) /\ <<>> \in Seq(S)
    BY <2>1
  <2> QED BY <2>2
<1> QED BY <1>1 DEF Keep, Maps

\* Elements and their bits, side by side
LEMMA ZipType ==
  ASSUME NEW S, NEW s \in Seq(S), NEW bits \in Seq(BOOLEAN), Len(bits) <= Len(s)
  PROVE  PairUp(s, bits) \in Seq(S \X BOOLEAN)
<1>1. DOMAIN bits = 1 .. Len(bits) /\ Len(bits) \in Nat
  OBVIOUS
<1>2. \A i \in DOMAIN bits : s[i] \in S /\ bits[i] \in BOOLEAN
  BY <1>1
<1>3. PICK T : T = S \X BOOLEAN
  OBVIOUS
<1>4. \A i \in DOMAIN bits : <<s[i], bits[i]>> \in T
  BY <1>2, <1>3
<1>5. PairUp(s, bits) \in Seq(T)
  BY <1>1, <1>4 DEF PairUp
<1> QED BY <1>3, <1>5

\* Filtering is a replacement of each element by itself or by nothing.
LEMMA FilterFlat ==
  ASSUME NEW S, NEW s \in Seq(S), NEW bits \in Seq(BOOLEAN), Len(bits) <= Len(s)
  PROVE  FilterBy(s, bits) = FlatMap(Keep(S), PairUp(s, bits))
<1>1. DOMAIN PairUp(s, bits) = DOMAIN bits
  BY DEF PairUp
<1>2. \A i \in DOMAIN bits : PairUp(s, bits)[i] = <<s[i], bits[i]>> /\ <<s[i], bits[i]>> \in S \X BOOLEAN
  BY DEF PairUp
<1>3. \A i \in DOMAIN bits : Keep(S)[PairUp(s, bits)[i]] = IF bits[i] THEN <<s[i]>> ELSE <<>>
  <2> SUFFICES ASSUME NEW i \in DOMAIN bits
               PROVE  Keep(S)[PairUp(s, bits)[i]] = IF bits[i] THEN <<s[i]>> ELSE <<>>
    OBVIOUS
  <2>1. PICK p \in S \X BOOLEAN : p = PairUp(s, bits)[i] /\ p[1] = s[i] /\ p[2] = bits[i]
    BY <1>2
  <2>2. Keep(S)[p] = IF p[2] THEN <<p[1]>> ELSE <<>>
    BY DEF Keep
  <2> QED BY <2>1, <2>2
<1>4. [i \in DOMAIN bits |-> IF bits[i] THEN <<s[i]>> ELSE <<>>]
        = [i \in DOMAIN PairUp(s, bits) |-> Keep(S)[PairUp(s, bits)[i]]]
  BY <1>1, <1>3
<1> QED BY <1>4 DEF FilterBy, FlatMap

\* What is filtered has elements of the sequence.
LEMMA FilterType ==
  ASSUME NEW S, NEW s \in Seq(S), NEW bits \in Seq(BOOLEAN), Len(bits) <= Len(s)
  PROVE  FilterBy(s, bits) \in Seq(S)
<1>1. PICK T : T = S \X BOOLEAN
  OBVIOUS
<1>2. Maps(Keep(S), T, S) /\ PairUp(s, bits) \in Seq(T)
  BY <1>1, KeepType, ZipType
<1>3. FlatMap(Keep(S), PairUp(s, bits)) \in Seq(S)
  BY <1>2, FlatMapType
<1> QED BY <1>3, FilterFlat

\* No bits, nothing kept.
LEMMA FilterEmpty == \A s : FilterBy(s, <<>>) = <<>>
<1> TAKE s
<1>1. [i \in DOMAIN <<>> |-> IF <<>>[i] THEN <<s[i]>> ELSE <<>>] = <<>>
  OBVIOUS
<1> QED BY <1>1, FlattenEmpty DEF FilterBy

\* Only the elements that have a bit matter.
LEMMA FilterSame ==
  ASSUME NEW s, NEW t, NEW bits, \A i \in DOMAIN bits : s[i] = t[i]
  PROVE  FilterBy(s, bits) = FilterBy(t, bits)
<1>1. [i \in DOMAIN bits |-> IF bits[i] THEN <<s[i]>> ELSE <<>>]
        = [i \in DOMAIN bits |-> IF bits[i] THEN <<t[i]>> ELSE <<>>]
  OBVIOUS
<1> QED BY <1>1 DEF FilterBy

\* Two sequences can be filtered apart.
LEMMA FilterConcat ==
  ASSUME NEW S, NEW s \in Seq(S), NEW t \in Seq(S), NEW b \in Seq(BOOLEAN), NEW c \in Seq(BOOLEAN),
         Len(b) = Len(s), Len(c) <= Len(t)
  PROVE  FilterBy(s \o t, b \o c) = FilterBy(s, b) \o FilterBy(t, c)
<1>1. PICK T : T = S \X BOOLEAN
  OBVIOUS
<1>2. PICK st1 : st1 = s \o t
  OBVIOUS
<1>3. PICK bc : bc = b \o c
  OBVIOUS
<1>4. /\ st1 \in Seq(S) /\ Len(st1) = Len(s) + Len(t)
      /\ \A i \in 1 .. Len(s) + Len(t) : st1[i] = IF i <= Len(s) THEN s[i] ELSE t[i - Len(s)]
  BY <1>2, ConcatProperties
<1>5. /\ bc \in Seq(BOOLEAN) /\ Len(bc) = Len(b) + Len(c)
      /\ \A i \in 1 .. Len(b) + Len(c) : bc[i] = IF i <= Len(b) THEN b[i] ELSE c[i - Len(b)]
  BY <1>3, ConcatProperties
<1>6. Len(bc) <= Len(st1) /\ Len(b) <= Len(s)
  BY <1>4, <1>5
<1>7. PairUp(s, b) \in Seq(T) /\ PairUp(t, c) \in Seq(T) /\ PairUp(st1, bc) \in Seq(T)
  BY <1>1, <1>4, <1>5, <1>6, ZipType
<1>8. PICK z : z = PairUp(s, b) \o PairUp(t, c)
  OBVIOUS
<1>9. Len(PairUp(s, b)) = Len(b) /\ Len(PairUp(t, c)) = Len(c) /\ Len(PairUp(st1, bc)) = Len(bc)
  BY DEF PairUp
<1>10. /\ z \in Seq(T) /\ Len(z) = Len(b) + Len(c)
       /\ \A i \in 1 .. Len(b) + Len(c) : z[i] = IF i <= Len(b) THEN PairUp(s, b)[i] ELSE PairUp(t, c)[i - Len(b)]
  BY <1>7, <1>8, <1>9, ConcatProperties
<1>11. ASSUME NEW i \in 1 .. Len(b) + Len(c) PROVE PairUp(st1, bc)[i] = z[i]
  <2>1. PairUp(st1, bc)[i] = <<st1[i], bc[i]>>
    BY <1>5 DEF PairUp
  <2>2. CASE i <= Len(b)
    <3>1. i \in DOMAIN b /\ i \in 1 .. Len(s) + Len(t) /\ i <= Len(s)
      BY <2>2
    <3>2. PairUp(s, b)[i] = <<s[i], b[i]>>
      BY <3>1 DEF PairUp
    <3>3. st1[i] = s[i] /\ bc[i] = b[i] /\ z[i] = PairUp(s, b)[i]
      BY <1>4, <1>5, <1>10, <2>2, <3>1
    <3> QED BY <2>1, <3>2, <3>3
  <2>3. CASE ~(i <= Len(b))
    <3>1. i - Len(b) \in DOMAIN c /\ i \in 1 .. Len(s) + Len(t) /\ ~(i <= Len(s))
      BY <2>3
    <3>2. PairUp(t, c)[i - Len(b)] = <<t[i - Len(b)], c[i - Len(b)]>>
      BY <3>1 DEF PairUp
    <3>3. st1[i] = t[i - Len(b)] /\ bc[i] = c[i - Len(b)] /\ z[i] = PairUp(t, c)[i - Len(b)]
      BY <1>4, <1>5, <1>10, <2>3, <3>1
    <3> QED BY <2>1, <3>2, <3>3
  <2> QED BY <2>2, <2>3
<1>12. PairUp(st1, bc) = z
  <2>1. Len(PairUp(st1, bc)) = Len(z) /\ \A i \in 1 .. Len(PairUp(st1, bc)) : PairUp(st1, bc)[i] = z[i]
    BY <1>5, <1>9, <1>10, <1>11
  <2> QED BY <1>7, <1>10, <2>1, SeqEqual
<1>13. FlatMap(Keep(S), PairUp(s, b) \o PairUp(t, c)) = FlatMap(Keep(S), PairUp(s, b)) \o FlatMap(Keep(S), PairUp(t, c))
  <2>1. Maps(Keep(S), T, S)
    BY <1>1, KeepType
  <2> QED BY <1>7, <2>1, FlatMapConcat
<1>14. FilterBy(st1, bc) = FlatMap(Keep(S), PairUp(st1, bc))
  BY <1>4, <1>5, <1>6, FilterFlat
<1>15. FilterBy(s, b) = FlatMap(Keep(S), PairUp(s, b)) /\ FilterBy(t, c) = FlatMap(Keep(S), PairUp(t, c))
  BY <1>6, FilterFlat
<1> QED BY <1>2, <1>3, <1>8, <1>12, <1>13, <1>14, <1>15

\* One more bit keeps its element or leaves it out.
LEMMA FilterAppend ==
  ASSUME NEW S, NEW s \in Seq(S), NEW bits \in Seq(BOOLEAN), NEW b \in BOOLEAN, Len(bits) < Len(s)
  PROVE  FilterBy(s, Append(bits, b)) = FilterBy(s, bits) \o (IF b THEN <<s[Len(bits) + 1]>> ELSE <<>>)
<1>1. PICK n \in Nat : n = Len(bits)
  OBVIOUS
<1>2. PICK x \in S : x = s[n + 1]
  BY <1>1
<1>3. PICK T : T = S \X BOOLEAN
  OBVIOUS
<1>4. PICK p \in T : p = <<x, b>>
  BY <1>3
<1>5. PICK c : c = Append(bits, b)
  OBVIOUS
<1>6. /\ c \in Seq(BOOLEAN) /\ Len(c) = n + 1 /\ c[n + 1] = b
      /\ \A i \in 1 .. n : c[i] = bits[i]
  BY <1>1, <1>5, AppendProperties
<1>7. PairUp(s, bits) \in Seq(T) /\ PairUp(s, c) \in Seq(T)
  <2>1. Len(bits) <= Len(s) /\ Len(c) <= Len(s)
    BY <1>1, <1>6
  <2> QED BY <1>3, <1>6, <2>1, ZipType
<1>8. PICK z : z = Append(PairUp(s, bits), p)
  OBVIOUS
<1>9. Len(PairUp(s, bits)) = n /\ Len(PairUp(s, c)) = n + 1
  BY <1>1, <1>6 DEF PairUp
<1>10. /\ z \in Seq(T) /\ Len(z) = n + 1 /\ z[n + 1] = p
       /\ \A i \in 1 .. n : z[i] = PairUp(s, bits)[i]
  BY <1>7, <1>8, <1>9, AppendProperties
<1>11. ASSUME NEW i \in 1 .. n + 1 PROVE PairUp(s, c)[i] = z[i]
  <2>1. PairUp(s, c)[i] = <<s[i], c[i]>>
    BY <1>6 DEF PairUp
  <2>2. CASE i = n + 1
    BY <1>2, <1>4, <1>6, <1>10, <2>1, <2>2
  <2>3. CASE i # n + 1
    <3>1. i \in 1 .. n /\ i \in DOMAIN bits
      BY <1>1, <2>3
    <3>2. PairUp(s, bits)[i] = <<s[i], bits[i]>>
      BY <3>1 DEF PairUp
    <3> QED BY <1>6, <1>10, <2>1, <3>1, <3>2
  <2> QED BY <2>2, <2>3
<1>12. PairUp(s, c) = z
  BY <1>7, <1>9, <1>10, <1>11, SeqEqual
<1>13. FlatMap(Keep(S), z) = FlatMap(Keep(S), PairUp(s, bits)) \o Keep(S)[p]
  <2>1. Maps(Keep(S), T, S)
    BY <1>3, KeepType
  <2>2. PICK y \in Seq(T) : y = PairUp(s, bits)
    BY <1>7
  <2>3. FlatMap(Keep(S), Append(y, p)) = FlatMap(Keep(S), y) \o Keep(S)[p]
    BY <2>1, FlatMapAppend
  <2> QED BY <1>8, <2>2, <2>3
<1>14. Keep(S)[p] = IF b THEN <<x>> ELSE <<>>
  <2>1. Keep(S)[p] = IF p[2] THEN <<p[1]>> ELSE <<>>
    BY <1>3 DEF Keep
  <2>2. p[1] = x /\ p[2] = b
    BY <1>4
  <2> QED BY <2>1, <2>2
<1>15. FilterBy(s, c) = FlatMap(Keep(S), PairUp(s, c)) /\ FilterBy(s, bits) = FlatMap(Keep(S), PairUp(s, bits))
  <2>1. Len(bits) <= Len(s) /\ Len(c) <= Len(s)
    BY <1>1, <1>6
  <2> QED BY <1>6, <2>1, FilterFlat
<1> QED BY <1>1, <1>2, <1>5, <1>12, <1>13, <1>14, <1>15

\* how many bits are set
Ones(bits) == Cardinality(SetBits(bits))

\* The number of set bits
LEMMA OnesType ==
  ASSUME NEW bits \in Seq(BOOLEAN)
  PROVE  IsFiniteSet(SetBits(bits)) /\ Ones(bits) \in Nat /\ Ones(bits) <= Len(bits)
<1>1. SetBits(bits) \subseteq 1 .. Len(bits) /\ Len(bits) \in Nat
  BY DEF SetBits
<1>2. IsFiniteSet(1 .. Len(bits)) /\ Cardinality(1 .. Len(bits)) = Len(bits)
  <2>1. 1 <= Len(bits) + 1 /\ Len(bits) - 1 + 1 = Len(bits) /\ 1 \in Int /\ Len(bits) \in Int
    BY <1>1
  <2> QED BY <2>1, IntervalSize
<1>3. IsFiniteSet(SetBits(bits)) /\ Cardinality(SetBits(bits)) <= Cardinality(1 .. Len(bits))
  BY <1>1, <1>2, FS_Subset
<1>4. Cardinality(SetBits(bits)) \in Nat
  BY <1>3, FS_CardinalityType
<1> QED BY <1>2, <1>3, <1>4 DEF Ones

\* No bit is set in the empty buffer.
LEMMA OnesEmpty == Ones(<<>>) = 0
<1>1. SetBits(<<>>) = {}
  BY DEF SetBits
<1> QED BY <1>1, FS_EmptySet DEF Ones

\* One more bit counts if it is set.
LEMMA OnesAppend ==
  ASSUME NEW bits \in Seq(BOOLEAN), NEW b \in BOOLEAN
  PROVE  Ones(Append(bits, b)) = Ones(bits) + IF b THEN 1 ELSE 0
<1>1. PICK n \in Nat : n = Len(bits)
  OBVIOUS
<1>2. PICK c : c = Append(bits, b)
  OBVIOUS
<1>3. /\ c \in Seq(BOOLEAN) /\ Len(c) = n + 1 /\ c[n + 1] = b
      /\ \A i \in 1 .. n : c[i] = bits[i]
  BY <1>1, <1>2, AppendProperties
<1>4. DOMAIN c = 1 .. n + 1 /\ DOMAIN bits = 1 .. n
  BY <1>1, <1>3
<1>5. IsFiniteSet(SetBits(bits)) /\ n + 1 \notin SetBits(bits) /\ Ones(bits) \in Nat
  BY <1>4, OnesType DEF SetBits
<1>6. CASE b
  <2>1. SetBits(c) = SetBits(bits) \cup {n + 1}
    <3>1. 1 .. n + 1 = (1 .. n) \cup {n + 1}
      OBVIOUS
    <3>2. \A i \in 1 .. n : c[i] = bits[i]
      BY <1>3
    <3>3. c[n + 1]
      BY <1>3, <1>6
    <3> QED BY <1>4, <3>1, <3>2, <3>3, Zenon DEF SetBits
  <2>2. Cardinality(SetBits(c)) = Cardinality(SetBits(bits)) + 1
    BY <1>5, <2>1, FS_AddElement
  <2> QED BY <1>2, <1>6, <2>2 DEF Ones
<1>7. CASE ~b
  <2>1. SetBits(c) = SetBits(bits)
    BY <1>3, <1>4, <1>7 DEF SetBits
  <2> QED BY <1>2, <1>5, <1>7, <2>1 DEF Ones
<1> QED BY <1>6, <1>7

\* A filter passes as many elements as bits are set.
LEMMA FilterLen ==
  ASSUME NEW S, NEW s \in Seq(S), NEW bits \in Seq(BOOLEAN), Len(bits) <= Len(s)
  PROVE  Len(FilterBy(s, bits)) = Ones(bits)
<1> DEFINE P == {b \in Seq(BOOLEAN) : Len(b) <= Len(s) => Len(FilterBy(s, b)) = Ones(b)}
<1>1. <<>> \in P
  BY FilterEmpty, OnesEmpty
<1>2. ASSUME NEW b \in P, NEW x \in BOOLEAN PROVE Append(b, x) \in P
  <2>1. b \in Seq(BOOLEAN) /\ Append(b, x) \in Seq(BOOLEAN) /\ Len(Append(b, x)) = Len(b) + 1 /\ Len(b) \in Nat
    BY <1>2, AppendProperties
  <2>2. SUFFICES ASSUME Len(b) + 1 <= Len(s)
                 PROVE  Len(FilterBy(s, Append(b, x))) = Ones(Append(b, x))
    BY <2>1
  <2>3. Len(b) < Len(s) /\ Len(b) <= Len(s) /\ s[Len(b) + 1] \in S
    BY <2>1, <2>2
  <2>4. Len(FilterBy(s, b)) = Ones(b) /\ FilterBy(s, b) \in Seq(S) /\ Ones(b) \in Nat
    BY <1>2, <2>1, <2>3, FilterType, OnesType
  <2>5. FilterBy(s, Append(b, x)) = FilterBy(s, b) \o (IF x THEN <<s[Len(b) + 1]>> ELSE <<>>)
    BY <2>1, <2>3, FilterAppend
  <2>6. Ones(Append(b, x)) = Ones(b) + IF x THEN 1 ELSE 0
    BY <2>1, OnesAppend
  <2>7. PICK e \in S : e = s[Len(b) + 1]
    BY <2>3
  <2>8. CASE x
    <3>1. <<e>> \in Seq(S) /\ Len(<<e>>) = 1
      OBVIOUS
    <3>2. PICK u \in Seq(S) : u = <<e>>
      BY <3>1
    <3>3. Len(FilterBy(s, b) \o u) = Len(FilterBy(s, b)) + Len(u)
      BY <2>4, ConcatProperties
    <3> QED BY <2>4, <2>5, <2>6, <2>7, <2>8, <3>1, <3>2, <3>3
  <2>9. CASE ~x
    <3>1. FilterBy(s, b) \o <<>> = FilterBy(s, b)
      BY <2>4, ConcatEmptySeq
    <3> QED BY <2>4, <2>5, <2>6, <2>9, <3>1
  <2> QED BY <2>8, <2>9
<1>3. P = Seq(BOOLEAN)
  <2> HIDE DEF P
  <2>1. P \in SUBSET Seq(BOOLEAN)
    BY DEF P
  <2> QED BY <2>1, <1>1, <1>2, AppendInduction
<1> QED BY <1>3

\* The set bits of two buffers add up.
LEMMA OnesConcat ==
  ASSUME NEW b \in Seq(BOOLEAN), NEW c \in Seq(BOOLEAN)
  PROVE  Ones(b \o c) = Ones(b) + Ones(c)
<1>1. PICK d \in Seq(BOOLEAN) : d = b \o c
  BY ConcatProperties
<1>2. FilterBy(b \o c, b \o c) = FilterBy(b, b) \o FilterBy(c, c)
  <2>1. Len(b) = Len(b) /\ Len(c) <= Len(c)
    OBVIOUS
  <2> QED BY <2>1, FilterConcat
<1>3. Len(FilterBy(d, d)) = Ones(d) /\ Len(FilterBy(b, b)) = Ones(b) /\ Len(FilterBy(c, c)) = Ones(c)
  <2>1. Len(b) <= Len(b) /\ Len(c) <= Len(c) /\ Len(d) <= Len(d)
    OBVIOUS
  <2> QED BY <2>1, FilterLen
<1>4. FilterBy(b, b) \in Seq(BOOLEAN) /\ FilterBy(c, c) \in Seq(BOOLEAN)
  <2>1. Len(b) <= Len(b) /\ Len(c) <= Len(c)
    OBVIOUS
  <2> QED BY <2>1, FilterType
<1>5. Len(FilterBy(b, b) \o FilterBy(c, c)) = Len(FilterBy(b, b)) + Len(FilterBy(c, c))
  BY <1>4, ConcatProperties
<1> QED BY <1>1, <1>2, <1>3, <1>5

\* A sequence is cut in two.
LEMMA SplitSeq ==
  ASSUME NEW S, NEW s \in Seq(S), NEW n \in 0 .. Len(s)
  PROVE  /\ SubSeq(s, 1, n) \in Seq(S) /\ Len(SubSeq(s, 1, n)) = n
         /\ \A i \in 1 .. n : SubSeq(s, 1, n)[i] = s[i]
         /\ SubSeq(s, n + 1, Len(s)) \in Seq(S) /\ Len(SubSeq(s, n + 1, Len(s))) = Len(s) - n
         /\ \A i \in 1 .. Len(s) - n : SubSeq(s, n + 1, Len(s))[i] = s[n + i]
<1>1. PICK m \in Nat : m = Len(s) /\ n <= m /\ n \in Nat
  OBVIOUS
<1>2. \A i \in 1 .. m : s[i] \in S
  BY <1>1
<1>3. SubSeq(s, 1, n) \in Seq(S) /\ Len(SubSeq(s, 1, n)) = n /\ \A i \in 1 .. n : SubSeq(s, 1, n)[i] = s[i]
  <2>1. \A i \in 1 .. n : s[i] \in S
    BY <1>1, <1>2
  <2>2. /\ SubSeq(s, 1, n) \in Seq(S)
        /\ Len(SubSeq(s, 1, n)) = IF 1 <= n THEN n - 1 + 1 ELSE 0
        /\ \A i \in 1 .. n - 1 + 1 : SubSeq(s, 1, n)[i] = s[1 + i - 1]
    BY <1>1, <2>1, SubSeqProperties
  <2>3. n - 1 + 1 = n /\ \A i \in 1 .. n : 1 + i - 1 = i
    BY <1>1
  <2> QED BY <1>1, <2>2, <2>3
<1>4. PICK k \in Nat : k = n + 1
  BY <1>1
<1>5. /\ SubSeq(s, k, m) \in Seq(S) /\ Len(SubSeq(s, k, m)) = m - n
      /\ \A i \in 1 .. m - n : SubSeq(s, k, m)[i] = s[n + i]
  <2>1. \A i \in k .. m : s[i] \in S
    BY <1>1, <1>2, <1>4
  <2>2. /\ SubSeq(s, k, m) \in Seq(S)
        /\ Len(SubSeq(s, k, m)) = IF k <= m THEN m - k + 1 ELSE 0
        /\ \A i \in 1 .. m - k + 1 : SubSeq(s, k, m)[i] = s[k + i - 1]
    BY <1>1, <1>4, <2>1, SubSeqProperties
  <2>3. m - k + 1 = m - n /\ \A i \in 1 .. m - n : k + i - 1 = n + i
    BY <1>1, <1>4
  <2> QED BY <1>1, <1>4, <2>2, <2>3
<1> QED BY <1>1, <1>3, <1>4, <1>5

\* A sequence is its two parts.
LEMMA SplitWhole ==
  ASSUME NEW S, NEW s \in Seq(S), NEW n \in 0 .. Len(s)
  PROVE  s = SubSeq(s, 1, n) \o SubSeq(s, n + 1, Len(s))
<1>1. 1 \in 1 .. Len(s) + 1 /\ n \in 1 - 1 .. Len(s) /\ Len(s) \in n .. Len(s)
  OBVIOUS
<1>2. SubSeq(s, 1, n) \o SubSeq(s, n + 1, Len(s)) = SubSeq(s, 1, Len(s))
  BY <1>1, ConcatAdjacentSubSeq
<1> QED BY <1>2, SubSeqFull

\* The first bits apply to the first elements, the others to the others.
LEMMA FilterSplit ==
  ASSUME NEW S, NEW s \in Seq(S), NEW bits \in Seq(BOOLEAN), Len(bits) <= Len(s), NEW n \in 0 .. Len(bits)
  PROVE  FilterBy(s, bits) = FilterBy(s, SubSeq(bits, 1, n))
                               \o FilterBy(SubSeq(s, n + 1, Len(s)), SubSeq(bits, n + 1, Len(bits)))
<1>1. PICK s1 : s1 = SubSeq(s, 1, n)
  OBVIOUS
<1>2. PICK s2 : s2 = SubSeq(s, n + 1, Len(s))
  OBVIOUS
<1>3. PICK b1 : b1 = SubSeq(bits, 1, n)
  OBVIOUS
<1>4. PICK b2 : b2 = SubSeq(bits, n + 1, Len(bits))
  OBVIOUS
<1>5. n \in 0 .. Len(s)
  OBVIOUS
<1>6. s1 \in Seq(S) /\ Len(s1) = n /\ (\A i \in 1 .. n : s1[i] = s[i]) /\ s2 \in Seq(S) /\ Len(s2) = Len(s) - n
  BY <1>1, <1>2, <1>5, SplitSeq
<1>7. b1 \in Seq(BOOLEAN) /\ Len(b1) = n /\ b2 \in Seq(BOOLEAN) /\ Len(b2) = Len(bits) - n
  BY <1>3, <1>4, SplitSeq
<1>8. s1 \o s2 = s
  BY <1>1, <1>2, <1>5, SplitWhole
<1>9. b1 \o b2 = bits
  BY <1>3, <1>4, SplitWhole
<1>10. FilterBy(s1 \o s2, b1 \o b2) = FilterBy(s1, b1) \o FilterBy(s2, b2)
  <2>1. Len(b1) = Len(s1) /\ Len(b2) <= Len(s2)
    BY <1>6, <1>7
  <2>2. s1 \in Seq(S) /\ s2 \in Seq(S) /\ b1 \in Seq(BOOLEAN) /\ b2 \in Seq(BOOLEAN)
    BY <1>6, <1>7
  <2> QED BY <2>1, <2>2, FilterConcat
<1>11. FilterBy(s1, b1) = FilterBy(s, b1)
  <2>1. \A i \in DOMAIN b1 : s1[i] = s[i]
    BY <1>6, <1>7
  <2> QED BY <2>1, FilterSame
<1> QED BY <1>2, <1>3, <1>4, <1>8, <1>9, <1>10, <1>11

\* Without a set bit nothing is kept.
LEMMA FilterNone ==
  ASSUME NEW S, NEW s \in Seq(S), NEW bits \in Seq(BOOLEAN), Len(bits) <= Len(s),
         \A i \in DOMAIN bits : ~bits[i]
  PROVE  FilterBy(s, bits) = <<>>
<1>1. SetBits(bits) = {}
  BY DEF SetBits
<1>2. Ones(bits) = 0
  BY <1>1, FS_EmptySet DEF Ones
<1>3. FilterBy(s, bits) \in Seq(S) /\ Len(FilterBy(s, bits)) = 0
  BY <1>2, FilterType, FilterLen
<1> QED BY <1>3

\* With all bits set the elements under them are kept.
LEMMA FilterAll ==
  ASSUME NEW S, NEW s \in Seq(S), NEW bits \in Seq(BOOLEAN), Len(bits) <= Len(s),
         \A i \in DOMAIN bits : bits[i]
  PROVE  FilterBy(s, bits) = SubSeq(s, 1, Len(bits))
<1> DEFINE P == {b \in Seq(BOOLEAN) : Len(b) <= Len(s) /\ (\A i \in DOMAIN b : b[i])
                                         => FilterBy(s, b) = SubSeq(s, 1, Len(b))}
<1>1. <<>> \in P
  <2>1. SubSeq(s, 1, 0) = <<>>
    BY SubSeqEmpty
  <2>2. Len(<<>>) = 0 /\ <<>> \in Seq(BOOLEAN)
    OBVIOUS
  <2> QED BY <2>1, <2>2, FilterEmpty
<1>2. ASSUME NEW b \in P, NEW x \in BOOLEAN PROVE Append(b, x) \in P
  <2>1. PICK c : c = Append(b, x)
    OBVIOUS
  <2>2. /\ b \in Seq(BOOLEAN) /\ Len(b) \in Nat
        /\ c \in Seq(BOOLEAN) /\ Len(c) = Len(b) + 1
        /\ c[Len(b) + 1] = x /\ \A i \in 1 .. Len(b) : c[i] = b[i]
    BY <1>2, <2>1, AppendProperties
  <2>3. SUFFICES ASSUME Len(c) <= Len(s), \A i \in DOMAIN c : c[i]
                 PROVE  FilterBy(s, c) = SubSeq(s, 1, Len(c))
    BY <2>1, <2>2
  <2>4. DOMAIN c = 1 .. Len(b) + 1 /\ DOMAIN b = 1 .. Len(b) /\ Len(b) < Len(s) /\ Len(b) <= Len(s)
    BY <2>2, <2>3
  <2>5. x /\ \A i \in DOMAIN b : b[i]
    <3>1. Len(b) + 1 \in DOMAIN c /\ \A i \in DOMAIN b : i \in DOMAIN c
      BY <2>2, <2>4
    <3>2. c[Len(b) + 1] /\ \A i \in DOMAIN b : c[i]
      BY <2>3, <3>1
    <3> QED BY <2>2, <2>4, <3>2, Zenon
  <2>6. FilterBy(s, b) = SubSeq(s, 1, Len(b))
    BY <1>2, <2>4, <2>5
  <2>7. FilterBy(s, c) = FilterBy(s, b) \o <<s[Len(b) + 1]>>
    BY <2>1, <2>2, <2>4, <2>5, FilterAppend
  <2>8. SubSeq(s, 1, Len(b) + 1) = SubSeq(s, 1, Len(b)) \o <<s[Len(b) + 1]>>
    <3>1. PICK m \in 1 .. Len(s) : m = Len(b) + 1
      BY <2>2, <2>4
    <3>2. 1 \in 1 .. Len(s) /\ m \in 1 .. Len(s)
      BY <3>1
    <3>3. SubSeq(s, 1, m) = SubSeq(s, 1, m - 1) \o <<s[m]>>
      BY <3>2, SubSeqRecursiveSecond
    <3>4. m - 1 = Len(b)
      BY <2>2, <3>1
    <3> QED BY <3>1, <3>3, <3>4
  <2> QED BY <2>2, <2>6, <2>7, <2>8
<1>3. P = Seq(BOOLEAN)
  <2> HIDE DEF P
  <2>1. P \in SUBSET Seq(BOOLEAN)
    BY DEF P
  <2> QED BY <2>1, <1>1, <1>2, AppendInduction
<1> QED BY <1>3

\* The element at a set bit comes at the place that the bits up to it give it.
LEMMA FilterAt ==
  ASSUME NEW S, NEW s \in Seq(S), NEW bits \in Seq(BOOLEAN), Len(bits) <= Len(s),
         NEW i \in DOMAIN bits, bits[i]
  PROVE  /\ Ones(SubSeq(bits, 1, i)) \in 1 .. Ones(bits)
         /\ FilterBy(s, bits)[Ones(SubSeq(bits, 1, i))] = s[i]
<1>1. PICK b1 : b1 = SubSeq(bits, 1, i)
  OBVIOUS
<1>2. PICK b0 : b0 = SubSeq(bits, 1, i - 1)
  OBVIOUS
<1>3. i \in 1 .. Len(bits) /\ i \in 0 .. Len(bits) /\ i - 1 \in 0 .. Len(bits)
  OBVIOUS
<1>4. b1 \in Seq(BOOLEAN) /\ Len(b1) = i
  BY <1>1, <1>3, SplitSeq
<1>5. b0 \in Seq(BOOLEAN) /\ Len(b0) = i - 1
  BY <1>2, <1>3, SplitSeq
<1>6. b1 = Append(b0, TRUE)
  <2>1. 1 \in 1 .. Len(bits) /\ i \in 1 .. Len(bits)
    BY <1>3
  <2>2. SubSeq(bits, 1, i) = SubSeq(bits, 1, i - 1) \o <<bits[i]>>
    BY <2>1, SubSeqRecursiveSecond
  <2>3. bits[i] = TRUE
    OBVIOUS
  <2>4. Append(b0, TRUE) = b0 \o <<TRUE>>
    BY <1>5, AppendIsConcat
  <2> QED BY <1>1, <1>2, <2>2, <2>3, <2>4
<1>7. Len(b0) < Len(s) /\ Len(b0) <= Len(s) /\ Len(b1) <= Len(s) /\ Len(b0) + 1 = i
  BY <1>3, <1>4, <1>5
<1>8. FilterBy(s, b1) = FilterBy(s, b0) \o <<s[i]>>
  BY <1>5, <1>6, <1>7, FilterAppend
<1>9. PICK f0 \in Seq(S) : f0 = FilterBy(s, b0) /\ Len(f0) = Ones(b0)
  BY <1>5, <1>7, FilterType, FilterLen
<1>10. Ones(b1) = Ones(b0) + 1 /\ Ones(b0) \in Nat
  BY <1>5, <1>6, OnesAppend, OnesType
<1>11. s[i] \in S
  BY <1>3
<1>12. PICK f1 \in Seq(S) : f1 = FilterBy(s, b1) /\ Len(f1) = Ones(b1) /\ f1[Ones(b1)] = s[i]
  <2>1. PICK e \in S : e = s[i]
    BY <1>11
  <2>2. PICK v : v = <<e>>
    OBVIOUS
  <2>3. PICK u : u = f0 \o v
    OBVIOUS
  <2>6. v \in Seq(S)
    BY <2>2
  <2>7. /\ u \in Seq(S) /\ Len(u) = Len(f0) + Len(v)
        /\ \A j \in 1 .. Len(f0) + Len(v) : u[j] = IF j <= Len(f0) THEN f0[j] ELSE v[j - Len(f0)]
    BY <2>3, <2>6, ConcatProperties
  <2>4. Len(v) = 1 /\ v[1] = e
    BY <2>2
  <2>5. u[Len(f0) + 1] = e /\ Len(u) = Len(f0) + 1
    BY <2>4, <2>7
  <2> QED BY <1>8, <1>9, <1>10, <2>1, <2>2, <2>3, <2>5, <2>7
<1>13. PICK b2 : b2 = SubSeq(bits, i + 1, Len(bits))
  OBVIOUS
<1>14. PICK s2 : s2 = SubSeq(s, i + 1, Len(s))
  OBVIOUS
<1>15. /\ s2 \in Seq(S) /\ b2 \in Seq(BOOLEAN) /\ Len(s2) = Len(s) - i /\ Len(b2) = Len(bits) - i
       /\ bits = b1 \o b2
       /\ FilterBy(s, bits) = FilterBy(s, b1) \o FilterBy(s2, b2)
  <2>1. /\ SubSeq(s, i + 1, Len(s)) \in Seq(S) /\ Len(SubSeq(s, i + 1, Len(s))) = Len(s) - i
        /\ SubSeq(bits, i + 1, Len(bits)) \in Seq(BOOLEAN) /\ Len(SubSeq(bits, i + 1, Len(bits))) = Len(bits) - i
    BY <1>3, SplitSeq
  <2>2. bits = SubSeq(bits, 1, i) \o SubSeq(bits, i + 1, Len(bits))
    BY <1>3, SplitWhole
  <2>3. FilterBy(s, bits) = FilterBy(s, SubSeq(bits, 1, i))
                              \o FilterBy(SubSeq(s, i + 1, Len(s)), SubSeq(bits, i + 1, Len(bits)))
    BY <1>3, FilterSplit
  <2> QED BY <1>1, <1>13, <1>14, <2>1, <2>2, <2>3
<1>16. PICK f2 \in Seq(S) : f2 = FilterBy(s2, b2)
  <2>1. Len(b2) <= Len(s2)
    BY <1>3, <1>15
  <2> QED BY <1>15, <2>1, FilterType
<1>17. Ones(bits) = Ones(b1) + Ones(b2) /\ Ones(b2) \in Nat
  BY <1>4, <1>15, OnesConcat, OnesType
<1>18. (f1 \o f2)[Ones(b1)] = f1[Ones(b1)]
  <2>1. Ones(b1) \in 1 .. Len(f1) + Len(f2) /\ Ones(b1) <= Len(f1)
    BY <1>10, <1>12
  <2> QED BY <2>1, ConcatProperties
<1>19. Ones(b1) \in 1 .. Ones(bits)
  BY <1>10, <1>17
<1>20. FilterBy(s, bits)[Ones(b1)] = s[i]
  BY <1>12, <1>15, <1>16, <1>18
<1> QED BY <1>1, <1>19, <1>20

\* Where the elements that pass come from
Places(pos, s, bits) ==
  /\ pos \in [1 .. Ones(bits) -> DOMAIN bits]
  /\ \A k \in 1 .. Ones(bits) : bits[pos[k]] /\ FilterBy(s, bits)[k] = s[pos[k]]
  /\ \A j, k \in 1 .. Ones(bits) : j < k => pos[j] < pos[k]

\* Each element that is kept comes from a set bit of its own, in order.
LEMMA FilterPlaces ==
  ASSUME NEW S, NEW s \in Seq(S), NEW bits \in Seq(BOOLEAN), Len(bits) <= Len(s)
  PROVE  \E pos : Places(pos, s, bits)
<1> DEFINE P == {b \in Seq(BOOLEAN) : Len(b) <= Len(s) => \E pos : Places(pos, s, b)}
<1>1. <<>> \in P
  <2>1. Places(<<>>, s, <<>>)
    BY OnesEmpty DEF Places
  <2>2. <<>> \in Seq(BOOLEAN)
    OBVIOUS
  <2> QED BY <2>1, <2>2
<1>2. ASSUME NEW b \in P, NEW x \in BOOLEAN PROVE Append(b, x) \in P
  <2>1. PICK c : c = Append(b, x)
    OBVIOUS
  <2>2. PICK n \in Nat : n = Len(b)
    BY <1>2
  <2>3. /\ b \in Seq(BOOLEAN) /\ c \in Seq(BOOLEAN) /\ Len(c) = n + 1
        /\ c[n + 1] = x /\ \A i \in 1 .. n : c[i] = b[i]
    BY <1>2, <2>1, <2>2, AppendProperties
  <2>4. SUFFICES ASSUME n + 1 <= Len(s) PROVE \E pos : Places(pos, s, c)
    BY <2>1, <2>3
  <2>5. n <= Len(s) /\ n < Len(s) /\ DOMAIN b = 1 .. n /\ DOMAIN c = 1 .. n + 1
    BY <2>2, <2>3, <2>4
  <2>6. PICK pos : Places(pos, s, b)
    BY <1>2, <2>2, <2>5
  <2>7. PICK m \in Nat : m = Ones(b)
    BY <2>3, OnesType
  <2>8. PICK f \in Seq(S) : f = FilterBy(s, b) /\ Len(f) = m
    BY <2>2, <2>3, <2>5, <2>7, FilterType, FilterLen
  <2>9. FilterBy(s, c) = f \o (IF x THEN <<s[n + 1]>> ELSE <<>>)
    BY <2>1, <2>2, <2>3, <2>5, <2>8, FilterAppend
  <2>10. Ones(c) = m + IF x THEN 1 ELSE 0
    BY <2>1, <2>3, <2>7, OnesAppend
  <2>11. /\ pos \in [1 .. m -> 1 .. n]
         /\ \A k \in 1 .. m : b[pos[k]] /\ f[k] = s[pos[k]]
         /\ \A j, k \in 1 .. m : j < k => pos[j] < pos[k]
    BY <2>5, <2>6, <2>7, <2>8 DEF Places
  <2>12. CASE x
    <3>1. PICK e \in S : e = s[n + 1]
      BY <2>4
    <3>2. PICK v : v = <<e>>
      OBVIOUS
    <3>3. v \in Seq(S) /\ Len(v) = 1 /\ v[1] = e
      BY <3>2
    <3>4. PICK g : g = f \o v
      OBVIOUS
    <3>5. \A i \in 1 .. Len(f) + Len(v) : g[i] = IF i <= Len(f) THEN f[i] ELSE v[i - Len(f)]
      BY <3>3, <3>4, ConcatProperties
    <3>6. g[m + 1] = e /\ \A i \in 1 .. m : g[i] = f[i]
      <4>1. m + 1 \in 1 .. Len(f) + Len(v) /\ ~(m + 1 <= Len(f)) /\ m + 1 - Len(f) = 1
        BY <2>8, <3>3
      <4>2. g[m + 1] = e
        BY <3>3, <3>5, <4>1
      <4>3. \A i \in 1 .. m : i \in 1 .. Len(f) + Len(v) /\ i <= Len(f)
        BY <2>8, <3>3
      <4> QED BY <3>5, <4>2, <4>3
    <3>7. FilterBy(s, c) = g /\ Ones(c) = m + 1
      BY <2>9, <2>10, <2>12, <3>1, <3>2, <3>4
    <3> DEFINE q == [k \in 1 .. m + 1 |-> IF k <= m THEN pos[k] ELSE n + 1]
    <3>8. q \in [1 .. m + 1 -> 1 .. n + 1]
      BY <2>11
    <3>9. q[m + 1] = n + 1 /\ \A k \in 1 .. m : q[k] = pos[k] /\ q[k] \in 1 .. n
      BY <2>11
    <3> HIDE DEF q
    <3>10. ASSUME NEW k \in 1 .. m + 1 PROVE c[q[k]] /\ g[k] = s[q[k]]
      <4>1. CASE k = m + 1
        <5>1. c[n + 1]
          BY <2>3, <2>12
        <5> QED BY <3>1, <3>6, <3>9, <4>1, <5>1
      <4>2. CASE k # m + 1
        <5>1. k \in 1 .. m
          BY <4>2
        <5>2. b[pos[k]] /\ pos[k] \in 1 .. n /\ q[k] = pos[k]
          BY <2>11, <3>9, <5>1
        <5>3. c[pos[k]] = b[pos[k]]
          BY <2>3, <5>2
        <5>4. c[q[k]]
          BY <5>2, <5>3
        <5>5. g[k] = s[q[k]]
          BY <2>11, <3>6, <5>1, <5>2
        <5> QED BY <5>4, <5>5
      <4> QED BY <4>1, <4>2
    <3>11. \A j, k \in 1 .. m + 1 : j < k => q[j] < q[k]
      <4>1. ASSUME NEW j \in 1 .. m + 1, NEW k \in 1 .. m + 1, j < k PROVE q[j] < q[k]
        <5>1. j \in 1 .. m
          BY <4>1
        <5>2. CASE k = m + 1
          BY <3>9, <5>1, <5>2
        <5>3. CASE k # m + 1
          <6>1. k \in 1 .. m
            BY <5>3
          <6> QED BY <2>11, <3>9, <4>1, <5>1, <6>1
        <5> QED BY <5>2, <5>3
      <4> QED BY <4>1
    <3>12. Places(q, s, c)
      BY <2>5, <3>7, <3>8, <3>10, <3>11 DEF Places
    <3> QED BY <3>12
  <2>13. CASE ~x
    <3>1. FilterBy(s, c) = f /\ Ones(c) = m
      <4>1. f \o <<>> = f
        BY ConcatEmptySeq
      <4> QED BY <2>9, <2>10, <2>13, <4>1
    <3>2. pos \in [1 .. m -> 1 .. n + 1]
      BY <2>11
    <3>3. \A k \in 1 .. m : c[pos[k]]
      <4>1. ASSUME NEW k \in 1 .. m PROVE c[pos[k]]
        <5>1. b[pos[k]] /\ pos[k] \in 1 .. n
          BY <2>11
        <5>2. c[pos[k]] = b[pos[k]]
          BY <2>3, <5>1
        <5> QED BY <5>1, <5>2
      <4> QED BY <4>1
    <3>4. Places(pos, s, c)
      BY <2>5, <2>11, <3>1, <3>2, <3>3 DEF Places
    <3> QED BY <3>4
  <2> QED BY <2>12, <2>13
<1>3. P = Seq(BOOLEAN)
  <2> HIDE DEF P
  <2>1. P \in SUBSET Seq(BOOLEAN)
    BY DEF P
  <2> QED BY <2>1, <1>1, <1>2, AppendInduction
<1> QED BY <1>3

-----------------------------------------------------------------------------
\* The elements of s that are in A
Tested(s, A) == [k \in DOMAIN s |-> s[k] \in A]
\* the elements of s that are in A
Only(s, A) == FilterBy(s, Tested(s, A))

\* The bits of a test
LEMMA TestedType ==
  ASSUME NEW S, NEW s \in Seq(S), NEW A
  PROVE  /\ Tested(s, A) \in Seq(BOOLEAN) /\ Len(Tested(s, A)) = Len(s) /\ DOMAIN Tested(s, A) = DOMAIN s
         /\ \A k \in DOMAIN s : Tested(s, A)[k] = (s[k] \in A)
<1>1. DOMAIN s = 1 .. Len(s) /\ Len(s) \in Nat
  OBVIOUS
<1>2. \A k \in DOMAIN s : (s[k] \in A) \in BOOLEAN
  OBVIOUS
<1>3. Tested(s, A) \in [1 .. Len(s) -> BOOLEAN]
  BY <1>1, <1>2, Zenon DEF Tested
<1>4. Tested(s, A) \in Seq(BOOLEAN)
  BY <1>1, <1>3
<1>5. \A k \in DOMAIN s : Tested(s, A)[k] = (s[k] \in A)
  BY DEF Tested
<1>6. DOMAIN Tested(s, A) = DOMAIN s
  BY DEF Tested
<1> QED BY <1>1, <1>4, <1>5, <1>6

\* The elements that pass are elements.
LEMMA OnlyType ==
  ASSUME NEW S, NEW s \in Seq(S), NEW A
  PROVE  Only(s, A) \in Seq(S)
<1>2. Tested(s, A) \in Seq(BOOLEAN) /\ Len(Tested(s, A)) <= Len(s)
  BY TestedType
<1>3. FilterBy(s, Tested(s, A)) \in Seq(S)
  BY <1>2, FilterType
<1> QED BY <1>3 DEF Only

\* Nothing passes of nothing.
LEMMA OnlyEmpty == \A A : Only(<<>>, A) = <<>>
<1> TAKE A
<1>1. Tested(<<>>, A) = <<>>
  BY DEF Tested
<1> QED BY <1>1, FilterEmpty DEF Only

\* Two sequences can be tested apart.
LEMMA OnlyConcat ==
  ASSUME NEW S, NEW s \in Seq(S), NEW t \in Seq(S), NEW A
  PROVE  Only(s \o t, A) = Only(s, A) \o Only(t, A)
<1>1. PICK b : b = Tested(s, A)
  OBVIOUS
<1>2. PICK c : c = Tested(t, A)
  OBVIOUS
<1>3. PICK u : u = s \o t
  OBVIOUS
<1>4. PICK d : d = Tested(u, A)
  OBVIOUS
<1>5. b \in Seq(BOOLEAN) /\ Len(b) = Len(s) /\ c \in Seq(BOOLEAN) /\ Len(c) = Len(t)
  BY <1>1, <1>2, TestedType
<1>6. /\ u \in Seq(S) /\ Len(u) = Len(s) + Len(t)
      /\ \A i \in 1 .. Len(s) + Len(t) : u[i] = IF i <= Len(s) THEN s[i] ELSE t[i - Len(s)]
  BY <1>3, ConcatProperties
<1>7. d \in Seq(BOOLEAN) /\ Len(d) = Len(u)
  BY <1>4, <1>6, TestedType
<1>8. PICK bc : bc = b \o c
  OBVIOUS
<1>9. /\ bc \in Seq(BOOLEAN) /\ Len(bc) = Len(b) + Len(c)
      /\ \A i \in 1 .. Len(b) + Len(c) : bc[i] = IF i <= Len(b) THEN b[i] ELSE c[i - Len(b)]
  <2>1. b \in Seq(BOOLEAN) /\ c \in Seq(BOOLEAN)
    BY <1>5
  <2> QED BY <1>8, <2>1, ConcatProperties
<1>10. ASSUME NEW i \in 1 .. Len(d) PROVE d[i] = bc[i]
  <2>1. d[i] = (u[i] \in A)
    <3>1. i \in DOMAIN u
      BY <1>6, <1>7
    <3> QED BY <1>4, <1>6, <3>1, TestedType
  <2>2. i \in 1 .. Len(s) + Len(t) /\ i \in 1 .. Len(b) + Len(c)
    BY <1>5, <1>6, <1>7
  <2>3. CASE i <= Len(s)
    <3>1. u[i] = s[i] /\ bc[i] = b[i] /\ i \in DOMAIN s
      BY <1>5, <1>6, <1>9, <2>2, <2>3
    <3>2. b[i] = (s[i] \in A)
      BY <1>1, <3>1, TestedType
    <3> QED BY <2>1, <3>1, <3>2
  <2>4. CASE ~(i <= Len(s))
    <3>1. u[i] = t[i - Len(s)] /\ bc[i] = c[i - Len(s)] /\ i - Len(s) \in DOMAIN t
      BY <1>5, <1>6, <1>9, <2>2, <2>4
    <3>2. c[i - Len(s)] = (t[i - Len(s)] \in A)
      BY <1>2, <3>1, TestedType
    <3> QED BY <2>1, <3>1, <3>2
  <2> QED BY <2>3, <2>4
<1>11. d = bc
  <2>1. Len(d) = Len(bc)
    BY <1>5, <1>6, <1>7, <1>9
  <2> QED BY <1>7, <1>9, <1>10, <2>1, SeqEqual
<1>12. FilterBy(s \o t, b \o c) = FilterBy(s, b) \o FilterBy(t, c)
  <2>1. Len(b) = Len(s) /\ Len(c) <= Len(t)
    BY <1>5
  <2> QED BY <1>5, <2>1, FilterConcat
<1> QED BY <1>1, <1>2, <1>3, <1>4, <1>8, <1>11, <1>12 DEF Only

\* A single element passes or not.
LEMMA OnlyOne ==
  ASSUME NEW S, NEW x \in S, NEW A
  PROVE  Only(<<x>>, A) = IF x \in A THEN <<x>> ELSE <<>>
<1>1. PICK s : s = <<x>>
  OBVIOUS
<1>2. s \in Seq(S) /\ Len(s) = 1 /\ DOMAIN s = {1} /\ s[1] = x
  BY <1>1
<1>3. PICK b : b = Tested(s, A)
  OBVIOUS
<1>4. b \in Seq(BOOLEAN) /\ Len(b) <= Len(s) /\ DOMAIN b = {1} /\ b[1] = (x \in A) /\ Len(b) = 1
  BY <1>2, <1>3, TestedType
<1>5. CASE x \in A
  <2>1. \A i \in DOMAIN b : b[i]
    BY <1>4, <1>5
  <2>2. FilterBy(s, b) = SubSeq(s, 1, Len(b))
    BY <1>2, <1>4, <2>1, FilterAll
  <2>3. SubSeq(s, 1, Len(s)) = s
    BY <1>2, SubSeqFull
  <2> QED BY <1>1, <1>2, <1>3, <1>4, <1>5, <2>2, <2>3 DEF Only
<1>6. CASE x \notin A
  <2>1. \A i \in DOMAIN b : ~b[i]
    BY <1>4, <1>6
  <2>2. FilterBy(s, b) = <<>>
    BY <1>2, <1>4, <2>1, FilterNone
  <2> QED BY <1>1, <1>3, <1>6, <2>2 DEF Only
<1> QED BY <1>5, <1>6

\* The bits that are set and stand for an element of A
Masked(s, bits, A) == [i \in DOMAIN bits |-> bits[i] /\ s[i] \in A]

\* The bits of a mask after a test
LEMMA MaskedType ==
  ASSUME NEW s, NEW bits \in Seq(BOOLEAN), NEW A
  PROVE  /\ Masked(s, bits, A) \in Seq(BOOLEAN)
         /\ Len(Masked(s, bits, A)) = Len(bits) /\ DOMAIN Masked(s, bits, A) = DOMAIN bits
         /\ \A i \in DOMAIN bits : Masked(s, bits, A)[i] = (bits[i] /\ s[i] \in A)
<1>1. DOMAIN bits = 1 .. Len(bits) /\ Len(bits) \in Nat
  OBVIOUS
<1>2. \A i \in DOMAIN bits : (bits[i] /\ s[i] \in A) \in BOOLEAN
  OBVIOUS
<1>3. Masked(s, bits, A) \in [1 .. Len(bits) -> BOOLEAN]
  BY <1>1, <1>2, Zenon DEF Masked
<1>4. Masked(s, bits, A) \in Seq(BOOLEAN)
  BY <1>1, <1>3
<1>5. \A i \in DOMAIN bits : Masked(s, bits, A)[i] = (bits[i] /\ s[i] \in A)
  BY DEF Masked
<1>6. DOMAIN Masked(s, bits, A) = DOMAIN bits
  BY DEF Masked
<1> QED BY <1>1, <1>4, <1>5, <1>6

\* Filtering what has passed a filter is filtering by the set bits that pass both.
LEMMA OnlyFilter ==
  ASSUME NEW S, NEW s \in Seq(S), NEW bits \in Seq(BOOLEAN), Len(bits) <= Len(s), NEW A
  PROVE  Only(FilterBy(s, bits), A) = FilterBy(s, Masked(s, bits, A))
<1> DEFINE P == {b \in Seq(BOOLEAN) : Len(b) <= Len(s) =>
                   Only(FilterBy(s, b), A) = FilterBy(s, Masked(s, b, A))}
<1>1. <<>> \in P
  <2>1. Masked(s, <<>>, A) = <<>>
    BY DEF Masked
  <2>2. <<>> \in Seq(BOOLEAN)
    OBVIOUS
  <2> QED BY <2>1, <2>2, FilterEmpty, OnlyEmpty
<1>2. ASSUME NEW b \in P, NEW x \in BOOLEAN PROVE Append(b, x) \in P
  <2>1. PICK c : c = Append(b, x)
    OBVIOUS
  <2>2. PICK n \in Nat : n = Len(b)
    BY <1>2
  <2>3. /\ b \in Seq(BOOLEAN) /\ c \in Seq(BOOLEAN) /\ Len(c) = n + 1
        /\ c[n + 1] = x /\ \A i \in 1 .. n : c[i] = b[i]
    BY <1>2, <2>1, <2>2, AppendProperties
  <2>4. SUFFICES ASSUME n + 1 <= Len(s) PROVE Only(FilterBy(s, c), A) = FilterBy(s, Masked(s, c, A))
    BY <2>1, <2>3
  <2>5. n <= Len(s) /\ n < Len(s) /\ DOMAIN b = 1 .. n /\ DOMAIN c = 1 .. n + 1
    BY <2>2, <2>3, <2>4
  <2>6. Only(FilterBy(s, b), A) = FilterBy(s, Masked(s, b, A))
    BY <1>2, <2>2, <2>5
  <2>7. PICK e \in S : e = s[n + 1]
    BY <2>4
  <2>8. PICK f \in Seq(S) : f = FilterBy(s, b)
    BY <2>2, <2>3, <2>5, FilterType
  <2>9. FilterBy(s, c) = f \o (IF x THEN <<e>> ELSE <<>>)
    BY <2>1, <2>2, <2>3, <2>5, <2>7, <2>8, FilterAppend
  <2>10. PICK y \in BOOLEAN : y = (x /\ e \in A)
    OBVIOUS
  <2>11. PICK m \in Seq(BOOLEAN) : m = Masked(s, b, A)
    BY <2>3, MaskedType
  <2>12. Len(m) = n /\ \A i \in 1 .. n : m[i] = (b[i] /\ s[i] \in A)
    BY <2>2, <2>3, <2>5, <2>11, MaskedType
  <2>13. Masked(s, c, A) = Append(m, y)
    <3>1. PICK d : d = Append(m, y)
      OBVIOUS
    <3>2. d \in Seq(BOOLEAN) /\ Len(d) = n + 1 /\ d[n + 1] = y /\ \A i \in 1 .. n : d[i] = m[i]
      BY <2>12, <3>1, AppendProperties, SMTT(40)
    <3>3. PICK a \in Seq(BOOLEAN) : a = Masked(s, c, A)
      BY <2>3, MaskedType
    <3>4. Len(a) = n + 1 /\ \A i \in 1 .. n + 1 : a[i] = (c[i] /\ s[i] \in A)
      BY <2>3, <2>5, <3>3, MaskedType
    <3>5. ASSUME NEW i \in 1 .. n + 1 PROVE a[i] = d[i]
      <4>1. CASE i = n + 1
        <5>1. a[i] = (x /\ e \in A)
          BY <2>3, <2>7, <3>4, <4>1
        <5> QED BY <2>10, <3>2, <4>1, <5>1
      <4>2. CASE i # n + 1
        <5>1. i \in 1 .. n
          BY <4>2
        <5>2. a[i] = (b[i] /\ s[i] \in A)
          BY <2>3, <3>4, <5>1
        <5> QED BY <2>12, <3>2, <5>1, <5>2
      <4> QED BY <4>1, <4>2
    <3>6. a = d
      BY <3>2, <3>4, <3>5, SeqEqual
    <3> QED BY <3>1, <3>3, <3>6
  <2>14. FilterBy(s, Append(m, y)) = FilterBy(s, m) \o (IF y THEN <<e>> ELSE <<>>)
    BY <2>5, <2>7, <2>12, FilterAppend
  <2>15. Only(FilterBy(s, c), A) = Only(f, A) \o (IF y THEN <<e>> ELSE <<>>)
    <3>1. PICK v : v = <<e>>
      OBVIOUS
    <3>2. v \in Seq(S)
      BY <3>1
    <3>3. Only(f, A) \in Seq(S)
      BY OnlyType
    <3>4. CASE x
      <4>1. Only(f \o v, A) = Only(f, A) \o Only(v, A)
        BY <3>2, OnlyConcat
      <4>2. Only(v, A) = IF e \in A THEN <<e>> ELSE <<>>
        BY <3>1, OnlyOne
      <4>3. FilterBy(s, c) = f \o v
        BY <2>9, <3>1, <3>4
      <4>4. y = (e \in A)
        BY <2>10, <3>4
      <4> QED BY <4>1, <4>2, <4>3, <4>4
    <3>5. CASE ~x
      <4>1. f \o <<>> = f /\ Only(f, A) \o <<>> = Only(f, A)
        BY <3>3, ConcatEmptySeq
      <4>2. ~y
        BY <2>10, <3>5
      <4> QED BY <2>9, <3>5, <4>1, <4>2
    <3> QED BY <3>4, <3>5
  <2> QED BY <2>6, <2>8, <2>11, <2>13, <2>14, <2>15
<1>3. P = Seq(BOOLEAN)
  <2> HIDE DEF P
  <2>1. P \in SUBSET Seq(BOOLEAN)
    BY DEF P
  <2> QED BY <2>1, <1>1, <1>2, AppendInduction
<1> QED BY <1>3

\* boolean_buffer_and_then puts the answers for the rows under the mask in the
\* places of the bits that they belong to.
LEMMA AndThenMask ==
  ASSUME NEW S, NEW s \in Seq(S), NEW m \in Seq(BOOLEAN), Len(m) <= Len(s), NEW A
  PROVE  BooleanBufferAndThen(m, Tested(FilterBy(s, m), A)) = Masked(s, m, A)
<1>1. PICK f \in Seq(S) : f = FilterBy(s, m) /\ Len(f) = Ones(m)
  BY FilterType, FilterLen
<1>2. PICK r \in Seq(BOOLEAN) : r = Tested(f, A)
  BY TestedType
<1>3. Len(r) = Ones(m) /\ \A k \in 1 .. Ones(m) : r[k] = (f[k] \in A)
  <2>1. Len(r) = Len(f) /\ \A k \in DOMAIN f : r[k] = (f[k] \in A)
    BY <1>2, TestedType
  <2> QED BY <1>1, <2>1, SMTT(40)
<1>4. DOMAIN m = 1 .. Len(m) /\ Len(m) \in Nat
  OBVIOUS
<1>5. CASE Len(m) = Len(r)
  <2>1. SetBits(m) = 1 .. Len(m)
    <3>1. IsFiniteSet(1 .. Len(m)) /\ Cardinality(1 .. Len(m)) = Len(m)
      <4>1. 1 <= Len(m) + 1 /\ Len(m) - 1 + 1 = Len(m) /\ 1 \in Int /\ Len(m) \in Int
        OBVIOUS
      <4> QED BY <4>1, IntervalSize
    <3>2. SetBits(m) \subseteq 1 .. Len(m)
      BY DEF SetBits
    <3>3. Cardinality(SetBits(m)) = Cardinality(1 .. Len(m))
      BY <1>3, <1>5, <3>1 DEF Ones
    <3> QED BY <3>1, <3>2, <3>3, FS_Subset
  <2>2. \A i \in DOMAIN m : m[i]
    BY <1>4, <2>1, Zenon DEF SetBits
  <2>3. f = SubSeq(s, 1, Len(m))
    BY <1>1, <2>2, FilterAll
  <2>4. Len(m) \in 0 .. Len(s)
    BY <1>4
  <2>5. \A i \in 1 .. Len(m) : f[i] = s[i]
    BY <2>3, <2>4, SplitSeq
  <2>6. ASSUME NEW i \in 1 .. Len(m) PROVE r[i] = Masked(s, m, A)[i]
    <3>1. r[i] = (f[i] \in A)
      BY <1>3, <1>5
    <3>2. f[i] = s[i] /\ m[i]
      BY <1>4, <2>2, <2>5
    <3>3. Masked(s, m, A)[i] = (m[i] /\ s[i] \in A)
      BY <1>4, MaskedType
    <3> QED BY <3>1, <3>2, <3>3
  <2>7. r = Masked(s, m, A)
    <3>1. Masked(s, m, A) \in Seq(BOOLEAN) /\ Len(Masked(s, m, A)) = Len(m)
      BY MaskedType
    <3> QED BY <1>5, <2>6, <3>1, SeqEqual
  <2> QED BY <1>1, <1>2, <1>5, <2>7 DEF BooleanBufferAndThen
<1>6. CASE Len(m) # Len(r)
  <2>1. BooleanBufferAndThen(m, r) = [i \in DOMAIN m |-> m[i] /\ r[Ones(SubSeq(m, 1, i))]]
    BY <1>6 DEF BooleanBufferAndThen, Ones
  <2>2. ASSUME NEW i \in DOMAIN m PROVE (m[i] /\ r[Ones(SubSeq(m, 1, i))]) = (m[i] /\ s[i] \in A)
    <3>1. CASE m[i]
      <4>1. Ones(SubSeq(m, 1, i)) \in 1 .. Ones(m) /\ f[Ones(SubSeq(m, 1, i))] = s[i]
        BY <1>1, <3>1, FilterAt
      <4>2. r[Ones(SubSeq(m, 1, i))] = (s[i] \in A)
        BY <1>3, <4>1
      <4> QED BY <3>1, <4>2
    <3>2. CASE ~m[i]
      BY <3>2
    <3> QED BY <3>1, <3>2
  <2>3. [i \in DOMAIN m |-> m[i] /\ r[Ones(SubSeq(m, 1, i))]] = [i \in DOMAIN m |-> m[i] /\ s[i] \in A]
    BY <2>2, Zenon
  <2> QED BY <1>1, <1>2, <2>1, <2>3 DEF Masked
<1> QED BY <1>5, <1>6

-----------------------------------------------------------------------------
(* What the operations on selections do to the bits                        *)

\* A run of equal bits
LEMMA SameType ==
  ASSUME NEW b \in BOOLEAN, NEW n \in Nat
  PROVE  /\ Same(b, n) \in Seq(BOOLEAN) /\ Len(Same(b, n)) = n /\ DOMAIN Same(b, n) = 1 .. n
         /\ \A i \in 1 .. n : Same(b, n)[i] = b
<1>1. Same(b, n) \in Seq(BOOLEAN) /\ Len(Same(b, n)) = n
  BY ConstSeq DEF Same
<1>2. DOMAIN Same(b, n) = 1 .. n /\ \A i \in 1 .. n : Same(b, n)[i] = b
  BY DEF Same
<1> QED BY <1>1, <1>2

\* Two runs of a kind join.
LEMMA SameConcat ==
  ASSUME NEW b \in BOOLEAN, NEW m \in Nat, NEW n \in Nat
  PROVE  Same(b, m) \o Same(b, n) = Same(b, m + n)
<1>1. PICK c : c = Same(b, m) \o Same(b, n)
  OBVIOUS
<1>2. Same(b, m) \in Seq(BOOLEAN) /\ Same(b, n) \in Seq(BOOLEAN)
  BY SameType
<1>3. /\ c \in Seq(BOOLEAN) /\ Len(c) = Len(Same(b, m)) + Len(Same(b, n))
      /\ \A i \in 1 .. Len(Same(b, m)) + Len(Same(b, n)) :
           c[i] = IF i <= Len(Same(b, m)) THEN Same(b, m)[i] ELSE Same(b, n)[i - Len(Same(b, m))]
  BY <1>1, <1>2, ConcatProperties
<1>4. Len(Same(b, m)) = m /\ Len(Same(b, n)) = n
  BY SameType
<1>5. PICK d \in Seq(BOOLEAN) : d = Same(b, m + n) /\ Len(d) = m + n
  <2>1. m + n \in Nat
    OBVIOUS
  <2> QED BY <2>1, SameType
<1>6. ASSUME NEW i \in 1 .. m + n PROVE c[i] = d[i]
  <2>1. d[i] = b
    <3>1. m + n \in Nat
      OBVIOUS
    <3> QED BY <1>5, <3>1, SameType
  <2>2. CASE i <= m
    <3>1. i \in 1 .. m
      BY <2>2
    <3>2. c[i] = Same(b, m)[i]
      BY <1>3, <1>4, <2>2
    <3> QED BY <2>1, <3>1, <3>2, SameType
  <2>3. CASE ~(i <= m)
    <3>1. i - m \in 1 .. n
      BY <2>3
    <3>2. c[i] = Same(b, n)[i - m]
      BY <1>3, <1>4, <2>3
    <3> QED BY <2>1, <3>1, <3>2, SameType
  <2> QED BY <2>2, <2>3
<1>7. c = d
  BY <1>3, <1>4, <1>5, <1>6, SeqEqual
<1> QED BY <1>1, <1>5, <1>7

\* A run of no rows has no bits.
LEMMA SameNone == \A b : Same(b, 0) = <<>>
  BY DEF Same

\* The set bits of a run
LEMMA OnesSame ==
  ASSUME NEW b \in BOOLEAN, NEW n \in Nat PROVE Ones(Same(b, n)) = IF b THEN n ELSE 0
<1>1. DOMAIN Same(b, n) = 1 .. n /\ \A i \in 1 .. n : Same(b, n)[i] = b
  BY SameType
<1>2. CASE b
  <2>1. SetBits(Same(b, n)) = 1 .. n
    BY <1>1, <1>2, Zenon DEF SetBits
  <2>2. Cardinality(1 .. n) = n
    <3>1. 1 <= n + 1 /\ n - 1 + 1 = n /\ 1 \in Int /\ n \in Int
      OBVIOUS
    <3> QED BY <3>1, IntervalSize
  <2> QED BY <1>2, <2>1, <2>2 DEF Ones
<1>3. CASE ~b
  <2>1. SetBits(Same(b, n)) = {}
    BY <1>1, <1>3, Zenon DEF SetBits
  <2> QED BY <1>3, <2>1, FS_EmptySet DEF Ones
<1> QED BY <1>2, <1>3

\* The parts of a run
LEMMA RunParts ==
  ASSUME NEW r \in Run PROVE (~r.skip) \in BOOLEAN /\ r.skip \in BOOLEAN /\ r.n \in Nat
  BY DEF Run

\* Joining a run to its neighbour or leaving out an empty one keeps the bits.
LEMMA PushRunBits ==
  ASSUME NEW runs \in Seq(Run), NEW r \in Run
  PROVE  PushRun(runs, r) \in Seq(Run) /\ Bits(PushRun(runs, r)) = Bits(runs) \o Same(~r.skip, r.n)
<1>0. Bits(runs) \in Seq(BOOLEAN)
  BY BitsType
<1>1. CASE r.n = 0
  <2>1. PushRun(runs, r) = runs
    BY <1>1 DEF PushRun
  <2>2. Bits(runs) \o <<>> = Bits(runs)
    BY <1>0, ConcatEmptySeq
  <2> QED BY <1>1, <2>1, <2>2, SameNone
<1>2. CASE r.n # 0 /\ runs # <<>> /\ Last(runs).skip = r.skip
  <2>1. PICK u \in Seq(Run), l \in Run : runs = Append(u, l)
    BY <1>2, SequenceEmptyOrAppend
  <2>2. /\ Len(runs) = Len(u) + 1 /\ runs[Len(u) + 1] = l /\ Len(u) \in Nat
        /\ \A i \in 1 .. Len(u) : runs[i] = u[i]
    BY <2>1, AppendProperties
  <2>3. Last(runs) = l
    BY <2>2 DEF Last
  <2>4. PICK k \in Run : k = [l EXCEPT !.n = l.n + r.n] /\ k.n = l.n + r.n /\ k.skip = r.skip
    <3>1. l.n \in Nat /\ r.n \in Nat /\ l.skip = r.skip
      BY <1>2, <2>3, RunParts
    <3>2. PICK v \in Nat : v = l.n + r.n
      BY <3>1
    <3>3. [l EXCEPT !.n = v] \in Run /\ [l EXCEPT !.n = v].n = v /\ [l EXCEPT !.n = v].skip = l.skip
      BY DEF Run
    <3> QED BY <3>1, <3>2, <3>3
  <2>5. PushRun(runs, r) = [runs EXCEPT ![Len(runs)] = k]
    BY <1>2, <2>2, <2>4 DEF PushRun
  <2>6. [runs EXCEPT ![Len(runs)] = k] = Append(u, k)
    <3>1. PICK a : a = [runs EXCEPT ![Len(runs)] = k]
      OBVIOUS
    <3>2. PICK c : c = Append(u, k)
      OBVIOUS
    <3>3. Len(runs) \in 1 .. Len(runs)
      BY <2>2
    <3>4. a \in Seq(Run) /\ Len(a) = Len(runs) /\ \A j \in 1 .. Len(runs) : a[j] = IF j = Len(runs) THEN k ELSE runs[j]
      BY <3>1, <3>3, ExceptSeq
    <3>5. c \in Seq(Run) /\ Len(c) = Len(u) + 1 /\ c[Len(u) + 1] = k /\ \A i \in 1 .. Len(u) : c[i] = u[i]
      BY <3>2, AppendProperties
    <3>6. ASSUME NEW i \in 1 .. Len(a) PROVE a[i] = c[i]
      <4>1. CASE i = Len(runs)
        BY <2>2, <3>4, <3>5, <4>1
      <4>2. CASE i # Len(runs)
        <5>1. i \in 1 .. Len(u) /\ i \in 1 .. Len(runs)
          BY <2>2, <3>4, <4>2
        <5> QED BY <2>2, <3>4, <3>5, <4>2, <5>1
      <4> QED BY <4>1, <4>2
    <3>7. a = c
      BY <2>2, <3>4, <3>5, <3>6, SeqEqual
    <3> QED BY <3>1, <3>2, <3>7
  <2>7. Bits(Append(u, k)) = Bits(u) \o Same(~k.skip, k.n) /\ Bits(runs) = Bits(u) \o Same(~l.skip, l.n)
    BY <2>1, BitsAppend
  <2>8. l.skip = r.skip /\ l.n \in Nat /\ r.n \in Nat /\ (~r.skip) \in BOOLEAN
    BY <1>2, <2>3, RunParts
  <2>9. Same(~r.skip, l.n) \o Same(~r.skip, r.n) = Same(~r.skip, l.n + r.n)
    BY <2>8, SameConcat
  <2>10. (Bits(u) \o Same(~r.skip, l.n)) \o Same(~r.skip, r.n) = Bits(u) \o (Same(~r.skip, l.n) \o Same(~r.skip, r.n))
    <3>1. Bits(u) \in Seq(BOOLEAN) /\ Same(~r.skip, l.n) \in Seq(BOOLEAN) /\ Same(~r.skip, r.n) \in Seq(BOOLEAN)
      BY <2>8, BitsType, SameType
    <3> QED BY <3>1, ConcatAssociative
  <2>11. Append(u, k) \in Seq(Run)
    BY AppendProperties
  <2> QED BY <2>4, <2>5, <2>6, <2>7, <2>8, <2>9, <2>10, <2>11
<1>3. CASE r.n # 0 /\ ~(runs # <<>> /\ Last(runs).skip = r.skip)
  <2>1. PushRun(runs, r) = Append(runs, r)
    BY <1>3 DEF PushRun
  <2>2. Append(runs, r) \in Seq(Run)
    BY AppendProperties
  <2> QED BY <2>1, <2>2, BitsAppend
<1> QED BY <1>1, <1>2, <1>3

\* The bits of the first runs, one run at a time
LEMMA BitsUpTo ==
  ASSUME NEW sel \in Seq(Run), NEW i \in 1 .. Len(sel)
  PROVE  /\ SubSeq(sel, 1, i) \in Seq(Run) /\ SubSeq(sel, 1, i - 1) \in Seq(Run) /\ sel[i] \in Run
         /\ Bits(SubSeq(sel, 1, i)) = Bits(SubSeq(sel, 1, i - 1)) \o Same(~sel[i].skip, sel[i].n)
<1>1. i \in 0 .. Len(sel) /\ i - 1 \in 0 .. Len(sel) /\ sel[i] \in Run /\ 1 \in 1 .. Len(sel)
  OBVIOUS
<1>2. SubSeq(sel, 1, i) \in Seq(Run) /\ SubSeq(sel, 1, i - 1) \in Seq(Run)
  BY <1>1, SplitSeq
<1>3. PICK r \in Run : r = sel[i]
  BY <1>1
<1>4. PICK a \in Seq(Run) : a = SubSeq(sel, 1, i - 1)
  BY <1>2
<1>5. SubSeq(sel, 1, i) = a \o <<r>>
  BY <1>1, <1>3, <1>4, SubSeqRecursiveSecond
<1>6. Append(a, r) = a \o <<r>>
  BY AppendIsConcat
<1>7. Bits(Append(a, r)) = Bits(a) \o Same(~r.skip, r.n)
  BY BitsAppend
<1> QED BY <1>1, <1>2, <1>3, <1>4, <1>5, <1>6, <1>7

\* RowSelection::from keeps the bits.
LEMMA RowSelectionFromBits ==
  ASSUME NEW sel \in Seq(Run)
  PROVE  RowSelectionFrom(sel) \in Seq(Run) /\ Bits(RowSelectionFrom(sel)) = Bits(sel)
<1> DEFINE L == Len(sel)
           step == [p \in Nat \X Seq(Run) |-> IF p[1] \in 0 .. L - 1 THEN PushRun(p[2], sel[p[1] + 1]) ELSE <<>>]
           Eq(g) == g = [i \in 0 .. L |-> IF i = 0 THEN <<>> ELSE PushRun(g[i - 1], sel[i])]
           fl == CHOOSE g : Eq(g)
<1>1. L \in Nat /\ \A i \in 1 .. L : sel[i] \in Run
  OBVIOUS
<1>2. step \in [Nat \X Seq(Run) -> Seq(Run)]
  <2>1. ASSUME NEW p \in Nat \X Seq(Run), p[1] \in 0 .. L - 1 PROVE PushRun(p[2], sel[p[1] + 1]) \in Seq(Run)
    <3>1. p[1] + 1 \in 1 .. L /\ p[2] \in Seq(Run)
      BY <1>1, <2>1
    <3>2. sel[p[1] + 1] \in Run
      BY <1>1, <3>1
    <3> QED BY <3>1, <3>2, PushRunBits
  <2>2. <<>> \in Seq(Run)
    OBVIOUS
  <2> QED BY <2>1, <2>2
<1>3. PICK F \in [Nat -> Seq(Run)] : F[0] = <<>> /\ \A n \in Nat : F[n + 1] = step[<<n, F[n]>>]
  <2>1. <<>> \in Seq(Run)
    OBVIOUS
  <2> HIDE DEF step
  <2>2. \E g : Iterates(g, Seq(Run), <<>>, step)
    BY <1>2, <2>1, Iteration
  <2> QED BY <2>2 DEF Iterates
<1> DEFINE f == [i \in 0 .. L |-> F[i]]
<1>4. ASSUME NEW i \in 1 .. L PROVE F[i] = PushRun(F[i - 1], sel[i])
  <2>1. PICK j \in Nat : j = i - 1 /\ j \in 0 .. L - 1
    BY <1>1
  <2>2. F[j + 1] = step[<<j, F[j]>>] /\ <<j, F[j]>> \in Nat \X Seq(Run)
    BY <1>3
  <2>3. step[<<j, F[j]>>] = PushRun(F[j], sel[j + 1])
    BY <2>1, <2>2
  <2>4. j + 1 = i /\ i - 1 = j
    BY <2>1
  <2> QED BY <2>2, <2>3, <2>4
<1>5. Eq(f)
  <2>1. ASSUME NEW i \in 0 .. L PROVE f[i] = IF i = 0 THEN <<>> ELSE PushRun(f[i - 1], sel[i])
    <3>1. CASE i = 0
      BY <1>1, <1>3, <3>1
    <3>2. CASE i # 0
      <4>1. i \in 1 .. L /\ i - 1 \in 0 .. L
        BY <1>1, <3>2
      <4> QED BY <1>4, <3>2, <4>1
    <3> QED BY <3>1, <3>2
  <2> QED BY <2>1, Zenon
<1> HIDE DEF f, step
<1>6. Eq(fl)
  <2> HIDE DEF Eq
  <2> QED BY <1>5
<1>7. RowSelectionFrom(sel) = fl[L]
  BY <1>1 DEF RowSelectionFrom
<1> HIDE DEF fl
<1>8. fl[0] = <<>> /\ \A i \in 1 .. L : fl[i] = PushRun(fl[i - 1], sel[i])
  <2>1. \A i \in 0 .. L : fl[i] = IF i = 0 THEN <<>> ELSE PushRun(fl[i - 1], sel[i])
    BY <1>6, Zenon
  <2>2. 0 \in 0 .. L /\ \A i \in 1 .. L : i \in 0 .. L /\ i # 0
    BY <1>1
  <2> QED BY <2>1, <2>2
<1> DEFINE Q == {n \in Nat : n <= L => fl[n] \in Seq(Run) /\ Bits(fl[n]) = Bits(SubSeq(sel, 1, n))}
<1>9. 0 \in Q
  <2>1. SubSeq(sel, 1, 0) = <<>>
    BY SubSeqEmpty
  <2>2. <<>> \in Seq(Run)
    OBVIOUS
  <2> QED BY <1>8, <2>1, <2>2
<1>10. ASSUME NEW n \in Q PROVE n + 1 \in Q
  <2> SUFFICES ASSUME n + 1 <= L PROVE fl[n + 1] \in Seq(Run) /\ Bits(fl[n + 1]) = Bits(SubSeq(sel, 1, n + 1))
    OBVIOUS
  <2>1. n \in Nat /\ fl[n] \in Seq(Run) /\ Bits(fl[n]) = Bits(SubSeq(sel, 1, n))
    BY <1>1, <1>10
  <2>2. PICK i \in 1 .. L : i = n + 1 /\ i - 1 = n
    BY <1>1, <2>1
  <2>3. PICK r \in Run : r = sel[i]
    BY <1>1
  <2>4. fl[i] = PushRun(fl[n], r)
    BY <1>8, <2>2, <2>3
  <2>5. PushRun(fl[n], r) \in Seq(Run) /\ Bits(PushRun(fl[n], r)) = Bits(fl[n]) \o Same(~r.skip, r.n)
    BY <2>1, PushRunBits
  <2>6. Bits(SubSeq(sel, 1, i)) = Bits(SubSeq(sel, 1, i - 1)) \o Same(~sel[i].skip, sel[i].n)
    BY BitsUpTo
  <2> QED BY <2>1, <2>2, <2>3, <2>4, <2>5, <2>6
<1>11. Q = Nat
  <2> HIDE DEF Q
  <2>1. Q \in SUBSET Nat
    BY DEF Q
  <2> QED BY <2>1, <1>9, <1>10, NumberInduction
<1>12. fl[L] \in Seq(Run) /\ Bits(fl[L]) = Bits(SubSeq(sel, 1, L))
  <2> HIDE DEF Q
  <2>1. L \in Q /\ L <= L
    BY <1>1, <1>11
  <2> QED BY <2>1 DEF Q
<1> QED BY <1>7, <1>12, SubSeqFull

\* a run for each bit
UnitSelections(bits) == [i \in DOMAIN bits |-> [skip |-> ~bits[i], n |-> 1]]

\* Runs of one row each have the bits that they are made of.
LEMMA UnitsBits == \A bits \in Seq(BOOLEAN) : UnitSelections(bits) \in Seq(Run) /\ Bits(UnitSelections(bits)) = bits
<1> DEFINE P == {b \in Seq(BOOLEAN) : UnitSelections(b) \in Seq(Run) /\ Bits(UnitSelections(b)) = b}
<1>1. <<>> \in P
  <2>1. UnitSelections(<<>>) = <<>>
    BY DEF UnitSelections
  <2>2. <<>> \in Seq(BOOLEAN) /\ <<>> \in Seq(Run)
    OBVIOUS
  <2> QED BY <2>1, <2>2, BitsEmpty
<1>2. ASSUME NEW b \in P, NEW x \in BOOLEAN PROVE Append(b, x) \in P
  <2>1. b \in Seq(BOOLEAN) /\ UnitSelections(b) \in Seq(Run) /\ Bits(UnitSelections(b)) = b
    BY <1>2
  <2>2. PICK c : c = Append(b, x)
    OBVIOUS
  <2>3. PICK n \in Nat : n = Len(b)
    BY <2>1
  <2>4. /\ c \in Seq(BOOLEAN) /\ Len(c) = n + 1 /\ c[n + 1] = x /\ \A i \in 1 .. n : c[i] = b[i]
    BY <2>1, <2>2, <2>3, AppendProperties
  <2>5. PICK r \in Run : r = [skip |-> ~x, n |-> 1] /\ r.n = 1 /\ r.skip = ~x
    <3>1. PICK y \in BOOLEAN : y = ~x
      OBVIOUS
    <3>2. [skip |-> y, n |-> 1] \in Run
      BY DEF Run
    <3> QED BY <3>1, <3>2
  <2>6. PICK u \in Seq(Run) : u = UnitSelections(b)
    BY <2>1
  <2>7. Len(u) = n /\ \A i \in 1 .. n : u[i] = [skip |-> ~b[i], n |-> 1]
    BY <2>1, <2>3, <2>6 DEF UnitSelections
  <2>8. PICK a : a = Append(u, r)
    OBVIOUS
  <2>9. a \in Seq(Run) /\ Len(a) = n + 1 /\ a[n + 1] = r /\ \A i \in 1 .. n : a[i] = u[i]
    BY <2>7, <2>8, AppendProperties
  <2>10. UnitSelections(c) = a
    <3>1. DOMAIN UnitSelections(c) = 1 .. n + 1 /\ DOMAIN a = 1 .. n + 1
      BY <2>4, <2>9 DEF UnitSelections
    <3>2. ASSUME NEW i \in 1 .. n + 1 PROVE UnitSelections(c)[i] = a[i]
      <4>1. UnitSelections(c)[i] = [skip |-> ~c[i], n |-> 1]
        BY <2>4 DEF UnitSelections
      <4>2. CASE i = n + 1
        BY <2>4, <2>5, <2>9, <4>1, <4>2
      <4>3. CASE i # n + 1
        <5>1. i \in 1 .. n
          BY <4>3
        <5>2. c[i] = b[i]
          BY <2>4, <5>1
        <5> QED BY <2>7, <2>9, <4>1, <5>1, <5>2
      <4> QED BY <4>2, <4>3
    <3>3. UnitSelections(c) = [i \in 1 .. n + 1 |-> UnitSelections(c)[i]]
      BY <3>1 DEF UnitSelections
    <3>4. a = [i \in 1 .. n + 1 |-> a[i]]
      BY <2>9, <3>1
    <3> QED BY <3>2, <3>3, <3>4, Zenon
  <2>11. Bits(a) = Bits(u) \o Same(~r.skip, r.n)
    BY <2>8, BitsAppend
  <2>12. Same(~r.skip, r.n) = <<x>>
    <3>1. ~r.skip = x
      BY <2>5
    <3>2. Same(x, 1) = <<x>>
      BY DEF Same
    <3> QED BY <2>5, <3>1, <3>2
  <2>13. b \o <<x>> = c
    BY <2>1, <2>2, AppendIsConcat
  <2> QED BY <2>1, <2>2, <2>4, <2>6, <2>9, <2>10, <2>11, <2>12, <2>13
<1>3. P = Seq(BOOLEAN)
  <2> HIDE DEF P
  <2>1. P \in SUBSET Seq(BOOLEAN)
    BY DEF P
  <2> QED BY <2>1, <1>1, <1>2, AppendInduction
<1> QED BY <1>3

\* A selection made of bits has these bits.
LEMMA FromBitsBits == \A bits \in Seq(BOOLEAN) : FromBits(bits) \in Seq(Run) /\ Bits(FromBits(bits)) = bits
<1> TAKE bits \in Seq(BOOLEAN)
<1>1. FromBits(bits) = RowSelectionFrom(UnitSelections(bits))
  BY DEF FromBits, UnitSelections
<1>2. UnitSelections(bits) \in Seq(Run) /\ Bits(UnitSelections(bits)) = bits
  BY UnitsBits
<1> QED BY <1>1, <1>2, RowSelectionFromBits

\* The lesser of two numbers
LEMMA LesserIs ==
  ASSUME NEW a \in Nat, NEW b \in Nat
  PROVE  /\ Lesser(a, b) \in Nat /\ Lesser(a, b) <= a /\ Lesser(a, b) <= b /\ (Lesser(a, b) = a \/ Lesser(a, b) = b)
         /\ (a <= b => Lesser(a, b) = a) /\ (b <= a => Lesser(a, b) = b)
  BY DEF Lesser

\* RowSelection::split_off cuts the bits.
LEMMA SplitOffBits ==
  ASSUME NEW sel \in Seq(Run), NEW rows \in Nat, NEW n, n = Lesser(rows, Len(Bits(sel)))
  PROVE  /\ SplitOff(sel, rows).first \in Seq(Run) /\ SplitOff(sel, rows).rest \in Seq(Run)
         /\ n \in 0 .. Len(Bits(sel))
         /\ Bits(SplitOff(sel, rows).first) = SubSeq(Bits(sel), 1, n)
         /\ Bits(SplitOff(sel, rows).rest) = SubSeq(Bits(sel), n + 1, Len(Bits(sel)))
<1>1. PICK bits \in Seq(BOOLEAN) : bits = Bits(sel)
  BY BitsType
<1>2. PICK l \in Nat : l = Len(bits)
  OBVIOUS
<1>3. n \in 0 .. l
  BY <1>1, <1>2, LesserIs
<1>4. SubSeq(bits, 1, n) \in Seq(BOOLEAN) /\ SubSeq(bits, n + 1, l) \in Seq(BOOLEAN)
  BY <1>2, <1>3, SplitSeq
<1>5. SubSeq(bits, rows + 1, l) = SubSeq(bits, n + 1, l)
  <2>1. CASE rows <= l
    BY <1>1, <1>2, <2>1, LesserIs
  <2>2. CASE ~(rows <= l)
    <3>0. n = l
      BY <1>1, <1>2, <2>2 DEF Lesser
    <3>1. n = l /\ l < rows + 1 /\ l < l + 1 /\ rows + 1 \in Int /\ l + 1 \in Int /\ l \in Int
      BY <1>2, <2>2, <3>0
    <3>2. SubSeq(bits, rows + 1, l) = <<>> /\ SubSeq(bits, l + 1, l) = <<>>
      BY <3>1, SubSeqEmpty
    <3> QED BY <3>1, <3>2
  <2> QED BY <2>1, <2>2
<1>6. SplitOff(sel, rows) = [first |-> FromBits(SubSeq(bits, 1, n)), rest |-> FromBits(SubSeq(bits, n + 1, l))]
  BY <1>1, <1>2, <1>5 DEF SplitOff, Bits
<1>7. SplitOff(sel, rows).first = FromBits(SubSeq(bits, 1, n)) /\ SplitOff(sel, rows).rest = FromBits(SubSeq(bits, n + 1, l))
  BY <1>6
<1> QED BY <1>1, <1>2, <1>3, <1>4, <1>7, FromBitsBits

\* FirstOf is 0 or the least position.
LEMMA FirstOfIs ==
  ASSUME NEW S \in SUBSET Nat, 0 \notin S
  PROVE  \/ FirstOf(S) = 0 /\ S = {}
         \/ FirstOf(S) \in S /\ \A j \in S : FirstOf(S) <= j
<1>1. CASE S = {}
  BY <1>1 DEF FirstOf
<1>2. CASE S # {}
  <2>1. \E n \in S : \A m \in S : n <= m
    BY <1>2, LeastNumber
  <2>2. Min(S) \in S /\ \A j \in S : Min(S) <= j
    BY <2>1 DEF Min
  <2> QED BY <1>2, <2>2 DEF FirstOf
<1> QED BY <1>1, <1>2

\* A selection is made of the runs before one of its runs, this one, and the rest.
LEMMA BitsAround ==
  ASSUME NEW sel \in Seq(Run), NEW i \in 1 .. Len(sel)
  PROVE  /\ SubSeq(sel, i + 1, Len(sel)) \in Seq(Run)
         /\ Bits(sel) = Bits(SubSeq(sel, 1, i)) \o Bits(SubSeq(sel, i + 1, Len(sel)))
<1>1. i \in 0 .. Len(sel)
  OBVIOUS
<1>2. PICK a : a = SubSeq(sel, 1, i)
  OBVIOUS
<1>3. PICK b : b = SubSeq(sel, i + 1, Len(sel))
  OBVIOUS
<1>4. a \in Seq(Run) /\ b \in Seq(Run)
  BY <1>1, <1>2, <1>3, SplitSeq
<1>5. sel = a \o b
  BY <1>1, <1>2, <1>3, SplitWhole
<1>6. Bits(a \o b) = Bits(a) \o Bits(b)
  BY <1>4, BitsConcat
<1> QED BY <1>2, <1>3, <1>4, <1>5, <1>6

\* The rows of the runs add up.
LEMMA RowsUpToIs ==
  ASSUME NEW sel \in Seq(Run)
  PROVE  /\ RowsUpTo(sel, 0) = 0
         /\ RowsUpTo(sel, Len(sel)) = Len(Bits(sel))
         /\ \A i \in 0 .. Len(sel) : RowsUpTo(sel, i) \in Nat
         /\ \A i \in 1 .. Len(sel) : RowsUpTo(sel, i) = RowsUpTo(sel, i - 1) + sel[i].n
<1>1. RowsUpTo(sel, 0) = 0
  <2>1. SubSeq(sel, 1, 0) = <<>>
    BY SubSeqEmpty
  <2>2. RowsUpTo(sel, 0) = Len(Bits(SubSeq(sel, 1, 0)))
    BY DEF RowsUpTo, Bits
  <2>3. Len(<<>>) = 0
    OBVIOUS
  <2> QED BY <2>1, <2>2, <2>3, BitsEmpty
<1>2. RowsUpTo(sel, Len(sel)) = Len(Bits(sel))
  BY SubSeqFull DEF RowsUpTo, Bits
<1>3. ASSUME NEW i \in 0 .. Len(sel) PROVE RowsUpTo(sel, i) \in Nat
  <2>1. SubSeq(sel, 1, i) \in Seq(Run)
    BY SplitSeq
  <2>2. Bits(SubSeq(sel, 1, i)) \in Seq(BOOLEAN)
    BY <2>1, BitsType
  <2> QED BY <2>2 DEF RowsUpTo, Bits
<1>4. ASSUME NEW i \in 1 .. Len(sel) PROVE RowsUpTo(sel, i) = RowsUpTo(sel, i - 1) + sel[i].n
  <2>1. /\ SubSeq(sel, 1, i - 1) \in Seq(Run) /\ sel[i] \in Run
        /\ Bits(SubSeq(sel, 1, i)) = Bits(SubSeq(sel, 1, i - 1)) \o Same(~sel[i].skip, sel[i].n)
    BY BitsUpTo
  <2>2. PICK a \in Seq(BOOLEAN) : a = Bits(SubSeq(sel, 1, i - 1))
    BY <2>1, BitsType
  <2>3. (~sel[i].skip) \in BOOLEAN /\ sel[i].n \in Nat
    BY <2>1, RunParts
  <2>6. PICK v \in BOOLEAN, m \in Nat : v = ~sel[i].skip /\ m = sel[i].n
    BY <2>3
  <2>7. Same(v, m) \in Seq(BOOLEAN) /\ Len(Same(v, m)) = m
    BY SameType
  <2>4. PICK c \in Seq(BOOLEAN) : c = Same(~sel[i].skip, sel[i].n) /\ Len(c) = sel[i].n
    BY <2>6, <2>7
  <2>5. Len(a \o c) = Len(a) + Len(c)
    BY ConcatProperties
  <2> QED BY <2>1, <2>2, <2>4, <2>5 DEF RowsUpTo, Bits
<1> QED BY <1>1, <1>2, <1>3, <1>4

\* Cutting a run in two leaves the bits as they are.
LEMMA CutRun ==
  ASSUME NEW r \in Run, NEW k \in 0 .. r.n
  PROVE  /\ [r EXCEPT !.n = k] \in Run /\ [r EXCEPT !.n = r.n - k] \in Run
         /\ Bits(<<[r EXCEPT !.n = k]>>) = Same(~r.skip, k)
         /\ Bits(<<[r EXCEPT !.n = r.n - k]>>) = Same(~r.skip, r.n - k)
         /\ Same(~r.skip, r.n) = Same(~r.skip, k) \o Same(~r.skip, r.n - k)
<1>1. r.n \in Nat /\ r.skip \in BOOLEAN /\ (~r.skip) \in BOOLEAN /\ k \in Nat
  <2>1. r.n \in Nat
    BY RunParts
  <2> QED BY <2>1, RunParts
<1>2. PICK l \in Nat : l = r.n - k /\ k + l = r.n
  BY <1>1
<1>3. PICK a \in Run : a = [r EXCEPT !.n = k] /\ a.n = k /\ a.skip = r.skip
  <2>1. [r EXCEPT !.n = k] \in Run /\ [r EXCEPT !.n = k].n = k /\ [r EXCEPT !.n = k].skip = r.skip
    BY <1>1 DEF Run
  <2> QED BY <2>1
<1>4. PICK b \in Run : b = [r EXCEPT !.n = l] /\ b.n = l /\ b.skip = r.skip
  <2>1. [r EXCEPT !.n = l] \in Run /\ [r EXCEPT !.n = l].n = l /\ [r EXCEPT !.n = l].skip = r.skip
    BY <1>1 DEF Run
  <2> QED BY <2>1
<1>5. Bits(<<a>>) = Same(~a.skip, a.n) /\ Bits(<<b>>) = Same(~b.skip, b.n)
  BY BitsOne
<1>6. Same(~r.skip, k) \o Same(~r.skip, l) = Same(~r.skip, k + l)
  BY <1>1, SameConcat
<1> QED BY <1>2, <1>3, <1>4, <1>5, <1>6

\* The two parts of a joined sequence
LEMMA ConcatParts ==
  ASSUME NEW S, NEW x \in Seq(S), NEW y \in Seq(S)
  PROVE  /\ Len(x \o y) = Len(x) + Len(y)
         /\ SubSeq(x \o y, 1, Len(x)) = x
         /\ SubSeq(x \o y, Len(x) + 1, Len(x \o y)) = y
<1>1. PICK z : z = x \o y
  OBVIOUS
<1>2. /\ z \in Seq(S) /\ Len(z) = Len(x) + Len(y)
      /\ \A i \in 1 .. Len(x) + Len(y) : z[i] = IF i <= Len(x) THEN x[i] ELSE y[i - Len(x)]
  BY <1>1, ConcatProperties
<1>3. PICK n \in 0 .. Len(z) : n = Len(x)
  BY <1>2
<1>4. PICK a : a = SubSeq(z, 1, n)
  OBVIOUS
<1>5. PICK b : b = SubSeq(z, n + 1, Len(z))
  OBVIOUS
<1>6. /\ a \in Seq(S) /\ Len(a) = n /\ (\A i \in 1 .. n : a[i] = z[i])
      /\ b \in Seq(S) /\ Len(b) = Len(z) - n /\ \A i \in 1 .. Len(z) - n : b[i] = z[n + i]
  BY <1>2, <1>4, <1>5, SplitSeq
<1>7. a = x
  <2>1. \A i \in 1 .. Len(a) : a[i] = x[i]
    BY <1>2, <1>3, <1>6
  <2> QED BY <1>3, <1>6, <2>1, SeqEqual
<1>8. b = y
  <2>1. Len(b) = Len(y)
    BY <1>2, <1>3, <1>6
  <2>2. ASSUME NEW i \in 1 .. Len(b) PROVE b[i] = y[i]
    <3>1. n + i \in 1 .. Len(x) + Len(y) /\ ~(n + i <= Len(x)) /\ (n + i) - Len(x) = i /\ i \in 1 .. Len(z) - n
      BY <1>2, <1>3, <1>6
    <3>2. z[n + i] = y[(n + i) - Len(x)]
      BY <1>2, <3>1
    <3> QED BY <1>6, <3>1, <3>2
  <2> QED BY <1>6, <2>1, <2>2, SeqEqual
<1> QED BY <1>1, <1>2, <1>3, <1>4, <1>5, <1>7, <1>8

\* Concatenation and its type under names of their own
Cat(x, y) == x \o y
\* membership that the provers do not expand
Typed(S, x) == x \in Seq(S)

\* Joined sequences are sequences.
LEMMA CatType == ASSUME NEW S, NEW x, NEW y, Typed(S, x), Typed(S, y) PROVE Typed(S, Cat(x, y))
<1>1. x \in Seq(S) /\ y \in Seq(S)
  BY DEF Typed
<1>2. x \o y \in Seq(S)
  BY <1>1, ConcatProperties
<1> QED BY <1>2 DEF Typed, Cat

\* Joining is associative.
LEMMA CatAssociative ==
  ASSUME NEW S, NEW x, NEW y, NEW z, Typed(S, x), Typed(S, y), Typed(S, z)
  PROVE  Cat(Cat(x, y), z) = Cat(x, Cat(y, z))
<1>1. x \in Seq(S) /\ y \in Seq(S) /\ z \in Seq(S)
  BY DEF Typed
<1>2. (x \o y) \o z = x \o (y \o z)
  BY <1>1, ConcatAssociative
<1> QED BY <1>2 DEF Cat

\* Joining four sequences
LEMMA CatFour ==
  ASSUME NEW S, NEW w, NEW x, NEW y, NEW z, Typed(S, w), Typed(S, x), Typed(S, y), Typed(S, z)
  PROVE  Cat(Cat(w, Cat(x, y)), z) = Cat(Cat(w, x), Cat(y, z))
<1>1. Cat(Cat(w, x), y) = Cat(w, Cat(x, y))
  BY CatAssociative
<1>2. Typed(S, Cat(w, x))
  BY CatType
<1>3. Cat(Cat(Cat(w, x), y), z) = Cat(Cat(w, x), Cat(y, z))
  BY <1>2, CatAssociative
<1> QED BY <1>1, <1>3

\* take_next_batch takes the next rows, as many as there are up to the batch
\* size, and leaves the others.
LEMMA TakeNextBatchBits ==
  ASSUME NEW sel \in Seq(Run), NEW size \in Nat, NEW n, n = Lesser(size, Len(Bits(sel)))
  PROVE  /\ TakeNextBatch(sel, size).batch \in Seq(Run) /\ TakeNextBatch(sel, size).rest \in Seq(Run)
         /\ n \in 0 .. Len(Bits(sel))
         /\ Bits(TakeNextBatch(sel, size).batch) = SubSeq(Bits(sel), 1, n)
         /\ Bits(TakeNextBatch(sel, size).rest) = SubSeq(Bits(sel), n + 1, Len(Bits(sel)))
<1>1. PICK bits \in Seq(BOOLEAN) : bits = Bits(sel)
  BY BitsType
<1>2. n \in 0 .. Len(bits) /\ Len(bits) \in Nat
  BY <1>1, LesserIs
<1>3. PICK m \in Nat : m = Len(sel)
  OBVIOUS
<1>4. /\ RowsUpTo(sel, 0) = 0 /\ RowsUpTo(sel, m) = Len(bits)
      /\ \A i \in 0 .. m : RowsUpTo(sel, i) \in Nat
      /\ \A i \in 1 .. m : RowsUpTo(sel, i) = RowsUpTo(sel, i - 1) + sel[i].n
  BY <1>1, <1>3, RowsUpToIs
<1> DEFINE S == {j \in DOMAIN sel : RowsUpTo(sel, j) > size}
<1>5. S \in SUBSET Nat /\ 0 \notin S
  OBVIOUS
<1>6. PICK i : i = FirstOf(S)
  OBVIOUS
<1>7. \/ i = 0 /\ S = {}
      \/ i \in S /\ \A j \in S : i <= j
  <2> HIDE DEF S
  <2> QED BY <1>5, <1>6, FirstOfIs
<1>8. CASE i = 0 /\ S = {}
  <2>1. TakeNextBatch(sel, size) = [batch |-> sel, rest |-> <<>>]
    BY <1>6, <1>8 DEF TakeNextBatch
  <2>2. Len(bits) <= size
    <3>1. CASE m = 0
      BY <1>4, <3>1
    <3>2. CASE m # 0
      <4>1. m \in DOMAIN sel
        BY <1>3, <3>2
      <4>2. ~(RowsUpTo(sel, m) > size)
        BY <1>8, <4>1
      <4> QED BY <1>2, <1>4, <4>2
    <3> QED BY <3>1, <3>2
  <2>3. n = Len(bits)
    BY <1>1, <1>2, <2>2, LesserIs
  <2>4. SubSeq(bits, 1, Len(bits)) = bits
    BY SubSeqFull
  <2>5. SubSeq(bits, Len(bits) + 1, Len(bits)) = <<>>
    BY <1>2, SubSeqEmpty
  <2>6. <<>> \in Seq(Run)
    OBVIOUS
  <2>7. TakeNextBatch(sel, size).batch = sel /\ TakeNextBatch(sel, size).rest = <<>>
    BY <2>1
  <2> QED BY <1>1, <1>2, <2>3, <2>4, <2>5, <2>6, <2>7, BitsEmpty
<1>9. CASE i \in S /\ \A j \in S : i <= j
  <2>1. i \in 1 .. m /\ RowsUpTo(sel, i) > size
    BY <1>3, <1>9
  <2>2. RowsUpTo(sel, i - 1) <= size /\ RowsUpTo(sel, i - 1) \in Nat
    <3>1. CASE i = 1
      BY <1>4, <3>1
    <3>2. CASE i # 1
      <4>1. i - 1 \in DOMAIN sel /\ i - 1 \in 0 .. m
        BY <1>3, <2>1, <3>2
      <4>2. i - 1 \notin S
        BY <1>3, <1>9, <2>1, <4>1
      <4>3. ~(RowsUpTo(sel, i - 1) > size)
        BY <4>1, <4>2
      <4> QED BY <1>4, <4>1, <4>3
    <3> QED BY <3>1, <3>2
  <2>3. PICK r \in Run : r = sel[i]
    BY <1>3, <2>1
  <2>4. r.n \in Nat
    BY RunParts
  <2>5. PICK room \in 0 .. r.n : room = size - RowsUpTo(sel, i - 1)
    BY <1>4, <2>1, <2>2, <2>3, <2>4, SMTT(40)
  <2>6. i # 0
    BY <2>1
  <2> HIDE DEF S
  <2>7. PICK a \in Seq(Run) : a = SubSeq(sel, 1, i - 1)
    BY <1>3, <2>1, BitsUpTo
  <2>8. PICK z \in Seq(Run) : z = SubSeq(sel, i + 1, m)
    BY <1>3, <2>1, BitsAround
  <2>9. PICK k \in Run : k = [r EXCEPT !.n = room] /\ Bits(<<k>>) = Same(~r.skip, room)
    BY CutRun
  <2>10. PICK l \in Run : l = [r EXCEPT !.n = r.n - room] /\ Bits(<<l>>) = Same(~r.skip, r.n - room)
    BY CutRun
  <2>11. /\ TakeNextBatch(sel, size).batch = a \o (IF room > 0 THEN <<k>> ELSE <<>>)
         /\ TakeNextBatch(sel, size).rest = <<l>> \o z
    BY <1>3, <1>6, <2>3, <2>5, <2>6, <2>7, <2>8, <2>9, <2>10 DEF TakeNextBatch, S
  <2>12. PICK kk \in Seq(Run) : kk = <<k>>
    <3>1. <<k>> \in Seq(Run)
      OBVIOUS
    <3> QED BY <3>1
  <2>13. PICK ll \in Seq(Run) : ll = <<l>>
    <3>1. <<l>> \in Seq(Run)
      OBVIOUS
    <3> QED BY <3>1
  <2>14. PICK v \in BOOLEAN : v = ~r.skip
    BY RunParts
  <2>15. PICK q \in Nat : q = r.n - room /\ room \in Nat
    BY <2>4
  <2>16. PICK A \in Seq(BOOLEAN) : A = Bits(a) /\ Len(A) = RowsUpTo(sel, i - 1)
    BY <2>7, BitsType DEF RowsUpTo, Bits
  <2>17. PICK Z \in Seq(BOOLEAN) : Z = Bits(z)
    BY BitsType
  <2>18. PICK K \in Seq(BOOLEAN) : K = Same(v, room) /\ Len(K) = room
    BY <2>15, SameType
  <2>19. PICK Q \in Seq(BOOLEAN) : Q = Same(v, q)
    BY SameType
  <2>20. /\ TakeNextBatch(sel, size).batch \in Seq(Run)
         /\ Bits(TakeNextBatch(sel, size).batch) = A \o K
    <3>1. CASE room > 0
      <4>1. a \o kk \in Seq(Run)
        BY ConcatProperties
      <4>2. Bits(a \o kk) = Bits(a) \o Bits(kk)
        BY BitsConcat
      <4> QED BY <2>9, <2>11, <2>12, <2>14, <2>16, <2>18, <3>1, <4>1, <4>2
    <3>2. CASE ~(room > 0)
      <4>1. room = 0
        BY <2>15, <3>2
      <4>2. K = <<>>
        BY <2>18, <4>1, SameNone
      <4>3. A \o <<>> = A /\ a \o <<>> = a
        BY ConcatEmptySeq
      <4> QED BY <2>11, <2>16, <3>2, <4>2, <4>3
    <3> QED BY <3>1, <3>2
  <2>21. /\ TakeNextBatch(sel, size).rest \in Seq(Run)
         /\ Bits(TakeNextBatch(sel, size).rest) = Q \o Z
    <3>1. ll \o z \in Seq(Run)
      BY ConcatProperties
    <3>2. Bits(ll \o z) = Bits(ll) \o Bits(z)
      BY BitsConcat
    <3> QED BY <2>10, <2>11, <2>13, <2>14, <2>15, <2>17, <2>19, <3>1, <3>2
  <2>22. bits = (A \o K) \o (Q \o Z)
    <3>1. bits = Bits(SubSeq(sel, 1, i)) \o Z
      BY <1>1, <1>3, <2>1, <2>8, <2>17, BitsAround
    <3>2. Bits(SubSeq(sel, 1, i)) = A \o Same(~r.skip, r.n)
      BY <1>3, <2>1, <2>3, <2>7, <2>16, BitsUpTo
    <3>3. Same(~r.skip, r.n) = Same(~r.skip, room) \o Same(~r.skip, r.n - room)
      BY CutRun
    <3>4. Same(~r.skip, r.n) = K \o Q
      BY <2>14, <2>15, <2>18, <2>19, <3>3
    <3>5. (A \o (K \o Q)) \o Z = (A \o K) \o (Q \o Z)
      <4>1. A \in Seq(BOOLEAN) /\ K \in Seq(BOOLEAN) /\ Q \in Seq(BOOLEAN) /\ Z \in Seq(BOOLEAN)
        OBVIOUS
      <4>2. Typed(BOOLEAN, A) /\ Typed(BOOLEAN, K) /\ Typed(BOOLEAN, Q) /\ Typed(BOOLEAN, Z)
        BY <4>1 DEF Typed
      <4>3. Cat(Cat(A, Cat(K, Q)), Z) = Cat(Cat(A, K), Cat(Q, Z))
        BY <4>2, CatFour
      <4> QED BY <4>3 DEF Cat
    <3> QED BY <3>1, <3>2, <3>4, <3>5
  <2>23. PICK AK \in Seq(BOOLEAN) : AK = A \o K
    BY ConcatProperties
  <2>24. PICK QZ \in Seq(BOOLEAN) : QZ = Q \o Z
    BY ConcatProperties
  <2>25. Len(AK) = size
    <3>1. Len(A \o K) = Len(A) + Len(K)
      BY ConcatProperties
    <3> QED BY <2>2, <2>5, <2>15, <2>16, <2>18, <2>23, <3>1, SMTT(40)
  <2>26. Len(AK \o QZ) = Len(AK) + Len(QZ) /\ SubSeq(AK \o QZ, 1, Len(AK)) = AK
         /\ SubSeq(AK \o QZ, Len(AK) + 1, Len(AK \o QZ)) = QZ
    BY ConcatParts
  <2>27. n = Len(AK)
    <3>1. Len(bits) = Len(AK) + Len(QZ)
      BY <2>22, <2>23, <2>24, <2>26
    <3>2. size <= Len(bits)
      BY <2>25, <3>1
    <3> QED BY <1>1, <1>2, <2>25, <3>2, LesserIs
  <2> QED BY <1>1, <1>2, <2>20, <2>21, <2>22, <2>23, <2>24, <2>26, <2>27
<1> QED BY <1>7, <1>8, <1>9

\* The selected rows of the runs add up.
LEMMA SelectedUpToIs ==
  ASSUME NEW sel \in Seq(Run)
  PROVE  /\ SelectedUpTo(sel, 0) = 0
         /\ SelectedUpTo(sel, Len(sel)) = Ones(Bits(sel))
         /\ \A i \in 0 .. Len(sel) : SelectedUpTo(sel, i) \in Nat
         /\ \A i \in 0 .. Len(sel) : SelectedUpTo(sel, i) = Ones(Bits(SubSeq(sel, 1, i)))
         /\ \A i \in 1 .. Len(sel) :
              SelectedUpTo(sel, i) = SelectedUpTo(sel, i - 1) + IF sel[i].skip THEN 0 ELSE sel[i].n
<1>0. \A i : SelectedUpTo(sel, i) = Ones(Bits(SubSeq(sel, 1, i)))
  BY DEF SelectedUpTo, Bits, Ones
<1>1. SelectedUpTo(sel, 0) = 0
  <2>1. SubSeq(sel, 1, 0) = <<>>
    BY SubSeqEmpty
  <2> QED BY <1>0, <2>1, BitsEmpty, OnesEmpty
<1>2. SelectedUpTo(sel, Len(sel)) = Ones(Bits(sel))
  BY <1>0, SubSeqFull
<1>3. ASSUME NEW i \in 0 .. Len(sel) PROVE SelectedUpTo(sel, i) \in Nat
  <2>1. SubSeq(sel, 1, i) \in Seq(Run)
    BY SplitSeq
  <2>2. Bits(SubSeq(sel, 1, i)) \in Seq(BOOLEAN)
    BY <2>1, BitsType
  <2> QED BY <1>0, <2>2, OnesType
<1>4. ASSUME NEW i \in 1 .. Len(sel)
      PROVE  SelectedUpTo(sel, i) = SelectedUpTo(sel, i - 1) + IF sel[i].skip THEN 0 ELSE sel[i].n
  <2>1. /\ SubSeq(sel, 1, i - 1) \in Seq(Run) /\ sel[i] \in Run
        /\ Bits(SubSeq(sel, 1, i)) = Bits(SubSeq(sel, 1, i - 1)) \o Same(~sel[i].skip, sel[i].n)
    BY BitsUpTo
  <2>2. PICK a \in Seq(BOOLEAN) : a = Bits(SubSeq(sel, 1, i - 1))
    BY <2>1, BitsType
  <2>3. (~sel[i].skip) \in BOOLEAN /\ sel[i].n \in Nat
    BY <2>1, RunParts
  <2>4. PICK v \in BOOLEAN, m \in Nat : v = ~sel[i].skip /\ m = sel[i].n
    BY <2>3
  <2>5. Same(v, m) \in Seq(BOOLEAN) /\ Ones(Same(v, m)) = IF v THEN m ELSE 0
    BY SameType, OnesSame
  <2>6. Ones(a \o Same(v, m)) = Ones(a) + Ones(Same(v, m))
    BY <2>5, OnesConcat
  <2> QED BY <1>0, <2>1, <2>2, <2>4, <2>5, <2>6
<1> QED BY <1>0, <1>1, <1>2, <1>3, <1>4

\* limit_row_selection cuts the selection after the limit's last row.
LEMMA LimitRowSelectionBits ==
  ASSUME NEW sel \in Seq(Run), NEW limit \in Nat
  PROVE  /\ LimitRowSelection(sel, limit) \in Seq(Run)
         /\ Ones(Bits(LimitRowSelection(sel, limit))) = Lesser(limit, Ones(Bits(sel)))
         /\ \E l \in 0 .. Len(Bits(sel)) : Bits(LimitRowSelection(sel, limit)) = SubSeq(Bits(sel), 1, l)
<1>1. PICK bits \in Seq(BOOLEAN) : bits = Bits(sel)
  BY BitsType
<1>2. PICK o \in Nat : o = Ones(bits)
  BY OnesType
<1>3. PICK m \in Nat : m = Len(sel)
  OBVIOUS
<1>4. CASE limit = 0
  <2>1. LimitRowSelection(sel, limit) = <<>> /\ <<>> \in Seq(Run)
    BY <1>4 DEF LimitRowSelection
  <2>2. SubSeq(bits, 1, 0) = <<>> /\ 0 \in 0 .. Len(bits)
    BY SubSeqEmpty
  <2>3. Lesser(limit, o) = 0
    BY <1>4 DEF Lesser
  <2> QED BY <1>1, <1>2, <2>1, <2>2, <2>3, BitsEmpty, OnesEmpty
<1>5. CASE limit # 0
  <2>0. limit > 0
    BY <1>5
  <2>1. /\ SelectedUpTo(sel, 0) = 0 /\ SelectedUpTo(sel, m) = o
        /\ \A i \in 0 .. m : SelectedUpTo(sel, i) \in Nat
        /\ \A i \in 0 .. m : SelectedUpTo(sel, i) = Ones(Bits(SubSeq(sel, 1, i)))
        /\ \A i \in 1 .. m : SelectedUpTo(sel, i) = SelectedUpTo(sel, i - 1) + IF sel[i].skip THEN 0 ELSE sel[i].n
    BY <1>1, <1>2, <1>3, SelectedUpToIs
  <2> DEFINE S == {j \in DOMAIN sel : ~sel[j].skip /\ SelectedUpTo(sel, j) >= limit}
  <2>2. S \in SUBSET Nat /\ 0 \notin S
    OBVIOUS
  <2>3. PICK i : i = FirstOf(S)
    OBVIOUS
  <2>4. \/ i = 0 /\ S = {}
        \/ i \in S /\ \A j \in S : i <= j
    <3> HIDE DEF S
    <3> QED BY <2>2, <2>3, FirstOfIs
  <2>5. ASSUME NEW k \in 0 .. m, \A j \in 1 .. k : j \notin S PROVE SelectedUpTo(sel, k) < limit
    <3> DEFINE P == {n \in Nat : n <= k => SelectedUpTo(sel, n) < limit}
    <3>1. 0 \in P
      BY <2>0, <2>1
    <3>2. ASSUME NEW n \in P PROVE n + 1 \in P
      <4> SUFFICES ASSUME n + 1 <= k PROVE SelectedUpTo(sel, n + 1) < limit
        OBVIOUS
      <4>1. n \in Nat /\ SelectedUpTo(sel, n) < limit /\ n \in 0 .. m
        BY <3>2
      <4>2. PICK j \in 1 .. m : j = n + 1 /\ j - 1 = n /\ j \in 1 .. k /\ j \in 0 .. m
        BY <4>1
      <4>3. SelectedUpTo(sel, j) = SelectedUpTo(sel, n) + IF sel[j].skip THEN 0 ELSE sel[j].n
        BY <2>1, <4>2
      <4>4. CASE sel[j].skip
        BY <2>1, <4>1, <4>2, <4>3, <4>4
      <4>5. CASE ~sel[j].skip
        <5>1. ~(SelectedUpTo(sel, j) >= limit)
          BY <1>3, <2>5, <4>2, <4>5
        <5> QED BY <2>1, <4>2, <5>1
      <4> QED BY <4>4, <4>5
    <3>3. P = Nat
      <4> HIDE DEF P
      <4>1. P \in SUBSET Nat
        BY DEF P
      <4> QED BY <4>1, <3>1, <3>2, NumberInduction
    <3>4. k \in P /\ k <= k
      BY <3>3, SMTT(40)
    <3> QED BY <3>4
  <2>6. CASE i = 0 /\ S = {}
    <3>1. o < limit
      <4>1. m \in 0 .. m /\ \A j \in 1 .. m : j \notin S
        BY <2>6
      <4>2. SelectedUpTo(sel, m) < limit
        <5> HIDE DEF S
        <5> QED BY <2>5, <4>1
      <4> QED BY <2>1, <4>2
    <3>2. LimitRowSelection(sel, limit) = RowSelectionFrom(sel)
      BY <1>5, <2>3, <2>6 DEF LimitRowSelection
    <3>3. Lesser(limit, o) = o
      BY <3>1 DEF Lesser
    <3>4. SubSeq(bits, 1, Len(bits)) = bits /\ Len(bits) \in 0 .. Len(bits)
      BY SubSeqFull
    <3>5. RowSelectionFrom(sel) \in Seq(Run) /\ Bits(RowSelectionFrom(sel)) = bits
      BY <1>1, RowSelectionFromBits, SMTT(40)
    <3> QED BY <1>1, <1>2, <3>2, <3>3, <3>4, <3>5
  <2>7. CASE i \in S /\ \A j \in S : i <= j
    <3>1. i \in 1 .. m /\ ~sel[i].skip /\ SelectedUpTo(sel, i) >= limit
      BY <1>3, <2>7
    <3>2. PICK h \in 0 .. m : h = i - 1
      BY <3>1
    <3>3. SelectedUpTo(sel, h) < limit /\ SelectedUpTo(sel, h) \in Nat
      <4>1. \A j \in 1 .. h : j \notin S
        <5>1. ASSUME NEW j \in 1 .. h, j \in S PROVE FALSE
          <6>1. i <= j
            BY <2>7, <5>1
          <6> QED BY <3>1, <3>2, <6>1
        <5> QED BY <5>1
      <4> HIDE DEF S
      <4> QED BY <2>1, <2>5, <4>1
    <3>4. PICK r \in Run : r = sel[i]
      BY <1>3, <3>1
    <3>5. r.n \in Nat /\ SelectedUpTo(sel, i) = SelectedUpTo(sel, h) + r.n
      BY <2>1, <3>1, <3>2, <3>4, RunParts
    <3>6. PICK k \in 0 .. r.n : k = limit - SelectedUpTo(sel, h)
      BY <3>1, <3>3, <3>5
    <3>7. PICK a \in Seq(Run) : a = SubSeq(sel, 1, h)
      BY SplitSeq, <1>3
    <3>8. PICK c \in Run : c = Select(k) /\ c.n = k /\ c.skip = FALSE
      <4>1. Select(k) \in Run /\ Select(k).n = k /\ Select(k).skip = FALSE
        BY <3>5 DEF Select, Run
      <4> QED BY <4>1
    <3>9. LimitRowSelection(sel, limit) = RowSelectionFrom(Append(a, c))
      <4>1. i # 0
        BY <3>1
      <4> QED BY <1>5, <2>3, <3>2, <3>6, <3>7, <3>8, <4>1 DEF LimitRowSelection
    <3>10. PICK p \in Seq(Run) : p = Append(a, c)
      <4>1. Append(a, c) \in Seq(Run)
        BY AppendProperties
      <4> QED BY <4>1
    <3>11. RowSelectionFrom(p) \in Seq(Run) /\ Bits(RowSelectionFrom(p)) = Bits(p)
      BY RowSelectionFromBits
    <3>12. Bits(p) = Bits(a) \o Same(TRUE, k)
      <4>1. Bits(Append(a, c)) = Bits(a) \o Same(~c.skip, c.n)
        BY BitsAppend
      <4>2. (~c.skip) = TRUE
        BY <3>8
      <4> QED BY <3>8, <3>10, <4>1, <4>2
    <3>13. PICK A \in Seq(BOOLEAN) : A = Bits(a)
      BY BitsType
    <3>14. k \in Nat /\ r.n - k \in Nat
      BY <3>5
    <3>15. PICK K \in Seq(BOOLEAN) : K = Same(TRUE, k) /\ Ones(K) = k
      BY <3>14, SameType, OnesSame
    <3>16. PICK Q \in Seq(BOOLEAN) : Q = Same(TRUE, r.n - k) /\ Ones(Q) = r.n - k
      BY <3>14, SameType, OnesSame
    <3>17. PICK z \in Seq(Run) : z = SubSeq(sel, i + 1, m)
      BY <1>3, <3>1, BitsAround
    <3>18. PICK Z \in Seq(BOOLEAN) : Z = Bits(z)
      BY BitsType
    <3>19. bits = (A \o K) \o (Q \o Z)
      <4>1. bits = Bits(SubSeq(sel, 1, i)) \o Z
        BY <1>1, <1>3, <3>1, <3>17, <3>18, BitsAround
      <4>2. Bits(SubSeq(sel, 1, i)) = A \o Same(~r.skip, r.n)
        BY <1>3, <3>1, <3>2, <3>4, <3>7, <3>13, BitsUpTo
      <4>3. Same(~r.skip, r.n) = Same(~r.skip, k) \o Same(~r.skip, r.n - k)
        BY CutRun
      <4>4. (~r.skip) = TRUE
        BY <3>1, <3>4
      <4>5. Same(~r.skip, r.n) = K \o Q
        BY <3>15, <3>16, <4>3, <4>4
      <4>6. Typed(BOOLEAN, A) /\ Typed(BOOLEAN, K) /\ Typed(BOOLEAN, Q) /\ Typed(BOOLEAN, Z)
        BY DEF Typed
      <4>7. Cat(Cat(A, Cat(K, Q)), Z) = Cat(Cat(A, K), Cat(Q, Z))
        BY <4>6, CatFour
      <4> QED BY <4>1, <4>2, <4>5, <4>7 DEF Cat
    <3>20. PICK AK \in Seq(BOOLEAN) : AK = A \o K
      BY ConcatProperties
    <3>21. PICK QZ \in Seq(BOOLEAN) : QZ = Q \o Z
      BY ConcatProperties
    <3>22. Ones(AK) = limit
      <4>1. Ones(A \o K) = Ones(A) + Ones(K)
        BY OnesConcat
      <4>2. Ones(A) = SelectedUpTo(sel, h)
        BY <2>1, <3>7, <3>13
      <4>3. Ones(AK) = SelectedUpTo(sel, h) + k
        BY <3>15, <3>20, <4>1, <4>2
      <4>4. PICK g \in Nat : g = SelectedUpTo(sel, h)
        BY <3>3
      <4>5. g + k = limit
        BY <3>6, <4>4
      <4> QED BY <4>3, <4>4, <4>5
    <3>23. limit <= o
      <4>1. Ones(AK \o QZ) = Ones(AK) + Ones(QZ) /\ Ones(QZ) \in Nat
        BY OnesConcat, OnesType
      <4> QED BY <1>2, <3>19, <3>20, <3>21, <3>22, <4>1, SMTT(40)
    <3>24. Len(AK \o QZ) = Len(AK) + Len(QZ) /\ SubSeq(AK \o QZ, 1, Len(AK)) = AK
      BY ConcatParts
    <3>25. Len(AK) \in 0 .. Len(bits) /\ SubSeq(bits, 1, Len(AK)) = AK
      BY <3>19, <3>20, <3>21, <3>24, SMTT(40)
    <3>26. Lesser(limit, o) = limit
      BY <3>23 DEF Lesser
    <3>27. Bits(LimitRowSelection(sel, limit)) = AK
      BY <3>9, <3>10, <3>11, <3>12, <3>13, <3>15, <3>20
    <3> QED BY <1>1, <1>2, <3>9, <3>10, <3>11, <3>22, <3>25, <3>26, <3>27
  <2> QED BY <2>4, <2>6, <2>7
<1> QED BY <1>4, <1>5

\* Multiples of a size
LEMMA MulStep == \A a, s \in Nat : a * s \in Nat /\ (a + 1) * s = a * s + s /\ 0 * s = 0 /\ 1 * s = s
  OBVIOUS

\* A greater number has a multiple that is greater by a size.
LEMMA MulMono == ASSUME NEW a \in Nat, NEW b \in Nat, NEW s \in Nat, a < b PROVE a * s + s <= b * s
<1>1. PICK d \in Nat : b = a + 1 + d
  <2>1. b - a - 1 \in Nat /\ b = a + 1 + (b - a - 1)
    OBVIOUS
  <2> QED BY <2>1
<1>2. (a + 1 + d) * s = a * s + s + d * s /\ d * s \in Nat /\ a * s \in Nat
  OBVIOUS
<1> QED BY <1>1, <1>2

\* A factor can be cancelled.
LEMMA MulCancel == ASSUME NEW a \in Nat, NEW b \in Nat, NEW s \in Nat, a * s < b * s PROVE a < b
<1> SUFFICES ASSUME ~(a < b) PROVE FALSE
  OBVIOUS
<1>1. a = b \/ b < a
  OBVIOUS
<1>2. a * s \in Nat /\ b * s \in Nat
  OBVIOUS
<1>3. CASE b < a
  BY <1>2, <1>3, MulMono
<1>4. CASE a = b
  BY <1>2, <1>4
<1> QED BY <1>1, <1>3, <1>4

\* The quotient is the number of whole sizes.
LEMMA DivIs == ASSUME NEW a \in Nat, NEW s \in Nat \ {0}
   PROVE a \div s \in Nat /\ (a \div s) * s <= a /\ a < (a \div s) * s + s
  OBVIOUS

\* It is the only such number.
LEMMA DivUnique == ASSUME NEW a \in Nat, NEW s \in Nat \ {0}, NEW q \in Nat, q * s <= a, a < q * s + s
   PROVE a \div s = q
<1>1. PICK p \in Nat : p = a \div s /\ p * s <= a /\ a < p * s + s
  BY DivIs
<1>2. p * s \in Nat /\ q * s \in Nat
  OBVIOUS
<1>3. CASE p < q
  <2>1. p * s + s <= q * s
     BY <1>3, MulMono
  <2> QED BY <1>1, <1>2, <2>1
<1>4. CASE q < p
  <2>1. q * s + s <= p * s
     BY <1>4, MulMono
  <2> QED BY <1>1, <1>2, <2>1
<1> QED BY <1>1, <1>3, <1>4

\* A number that fits its field is not truncated.
LEMMA ModSmall == \A a \in Nat : \A f \in Nat \ {0} : a < f => a % f = a
  OBVIOUS

-----------------------------------------------------------------------------
(* The batches that a selection touches                                    *)

\* sorted; sorted without repetition
Rising(s) == \A j, k \in DOMAIN s : j < k => s[j] <= s[k]
Increasing(s) == \A j, k \in DOMAIN s : j < k => s[j] < s[k]

\* the bits of Changes
Fresh(s) == [i \in DOMAIN s |-> i = 1 \/ s[i] # s[i - 1]]

\* Changes leaves each value of a rising sequence once.
LEMMA ChangesOf ==
  ASSUME NEW s \in Seq(Nat), Rising(s)
  PROVE  /\ Changes(s) \in Seq(Nat) /\ Increasing(Changes(s))
         /\ \A k \in DOMAIN Changes(s) : \E i \in DOMAIN s : Changes(s)[k] = s[i]
         /\ \A i \in DOMAIN s : \E k \in DOMAIN Changes(s) : Changes(s)[k] = s[i]
<1>1. /\ Fresh(s) \in Seq(BOOLEAN) /\ Len(Fresh(s)) = Len(s) /\ DOMAIN Fresh(s) = DOMAIN s
      /\ \A i \in DOMAIN s : Fresh(s)[i] = (i = 1 \/ s[i] # s[i - 1])
  <2>1. DOMAIN s = 1 .. Len(s) /\ Len(s) \in Nat
    OBVIOUS
  <2>2. DOMAIN Fresh(s) = 1 .. Len(s) /\ \A i \in 1 .. Len(s) : Fresh(s)[i] \in BOOLEAN
    BY <2>1 DEF Fresh
  <2>3. \A i \in 1 .. Len(s) : Fresh(s)[i] = (i = 1 \/ s[i] # s[i - 1])
    BY <2>1 DEF Fresh
  <2>4. Fresh(s) = [i \in 1 .. Len(s) |-> Fresh(s)[i]]
    BY <2>1 DEF Fresh
  <2>5. Fresh(s) \in [1 .. Len(s) -> BOOLEAN]
    BY <2>2, <2>4
  <2> QED BY <2>1, <2>2, <2>3, <2>5
<1>2. PICK bits \in Seq(BOOLEAN) : bits = Fresh(s)
  BY <1>1
<1>3. Changes(s) = FilterBy(s, bits)
  BY <1>2 DEF Changes, Fresh
<1>4. Len(bits) <= Len(s) /\ Len(bits) = Len(s) /\ DOMAIN bits = DOMAIN s
  BY <1>1, <1>2
<1>5. FilterBy(s, bits) \in Seq(Nat) /\ Len(FilterBy(s, bits)) = Ones(bits) /\ Ones(bits) \in Nat
  BY <1>4, FilterType, FilterLen, OnesType
<1>6. PICK w \in Seq(Nat) : w = FilterBy(s, bits)
  BY <1>5
<1>7. DOMAIN w = 1 .. Ones(bits)
  BY <1>5, <1>6
<1>8. \E pos : Places(pos, s, bits)
  BY <1>4, FilterPlaces
<1>9. PICK pos : Places(pos, s, bits)
  BY <1>8
<1>10. /\ pos \in [DOMAIN w -> DOMAIN s]
       /\ \A k \in DOMAIN w : bits[pos[k]] /\ w[k] = s[pos[k]]
       /\ \A j, k \in DOMAIN w : j < k => pos[j] < pos[k]
  BY <1>4, <1>6, <1>7, <1>9 DEF Places
<1>11. ASSUME NEW j \in DOMAIN w, NEW k \in DOMAIN w, j < k PROVE w[j] < w[k]
  <2>1. pos[j] \in DOMAIN s /\ pos[k] \in DOMAIN s /\ pos[j] < pos[k] /\ w[j] = s[pos[j]] /\ w[k] = s[pos[k]]
    BY <1>10, <1>11
  <2>2. pos[k] - 1 \in DOMAIN s /\ pos[k] # 1 /\ pos[k] - 1 < pos[k] /\ (pos[j] = pos[k] - 1 \/ pos[j] < pos[k] - 1)
    BY <2>1, SMTT(40)
  <2>3. s[pos[k]] # s[pos[k] - 1]
    BY <1>1, <1>2, <1>10, <2>1, <2>2
  <2>4. s[pos[k] - 1] <= s[pos[k]]
    BY <2>1, <2>2 DEF Rising
  <2>5. s[pos[j]] <= s[pos[k] - 1]
    <3>1. CASE pos[j] = pos[k] - 1
      BY <2>1, <2>2, <3>1
    <3>2. CASE pos[j] < pos[k] - 1
      BY <2>1, <2>2, <3>2 DEF Rising
    <3> QED BY <2>2, <3>1, <3>2
  <2>6. \A i \in DOMAIN s : s[i] \in Nat
    OBVIOUS
  <2>7. PICK a \in Nat, b \in Nat, c \in Nat : a = s[pos[j]] /\ b = s[pos[k] - 1] /\ c = s[pos[k]]
    BY <2>1, <2>2, <2>6, Zenon
  <2>8. a <= b /\ b <= c /\ c # b
    BY <2>3, <2>4, <2>5, <2>7, Zenon
  <2>9. a < c
    BY <2>8
  <2> QED BY <2>1, <2>7, <2>9, Zenon
<1>12. Increasing(w)
  BY <1>11 DEF Increasing
<1>13. ASSUME NEW i \in DOMAIN s PROVE \E k \in DOMAIN w : w[k] = s[i]
  <2> DEFINE S == {m \in DOMAIN s : s[m] = s[i]}
  <2>1. S \in SUBSET Nat /\ S # {}
    OBVIOUS
  <2>2. PICK n \in S : \A m \in S : n <= m
    <3> HIDE DEF S
    <3> QED BY <2>1, LeastNumber
  <2>3. n \in DOMAIN s /\ s[n] = s[i] /\ n \in Nat
    BY <2>2
  <2>4. CASE n = 1
    <3>1. bits[n]
      BY <1>1, <1>2, <2>3, <2>4
    <3>2. n \in DOMAIN bits
      BY <1>4, <2>3
    <3>3. Ones(SubSeq(bits, 1, n)) \in 1 .. Ones(bits) /\ FilterBy(s, bits)[Ones(SubSeq(bits, 1, n))] = s[n]
      BY <1>4, <3>1, <3>2, FilterAt
    <3> QED BY <1>6, <1>7, <2>3, <3>3
  <2>5. CASE n # 1
    <3>0. n - 1 \in DOMAIN s /\ ~(n <= n - 1)
      BY <2>3, <2>5
    <3>1. s[n - 1] # s[n]
      BY <2>2, <2>3, <3>0
    <3>2. bits[n]
      BY <1>1, <1>2, <2>3, <3>1
    <3>3. n \in DOMAIN bits
      BY <1>4, <2>3
    <3>4. Ones(SubSeq(bits, 1, n)) \in 1 .. Ones(bits) /\ FilterBy(s, bits)[Ones(SubSeq(bits, 1, n))] = s[n]
      BY <1>4, <3>2, <3>3, FilterAt
    <3> QED BY <1>6, <1>7, <2>3, <3>4
  <2> QED BY <2>4, <2>5
<1>14. \A k \in DOMAIN w : \E i \in DOMAIN s : w[k] = s[i]
  BY <1>10
<1> QED BY <1>3, <1>6, <1>12, <1>13, <1>14

\* The first pieces of a joined sequence, one piece at a time
LEMMA FlattenUpTo ==
  ASSUME NEW X, NEW ss \in Seq(Seq(X)), NEW i \in 1 .. Len(ss)
  PROVE  FlattenSeq(SubSeq(ss, 1, i)) = FlattenSeq(SubSeq(ss, 1, i - 1)) \o ss[i]
<1>1. i \in 0 .. Len(ss) /\ i - 1 \in 0 .. Len(ss) /\ ss[i] \in Seq(X) /\ 1 \in 1 .. Len(ss)
  OBVIOUS
<1>2. SubSeq(ss, 1, i - 1) \in Seq(Seq(X))
  BY <1>1, SplitSeq
<1>3. PICK x \in Seq(X) : x = ss[i]
  BY <1>1
<1>4. PICK a \in Seq(Seq(X)) : a = SubSeq(ss, 1, i - 1)
  BY <1>2
<1>5. SubSeq(ss, 1, i) = a \o <<x>>
  BY <1>1, <1>3, <1>4, SubSeqRecursiveSecond
<1>6. Append(a, x) = a \o <<x>>
  BY AppendIsConcat
<1>7. FlattenSeq(Append(a, x)) = FlattenSeq(a) \o x
  BY FlattenAppend
<1> QED BY <1>3, <1>4, <1>5, <1>6, <1>7

\* the batches from a to b
Span(a, b) == [k \in 1..(b + 1 - a) |-> (a + k - 1) % Field]

\* push_batches pushes the batches from the first to the last one of a run.
LEMMA SpanIs ==
  ASSUME NEW a \in Nat, NEW b \in Nat, a <= b, b < Field
  PROVE  /\ Span(a, b) \in Seq(Nat) /\ DOMAIN Span(a, b) = 1 .. b + 1 - a
         /\ \A k \in 1 .. b + 1 - a : Span(a, b)[k] = a + k - 1
<1>1. Field \in Nat \ {0}
  BY StreamAssumption
<1>2. PICK n \in Nat : n = b + 1 - a
  OBVIOUS
<1>3. ASSUME NEW k \in 1 .. n PROVE (a + k - 1) % Field = a + k - 1 /\ a + k - 1 \in Nat
  <2>1. PICK m \in Nat : m = a + k - 1 /\ m < Field
    BY <1>1, <1>2
  <2>2. m % Field = m
    BY <1>1, <2>1, ModSmall
  <2> QED BY <2>1, <2>2
<1>4. Span(a, b) = [k \in 1..n |-> (a + k - 1) % Field]
  BY <1>2 DEF Span
<1>5. Span(a, b) \in [1 .. n -> Nat] /\ \A k \in 1 .. n : Span(a, b)[k] = a + k - 1
  BY <1>3, <1>4
<1>6. Span(a, b) \in Seq(Nat)
  BY <1>5
<1> QED BY <1>2, <1>5, <1>6

\* the batches of run i, clipped to the row group
Touched(sel, size, rows, i) ==
  LET end == Lesser(RowsUpTo(sel, i), rows) IN
  IF sel[i].skip \/ RowsUpTo(sel, i - 1) >= end THEN <<>>
  ELSE Span(RowsUpTo(sel, i - 1) \div size, (end - 1) \div size)

\* batch b has row r, counted from 1
HasRow(b, size, r) == b * size < r /\ r <= b * size + size

\* A run touches the batches of its rows, from its first to its last.
LEMMA TouchedIs ==
  ASSUME NEW sel \in Seq(Run), NEW size \in Nat \ {0}, NEW rows \in Nat, rows <= Field * size,
         Len(Bits(sel)) <= rows, NEW i \in 1 .. Len(sel),
         NEW a \in Nat, a = RowsUpTo(sel, i - 1), NEW e \in Nat, e = RowsUpTo(sel, i), e <= rows
  PROVE  /\ Touched(sel, size, rows, i) \in Seq(Nat) /\ Rising(Touched(sel, size, rows, i))
         /\ \A k \in DOMAIN Touched(sel, size, rows, i) :
              /\ Touched(sel, size, rows, i)[k] * size < e
              /\ a < Touched(sel, size, rows, i)[k] * size + size
         /\ \A r \in a + 1 .. e : ~sel[i].skip =>
              \E k \in DOMAIN Touched(sel, size, rows, i) : HasRow(Touched(sel, size, rows, i)[k], size, r)
<1>1. Field \in Nat \ {0}
  BY StreamAssumption
<1>2. sel[i] \in Run
  OBVIOUS
<1>3. sel[i].n \in Nat /\ sel[i].skip \in BOOLEAN
  BY <1>2, RunParts
<1>4. e = a + sel[i].n
  BY RowsUpToIs
<1>5. Lesser(e, rows) = e
  BY LesserIs
<1>6. CASE sel[i].skip \/ a >= e
  <2>1. Touched(sel, size, rows, i) = <<>>
    BY <1>5, <1>6 DEF Touched
  <2>2. a + 1 .. e = {} \/ sel[i].skip
    BY <1>6
  <2> QED BY <2>1, <2>2 DEF Rising
<1>7. CASE ~sel[i].skip /\ a < e
  <2>1. PICK f \in Nat : f = a \div size /\ f * size <= a /\ a < f * size + size
    BY DivIs
  <2>2. e - 1 \in Nat
    BY <1>7
  <2>3. PICK l \in Nat : l = (e - 1) \div size /\ l * size <= e - 1 /\ e - 1 < l * size + size
    BY <2>2, DivIs
  <2>4. Touched(sel, size, rows, i) = Span(f, l)
    <3>1. ~(sel[i].skip \/ a >= e)
      BY <1>7
    <3>2. Touched(sel, size, rows, i) = Span(a \div size, (e - 1) \div size)
      BY <1>5, <3>1, Zenon DEF Touched
    <3> QED BY <2>1, <2>3, <3>2, Zenon
  <2>20. PICK fs \in Nat, ls \in Nat : fs = f * size /\ ls = l * size
    BY MulStep
  <2>21. fs <= a /\ a < fs + size /\ ls <= e - 1 /\ e - 1 < ls + size
    BY <2>1, <2>3, <2>20, Zenon
  <2>5. /\ f * size \in Nat /\ l * size \in Nat /\ Field * size \in Nat
        /\ (f + 1) * size = f * size + size /\ (l + 1) * size = l * size + size
    BY <1>1, MulStep
  <2>6. l < Field
    <3>1. l * size < Field * size
      BY <2>3, <2>5, SMTT(40)
    <3> QED BY <1>1, <3>1, MulCancel
  <2>7. f <= l
    <3>0. fs < ls + size
      BY <1>7, <2>21
    <3>1. f * size < (l + 1) * size
      BY <2>5, <2>20, <3>0, Zenon
    <3>2. f < l + 1
      BY <3>1, MulCancel
    <3> QED BY <3>2
  <2>8. PICK p \in Seq(Nat) : p = Span(f, l)
    BY <2>6, <2>7, SpanIs
  <2>9. DOMAIN p = 1 .. l + 1 - f /\ \A k \in 1 .. l + 1 - f : p[k] = f + k - 1
    BY <2>6, <2>7, <2>8, SpanIs
  <2>10. Rising(p)
    BY <2>9 DEF Rising
  <2>11. ASSUME NEW k \in DOMAIN p PROVE p[k] * size < e /\ a < p[k] * size + size
    <3>1. PICK b \in Nat : b = p[k] /\ f <= b /\ b <= l
      BY <2>9
    <3>2. b * size \in Nat
      BY MulStep
    <3>20. PICK bs \in Nat : bs = b * size
      BY <3>2
    <3>3. b * size <= l * size
      <4>1. CASE b = l
        BY <2>5, <4>1
      <4>2. CASE b < l
        <5>1. b * size + size <= l * size
          BY <4>2, MulMono
        <5> QED BY <2>5, <3>2, <5>1
      <4> QED BY <3>1, <4>1, <4>2
    <3>4. f * size <= b * size
      <4>1. CASE b = f
        BY <2>5, <4>1
      <4>2. CASE f < b
        <5>1. f * size + size <= b * size
          BY <4>2, MulMono
        <5> QED BY <2>5, <3>2, <5>1
      <4> QED BY <3>1, <4>1, <4>2
    <3>40. bs <= ls /\ fs <= bs
      BY <2>20, <3>20, <3>3, <3>4, Zenon
    <3>41. bs < e /\ a < bs + size
      BY <2>21, <3>40, SMTT(40)
    <3>5. b * size < e /\ a < b * size + size
      BY <3>20, <3>41, Zenon
    <3> QED BY <3>1, <3>5
  <2>12. ASSUME NEW r \in a + 1 .. e PROVE \E k \in DOMAIN p : HasRow(p[k], size, r)
    <3>1. r - 1 \in Nat /\ r \in Nat
      OBVIOUS
    <3>2. PICK b \in Nat : b = (r - 1) \div size /\ b * size <= r - 1 /\ r - 1 < b * size + size
      BY <3>1, DivIs
    <3>3. b * size \in Nat /\ (b + 1) * size = b * size + size
      BY MulStep
    <3>20. PICK bs \in Nat : bs = b * size
      BY <3>3
    <3>21. bs <= r - 1 /\ r - 1 < bs + size
      BY <3>2, <3>20, Zenon
    <3>22. fs < bs + size /\ bs < ls + size
      BY <2>21, <3>21, SMTT(40)
    <3>4. f <= b
      <4>1. f * size < (b + 1) * size
        BY <2>20, <3>20, <3>22, <3>3, Zenon
      <4>2. f < b + 1
        BY <4>1, MulCancel
      <4> QED BY <4>2
    <3>5. b <= l
      <4>1. b * size < (l + 1) * size
        BY <2>5, <2>20, <3>20, <3>22, Zenon
      <4>2. b < l + 1
        BY <4>1, MulCancel
      <4> QED BY <4>2
    <3>6. b + 1 - f \in DOMAIN p /\ p[b + 1 - f] = b
      BY <2>9, <3>4, <3>5
    <3>7. HasRow(b, size, r)
      <4>1. bs < r /\ r <= bs + size
        BY <3>1, <3>21
      <4> QED BY <3>20, <4>1, Zenon DEF HasRow
    <3> QED BY <3>6, <3>7
  <2> QED BY <2>4, <2>8, <2>10, <2>11, <2>12
<1> QED BY <1>3, <1>6, <1>7

\* the batches that each run touches
Pieces(sel, size, rows) == [i \in DOMAIN sel |-> Touched(sel, size, rows, i)]

\* the batches touched so far, after the first n runs, are those of the selected rows so far
Collected(sel, size, n, touched) ==
  /\ touched \in Seq(Nat) /\ Rising(touched)
  /\ \A k \in DOMAIN touched : touched[k] * size < RowsUpTo(sel, n)
  /\ \A r \in SetBits(Bits(SubSeq(sel, 1, n))) : \E k \in DOMAIN touched : HasRow(touched[k], size, r)

\* One more run, and the batches it touches
LEMMA CollectStep ==
  ASSUME NEW sel \in Seq(Run), NEW size \in Nat \ {0}, NEW rows \in Nat, rows <= Field * size,
         Len(Bits(sel)) <= rows, NEW n \in Nat, NEW i \in 1 .. Len(sel), n = i - 1,
         RowsUpTo(sel, i) <= rows,
         NEW t, Collected(sel, size, n, t)
  PROVE  Collected(sel, size, i, t \o Touched(sel, size, rows, i))
<1>1. PICK a \in Nat : a = RowsUpTo(sel, n)
  BY RowsUpToIs
<1>2. PICK e \in Nat : e = RowsUpTo(sel, i) /\ e <= rows
  BY RowsUpToIs
<1>3. e = a + sel[i].n
  BY <1>1, <1>2, RowsUpToIs
<1>4. sel[i] \in Run
  OBVIOUS
<1>5. sel[i].n \in Nat /\ sel[i].skip \in BOOLEAN /\ (~sel[i].skip) \in BOOLEAN
  BY <1>4, RunParts
<1>6. PICK p : p = Touched(sel, size, rows, i)
  OBVIOUS
<1>7. /\ p \in Seq(Nat) /\ Rising(p)
      /\ \A k \in DOMAIN p : p[k] * size < e /\ a < p[k] * size + size
      /\ \A r \in a + 1 .. e : ~sel[i].skip => \E k \in DOMAIN p : HasRow(p[k], size, r)
  BY <1>1, <1>2, <1>6, TouchedIs
<1>8. /\ t \in Seq(Nat) /\ Rising(t)
      /\ \A k \in DOMAIN t : t[k] * size < a
      /\ \A r \in SetBits(Bits(SubSeq(sel, 1, n))) : \E k \in DOMAIN t : HasRow(t[k], size, r)
  BY <1>1 DEF Collected
<1>9. PICK u \in Seq(Nat) : u = t \o p
  BY <1>7, <1>8, ConcatProperties
<1>10. PICK lt \in Nat, lp \in Nat : lt = Len(t) /\ lp = Len(p) /\ DOMAIN t = 1 .. lt /\ DOMAIN p = 1 .. lp
  BY <1>7, <1>8
<1>11. /\ DOMAIN u = 1 .. lt + lp
       /\ \A k \in 1 .. lt : u[k] = t[k]
       /\ \A k \in 1 .. lp : u[lt + k] = p[k]
  BY <1>7, <1>8, <1>9, <1>10
<1>12. ASSUME NEW k \in DOMAIN u PROVE k \in 1 .. lt \/ \E m \in 1 .. lp : k = lt + m
  <2>1. CASE k <= lt
    BY <1>11, <2>1
  <2>2. CASE k > lt
    <3>1. k - lt \in 1 .. lp /\ k = lt + (k - lt)
      BY <1>10, <1>11, <2>2, SMTT(40)
    <3> QED BY <3>1
  <2> QED BY <1>11, <2>1, <2>2
<1>13. ASSUME NEW j \in 1 .. lt, NEW m \in 1 .. lp PROVE t[j] <= p[m]
  <2>0. t[j] \in Nat /\ p[m] \in Nat
    BY <1>7, <1>8, <1>10, SMTT(40)
  <2>01. t[j] * size < a /\ a < p[m] * size + size
    BY <1>7, <1>8, <1>10, Zenon
  <2>1. PICK x \in Nat, y \in Nat : x = t[j] /\ y = p[m] /\ x * size < a /\ a < y * size + size
    BY <2>0, <2>01, Zenon
  <2>2. x * size \in Nat /\ y * size \in Nat /\ (y + 1) * size = y * size + size
    BY MulStep
  <2>3. PICK xs \in Nat, ys \in Nat : xs = x * size /\ ys = y * size
    BY <2>2
  <2>4. xs < a /\ a < ys + size
    BY <2>1, <2>3, Zenon
  <2>5. xs < ys + size
    BY <2>4
  <2>6. x * size < (y + 1) * size
    BY <2>2, <2>3, <2>5, Zenon
  <2>7. x < y + 1
    BY <2>6, MulCancel
  <2>8. x <= y
    BY <2>7
  <2> QED BY <2>1, <2>8
<1>14. Rising(u)
  <2> SUFFICES ASSUME NEW j \in DOMAIN u, NEW k \in DOMAIN u, j < k PROVE u[j] <= u[k]
    BY DEF Rising
  <2>1. CASE j \in 1 .. lt /\ k \in 1 .. lt
    <3>1. t[j] <= t[k]
      BY <1>8, <1>10, <2>1 DEF Rising
    <3> QED BY <1>11, <2>1, <3>1
  <2>2. ASSUME j \in 1 .. lt, NEW m \in 1 .. lp, k = lt + m PROVE u[j] <= u[k]
    BY <1>11, <1>13, <2>2
  <2>3. ASSUME NEW l \in 1 .. lp, j = lt + l, NEW m \in 1 .. lp, k = lt + m PROVE u[j] <= u[k]
    <3>1. l < m
      BY <2>3
    <3>2. p[l] <= p[m]
      BY <1>7, <1>10, <3>1 DEF Rising
    <3> QED BY <1>11, <2>3, <3>2
  <2>4. ASSUME NEW l \in 1 .. lp, j = lt + l, k \in 1 .. lt PROVE FALSE
    BY <2>4
  <2> QED BY <1>12, <2>1, <2>2, <2>3, <2>4
<1>15. ASSUME NEW k \in DOMAIN u PROVE u[k] * size < e
  <2>1. CASE k \in 1 .. lt
    <3>1. PICK x \in Nat : x = t[k] /\ x * size < a
      BY <1>8, <1>10, <2>1, SMTT(40)
    <3>2. PICK xs \in Nat : xs = x * size
      BY MulStep
    <3>3. xs < a
      BY <3>1, <3>2, Zenon
    <3>4. xs < e
      BY <1>3, <1>5, <3>3, SMTT(40)
    <3>5. u[k] = x
      BY <1>11, <2>1, <3>1
    <3> QED BY <3>2, <3>4, <3>5, Zenon
  <2>2. ASSUME NEW m \in 1 .. lp, k = lt + m PROVE u[k] * size < e
    <3>1. u[k] = p[m] /\ p[m] * size < e
      BY <1>7, <1>10, <1>11, <2>2
    <3> QED BY <3>1, Zenon
  <2> QED BY <1>12, <2>1, <2>2
<1>16. ASSUME NEW r \in SetBits(Bits(SubSeq(sel, 1, i))) PROVE \E k \in DOMAIN u : HasRow(u[k], size, r)
  <2>1. /\ SubSeq(sel, 1, i) \in Seq(Run) /\ SubSeq(sel, 1, i - 1) \in Seq(Run)
        /\ Bits(SubSeq(sel, 1, i)) = Bits(SubSeq(sel, 1, i - 1)) \o Same(~sel[i].skip, sel[i].n)
    BY BitsUpTo
  <2>2. SubSeq(sel, 1, n) \in Seq(Run)
    BY <2>1
  <2>3. PICK old \in Seq(BOOLEAN) : old = Bits(SubSeq(sel, 1, n))
    BY <2>2, BitsType
  <2>4. PICK new \in Seq(BOOLEAN) : new = Same(~sel[i].skip, sel[i].n)
    BY <1>5, SameType
  <2>5. Len(new) = sel[i].n /\ \A k \in 1 .. sel[i].n : new[k] = ~sel[i].skip
    BY <1>5, <2>4, SameType
  <2>6. Len(old) = a
    BY <1>1, <2>3 DEF RowsUpTo, Bits
  <2>7. Bits(SubSeq(sel, 1, i)) = old \o new
    BY <2>1, <2>3, <2>4
  <2>8. r \in DOMAIN (old \o new) /\ (old \o new)[r]
    BY <2>7 DEF SetBits
  <2>9. r \in 1 .. e
    BY <1>3, <1>5, <2>5, <2>6, <2>8, SMTT(40)
  <2>10. CASE r <= a
    <3>1. r \in DOMAIN old /\ old[r]
      BY <2>6, <2>8, <2>9, <2>10
    <3>2. r \in SetBits(Bits(SubSeq(sel, 1, n)))
      BY <2>3, <3>1 DEF SetBits
    <3>3. PICK k \in DOMAIN t : HasRow(t[k], size, r)
      BY <1>8, <3>2
    <3>4. k \in DOMAIN u /\ u[k] = t[k]
      BY <1>10, <1>11
    <3> QED BY <3>3, <3>4
  <2>11. CASE r > a
    <3>1. r \in a + 1 .. e /\ r - a \in 1 .. sel[i].n
      BY <1>3, <1>5, <2>9, <2>11, SMTT(40)
    <3>2. (old \o new)[r] = new[r - a]
      BY <1>5, <2>5, <2>6, <3>1, SMTT(40)
    <3>3. ~sel[i].skip
      BY <2>5, <2>8, <3>1, <3>2
    <3>4. PICK m \in DOMAIN p : HasRow(p[m], size, r)
      BY <1>7, <3>1, <3>3
    <3>5. lt + m \in DOMAIN u /\ u[lt + m] = p[m]
      BY <1>10, <1>11, SMTT(40)
    <3> QED BY <3>4, <3>5
  <2> QED BY <2>9, <2>10, <2>11
<1> QED BY <1>2, <1>6, <1>9, <1>14, <1>15, <1>16 DEF Collected

\* The batches of a selection are in order, each once, within the row group, and
\* every selected row is in one of them.
LEMMA CollectIs ==
  ASSUME NEW sel \in Seq(Run), NEW size \in Nat \ {0}, NEW rows \in Nat, rows <= Field * size,
         Len(Bits(sel)) <= rows, NEW w, w = CollectSelectionBatches(sel, size, rows)
  PROVE  /\ w \in Seq(Nat) /\ Increasing(w)
         /\ \A k \in DOMAIN w : w[k] * size < rows
         /\ \A r \in SetBits(Bits(sel)) : \E k \in DOMAIN w : HasRow(w[k], size, r)
<1>1. PICK pieces : pieces = Pieces(sel, size, rows)
  OBVIOUS
<1>2. w = Changes(FlattenSeq(pieces))
  BY <1>1 DEF CollectSelectionBatches, Pieces, Touched, Span
<1>3. DOMAIN sel = 1 .. Len(sel) /\ Len(sel) \in Nat
  OBVIOUS
<1>4. RowsUpTo(sel, 0) = 0 /\ RowsUpTo(sel, Len(sel)) <= rows
  BY RowsUpToIs
<1>5. ASSUME NEW i \in 0 .. Len(sel) PROVE RowsUpTo(sel, i) \in Nat /\ RowsUpTo(sel, i) <= rows
  <2>1. CASE i = Len(sel)
    BY <1>4, <2>1, RowsUpToIs
  <2>2. CASE i # Len(sel)
    <3>2. CASE i = 0
      BY <1>4, <3>2
    <3>3. CASE i # 0
      <4>1. i \in 1 .. Len(sel)
        BY <3>3
      <4>2. /\ SubSeq(sel, i + 1, Len(sel)) \in Seq(Run) /\ SubSeq(sel, 1, i) \in Seq(Run)
            /\ Bits(sel) = Bits(SubSeq(sel, 1, i)) \o Bits(SubSeq(sel, i + 1, Len(sel)))
        BY <4>1, BitsAround, BitsUpTo
      <4>3. PICK x \in Seq(BOOLEAN), y \in Seq(BOOLEAN) : x = Bits(SubSeq(sel, 1, i)) /\ y = Bits(SubSeq(sel, i + 1, Len(sel)))
        BY <4>2, BitsType
      <4>4. Len(x \o y) = Len(x) + Len(y)
        OBVIOUS
      <4>5. Len(x) <= rows
        BY <4>2, <4>3, <4>4
      <4> QED BY <4>3, <4>5 DEF RowsUpTo, Bits
    <3> QED BY <3>2, <3>3
  <2> QED BY <2>1, <2>2
<1>6. pieces \in Seq(Seq(Nat)) /\ Len(pieces) = Len(sel)
  <2>1. ASSUME NEW i \in 1 .. Len(sel) PROVE Touched(sel, size, rows, i) \in Seq(Nat)
    <3>1. i - 1 \in 0 .. Len(sel) /\ i \in 0 .. Len(sel)
      BY <1>3
    <3>2. PICK a \in Nat, e \in Nat : a = RowsUpTo(sel, i - 1) /\ e = RowsUpTo(sel, i) /\ e <= rows
      BY <1>5, <3>1
    <3> QED BY <3>2, TouchedIs
  <2>2. pieces \in [1 .. Len(sel) -> Seq(Nat)]
    BY <1>1, <1>3, <2>1 DEF Pieces
  <2> QED BY <1>3, <2>2
<1>7. \A i \in 1 .. Len(sel) : pieces[i] = Touched(sel, size, rows, i)
  BY <1>1, <1>3 DEF Pieces
<1> DEFINE Q == {n \in Nat : n <= Len(sel) => Collected(sel, size, n, FlattenSeq(SubSeq(pieces, 1, n)))}
<1>8. 0 \in Q
  <2>1. SubSeq(pieces, 1, 0) = <<>> /\ SubSeq(sel, 1, 0) = <<>>
    BY SubSeqEmpty
  <2>2. FlattenSeq(SubSeq(pieces, 1, 0)) = <<>>
    BY <2>1, FlattenEmpty
  <2>3. Bits(SubSeq(sel, 1, 0)) = <<>>
    BY <2>1, BitsEmpty
  <2>4. SetBits(<<>>) = {}
    BY DEF SetBits
  <2>5. <<>> \in Seq(Nat) /\ Rising(<<>>) /\ DOMAIN <<>> = {}
    BY DEF Rising
  <2>6. Collected(sel, size, 0, <<>>)
    BY <2>3, <2>4, <2>5 DEF Collected
  <2> QED BY <2>2, <2>6
<1>9. ASSUME NEW n \in Q PROVE n + 1 \in Q
  <2> SUFFICES ASSUME n + 1 <= Len(sel) PROVE Collected(sel, size, n + 1, FlattenSeq(SubSeq(pieces, 1, n + 1)))
    OBVIOUS
  <2>1. n \in Nat /\ Collected(sel, size, n, FlattenSeq(SubSeq(pieces, 1, n)))
    BY <1>3, <1>9
  <2>2. PICK i \in 1 .. Len(sel) : i = n + 1 /\ n = i - 1 /\ i \in 0 .. Len(sel)
    BY <1>3, <2>1
  <2>3. PICK t : t = FlattenSeq(SubSeq(pieces, 1, n))
    OBVIOUS
  <2>4. RowsUpTo(sel, i) <= rows
    BY <1>5, <2>2
  <2>5. Collected(sel, size, i, t \o Touched(sel, size, rows, i))
    BY <2>1, <2>2, <2>3, <2>4, CollectStep
  <2>6. i \in 1 .. Len(pieces)
    BY <1>6
  <2>7. FlattenSeq(SubSeq(pieces, 1, i)) = FlattenSeq(SubSeq(pieces, 1, i - 1)) \o pieces[i]
    BY <1>6, <2>6, FlattenUpTo
  <2>8. FlattenSeq(SubSeq(pieces, 1, i)) = t \o Touched(sel, size, rows, i)
    BY <1>7, <2>2, <2>3, <2>7
  <2> QED BY <2>2, <2>5, <2>8
<1>10. Q = Nat
  <2> HIDE DEF Q
  <2>1. Q \in SUBSET Nat
    BY DEF Q
  <2> QED BY <2>1, <1>8, <1>9, NumberInduction
<1>11. Collected(sel, size, Len(sel), FlattenSeq(SubSeq(pieces, 1, Len(sel))))
  <2> HIDE DEF Q
  <2>1. Len(sel) \in Q /\ Len(sel) <= Len(sel)
    BY <1>3, <1>10
  <2> QED BY <2>1 DEF Q
<1>12. SubSeq(pieces, 1, Len(sel)) = pieces /\ SubSeq(sel, 1, Len(sel)) = sel
  BY <1>6, SubSeqFull
<1>13. PICK t \in Seq(Nat) : t = FlattenSeq(pieces) /\ Rising(t)
  BY <1>11, <1>12 DEF Collected
<1>14. /\ \A k \in DOMAIN t : t[k] * size < RowsUpTo(sel, Len(sel))
       /\ \A r \in SetBits(Bits(sel)) : \E k \in DOMAIN t : HasRow(t[k], size, r)
  BY <1>11, <1>12, <1>13 DEF Collected
<1>15. /\ w \in Seq(Nat) /\ Increasing(w)
       /\ \A k \in DOMAIN w : \E i \in DOMAIN t : w[k] = t[i]
       /\ \A i \in DOMAIN t : \E k \in DOMAIN w : w[k] = t[i]
  BY <1>2, <1>13, ChangesOf
<1>16. ASSUME NEW k \in DOMAIN w PROVE w[k] * size < rows
  <2>1. PICK i \in DOMAIN t : w[k] = t[i]
    BY <1>15
  <2>2. PICK x \in Nat : x = t[i]
    OBVIOUS
  <2>3. PICK xs \in Nat : xs = x * size
    BY MulStep
  <2>4. xs < RowsUpTo(sel, Len(sel))
    BY <1>14, <2>2, <2>3, Zenon
  <2>5. xs < rows
    BY <1>4, <2>4, RowsUpToIs
  <2> QED BY <2>1, <2>2, <2>3, <2>5, Zenon
<1> QED BY <1>14, <1>15, <1>16

-----------------------------------------------------------------------------
(* The batches that the file delivers for a selection of batches           *)

\* A part of a sequence
LEMMA PartIs ==
  ASSUME NEW S, NEW s \in Seq(S), NEW a \in Nat, NEW e \in Nat, a <= e, e <= Len(s)
  PROVE  /\ SubSeq(s, a + 1, e) \in Seq(S) /\ Len(SubSeq(s, a + 1, e)) = e - a
         /\ DOMAIN SubSeq(s, a + 1, e) = 1 .. e - a
         /\ \A i \in 1 .. e - a : SubSeq(s, a + 1, e)[i] = s[a + i]
<1>1. PICK n \in Nat : n = e - a
  OBVIOUS
<1>2. \A i \in 1 .. n : a + i \in 1 .. Len(s)
  BY <1>1
<1>3. SubSeq(s, a + 1, e) \in Seq(S)
  BY <1>2
<1>4. Len(SubSeq(s, a + 1, e)) = n
  BY <1>1
<1>5. \A i \in 1 .. n : SubSeq(s, a + 1, e)[i] = s[a + i]
  BY <1>1
<1> QED BY <1>1, <1>3, <1>4, <1>5

\* Sequences are equal when their elements are.
LEMMA SameElements ==
  ASSUME NEW S, NEW s \in Seq(S), NEW t \in Seq(S), Len(s) = Len(t), \A i \in 1 .. Len(s) : s[i] = t[i]
  PROVE  s = t
  BY SeqEqual

\* One more run of bits of a kind
LEMMA FilterExtend ==
  ASSUME NEW S, NEW R \in Seq(S), NEW B \in Seq(BOOLEAN), NEW v \in BOOLEAN, NEW n \in Nat,
         Len(B) + n <= Len(R)
  PROVE  FilterBy(R, B \o Same(v, n))
           = FilterBy(R, B) \o (IF v THEN SubSeq(R, Len(B) + 1, Len(B) + n) ELSE <<>>)
<1>1. PICK c \in Seq(BOOLEAN) : c = Same(v, n)
  BY SameType
<1>2. Len(c) = n /\ DOMAIN c = 1 .. n /\ \A i \in 1 .. n : c[i] = v
  BY <1>1, SameType
<1>3. PICK u \in Seq(BOOLEAN) : u = B \o c
  BY ConcatProperties
<1>4. PICK a \in Nat, e \in Nat, r \in Nat : a = Len(B) /\ e = Len(u) /\ r = Len(R)
  OBVIOUS
<1>5. e = a + n /\ e <= r
  <2>1. Len(u) = Len(B) + Len(c)
    BY <1>3, ConcatProperties
  <2> QED BY <1>2, <1>4, <2>1
<1>6. SubSeq(u, 1, a) = B /\ SubSeq(u, a + 1, e) = c
  BY <1>3, <1>4, ConcatParts
<1>7. FilterBy(R, u) = FilterBy(R, SubSeq(u, 1, a)) \o FilterBy(SubSeq(R, a + 1, r), SubSeq(u, a + 1, e))
  <2>1. a \in 0 .. Len(u) /\ Len(u) <= Len(R)
    BY <1>4, <1>5
  <2> QED BY <1>4, <2>1, FilterSplit
<1>8. FilterBy(R, u) = FilterBy(R, B) \o FilterBy(SubSeq(R, a + 1, r), c)
  BY <1>6, <1>7
<1>9. a <= r /\ r <= Len(R)
  BY <1>4, <1>5
<1>10. PICK rest \in Seq(S) : rest = SubSeq(R, a + 1, r)
  BY <1>9, PartIs
<1>11. Len(rest) = r - a /\ \A i \in 1 .. r - a : rest[i] = R[a + i]
  BY <1>9, <1>10, PartIs
<1>12. Len(c) <= Len(rest)
  BY <1>2, <1>5, <1>11
<1>13. CASE v
  <2>1. FilterBy(rest, c) = SubSeq(rest, 1, n)
    BY <1>2, <1>12, <1>13, FilterAll
  <2>2. SubSeq(rest, 1, n) \in Seq(S) /\ Len(SubSeq(rest, 1, n)) = n /\ \A i \in 1 .. n : SubSeq(rest, 1, n)[i] = rest[i]
    <3>1. n \in 0 .. Len(rest)
      BY <1>2, <1>12
    <3> QED BY <3>1, SplitSeq
  <2>3. /\ SubSeq(R, a + 1, e) \in Seq(S) /\ Len(SubSeq(R, a + 1, e)) = n
        /\ \A i \in 1 .. n : SubSeq(R, a + 1, e)[i] = R[a + i]
    <3>1. a <= e /\ e <= Len(R) /\ e - a = n
      BY <1>4, <1>5
    <3> QED BY <3>1, PartIs
  <2>4. \A i \in 1 .. n : rest[i] = R[a + i]
    BY <1>5, <1>11
  <2>5. PICK x \in Seq(S), y \in Seq(S) : x = SubSeq(rest, 1, n) /\ y = SubSeq(R, a + 1, e)
    BY <2>2, <2>3
  <2>6. Len(x) = Len(y) /\ \A i \in 1 .. Len(x) : x[i] = y[i]
    BY <2>2, <2>3, <2>4, <2>5
  <2>7. x = y
    BY <2>6, SameElements
  <2>8. e = Len(B) + n /\ a + 1 = Len(B) + 1
    BY <1>4, <1>5
  <2> QED BY <1>1, <1>3, <1>8, <1>10, <1>13, <2>1, <2>5, <2>7, <2>8
<1>14. CASE ~v
  <2>1. FilterBy(rest, c) = <<>>
    BY <1>2, <1>12, <1>14, FilterNone
  <2> QED BY <1>1, <1>3, <1>8, <1>10, <1>14, <2>1
<1> QED BY <1>13, <1>14

\* the row at which the i-th batch of b ends, and the runs that skip to and select it
EndOf(b, size, rows, i) == IF i = 0 THEN 0 ELSE Lesser((b[i] + 1) * size, rows)
Piece(b, size, rows, i) ==
  (IF b[i] * size > EndOf(b, size, rows, i - 1) THEN <<Skip(b[i] * size - EndOf(b, size, rows, i - 1))>> ELSE <<>>)
    \o <<Select(EndOf(b, size, rows, i) - b[i] * size)>>

\* batches of a row group, in order
Batches(b, size, rows) == b \in Seq(Nat) /\ Increasing(b) /\ \A k \in DOMAIN b : b[k] * size < rows

\* A batch starts where the one before ends or later, and only the last is short.
LEMMA EndIs ==
  ASSUME NEW size \in Nat \ {0}, NEW rows \in Nat, NEW b, Batches(b, size, rows), NEW i \in DOMAIN b,
         NEW start, start = b[i] * size
  PROVE  /\ start \in Nat /\ EndOf(b, size, rows, i) \in Nat /\ EndOf(b, size, rows, i - 1) \in Nat
         /\ EndOf(b, size, rows, i - 1) <= start /\ start < EndOf(b, size, rows, i)
         /\ EndOf(b, size, rows, i) <= start + size /\ EndOf(b, size, rows, i) <= rows
         /\ i # Len(b) => EndOf(b, size, rows, i) = start + size
<1>1. b \in Seq(Nat) /\ DOMAIN b = 1 .. Len(b) /\ Len(b) \in Nat /\ \A k \in DOMAIN b : b[k] \in Nat
  BY DEF Batches
<1>2. PICK x \in Nat : x = b[i]
  BY <1>1
<1>3. start \in Nat /\ start = x * size /\ (x + 1) * size = start + size
  BY <1>2, MulStep
<1>4. start < rows
  BY DEF Batches
<1>5. EndOf(b, size, rows, i) = Lesser(start + size, rows)
  BY <1>1, <1>2, <1>3 DEF EndOf
<1>6. start + size \in Nat
  BY <1>3
<1>7. EndOf(b, size, rows, i) \in Nat /\ start < EndOf(b, size, rows, i) /\ EndOf(b, size, rows, i) <= start + size
        /\ EndOf(b, size, rows, i) <= rows
  <2>1. PICK z \in Nat : z = start + size
    BY <1>6
  <2>20. /\ Lesser(z, rows) \in Nat /\ Lesser(z, rows) <= z /\ Lesser(z, rows) <= rows
         /\ (Lesser(z, rows) = z \/ Lesser(z, rows) = rows)
    BY LesserIs, Zenon
  <2>2. PICK l \in Nat : l = Lesser(z, rows) /\ l <= z /\ l <= rows /\ (l = z \/ l = rows)
    BY <2>20, Zenon
  <2>3. start < l
    BY <1>3, <1>4, <2>1, <2>2
  <2> QED BY <1>5, <2>1, <2>2, <2>3
<1>8. EndOf(b, size, rows, i - 1) \in Nat /\ EndOf(b, size, rows, i - 1) <= start
  <2>1. CASE i = 1
    <3>1. EndOf(b, size, rows, i - 1) = 0
      BY <2>1 DEF EndOf
    <3> QED BY <1>3, <3>1
  <2>2. CASE i # 1
    <3>1. i - 1 \in DOMAIN b /\ i - 1 # 0 /\ i - 1 < i
      BY <1>1, <2>2
    <3>2. PICK y \in Nat : y = b[i - 1]
      BY <1>1, <3>1
    <3>3. y < x
      BY <1>2, <3>1, <3>2 DEF Batches, Increasing
    <3>4. y * size + size <= x * size
      BY <3>3, MulMono
    <3>5. (y + 1) * size = y * size + size /\ y * size \in Nat
      BY MulStep
    <3>6. PICK ys \in Nat : ys = (y + 1) * size /\ ys <= start
      <4>1. (y + 1) * size <= start
        BY <1>3, <3>4, <3>5, Zenon
      <4>2. (y + 1) * size \in Nat
        BY <3>5
      <4> QED BY <4>1, <4>2, Zenon
    <3>7. EndOf(b, size, rows, i - 1) = Lesser(ys, rows)
      BY <3>1, <3>2, <3>6, Zenon DEF EndOf
    <3>8. Lesser(ys, rows) \in Nat /\ Lesser(ys, rows) <= ys
      BY LesserIs
    <3> QED BY <1>3, <3>6, <3>7, <3>8
  <2> QED BY <2>1, <2>2
<1>9. ASSUME i # Len(b) PROVE EndOf(b, size, rows, i) = start + size
  <2>1. i + 1 \in DOMAIN b /\ i < i + 1
    BY <1>1, <1>9
  <2>2. PICK y \in Nat : y = b[i + 1]
    BY <1>1, <2>1
  <2>3. x < y
    BY <1>2, <2>1, <2>2 DEF Batches, Increasing
  <2>4. x * size + size <= y * size
    BY <2>3, MulMono
  <2>5. y * size < rows
    BY <2>1, <2>2 DEF Batches
  <2>6. PICK ys \in Nat : ys = y * size
    BY MulStep
  <2>7. start + size <= ys /\ ys < rows
    BY <1>3, <2>4, <2>5, <2>6, Zenon
  <2>8. start + size <= rows
    BY <1>3, <2>7
  <2> QED BY <1>5, <1>6, <2>8, LesserIs
<1> QED BY <1>3, <1>7, <1>8, <1>9

\* A piece skips the gap before a batch and selects the batch.
PieceIs(b, size, rows, i) ==
  /\ Piece(b, size, rows, i) \in Seq(Run)
  /\ Bits(Piece(b, size, rows, i)) = Same(FALSE, b[i] * size - EndOf(b, size, rows, i - 1))
                                      \o Same(TRUE, EndOf(b, size, rows, i) - b[i] * size)
\* The runs for one batch: a gap up to its start, and its rows.
LEMMA PieceBits ==
  ASSUME NEW size \in Nat \ {0}, NEW rows \in Nat, NEW b, Batches(b, size, rows), NEW i \in DOMAIN b
  PROVE  PieceIs(b, size, rows, i)
<1>10. PICK start : start = b[i] * size
  OBVIOUS
<1>11. /\ start \in Nat /\ EndOf(b, size, rows, i) \in Nat /\ EndOf(b, size, rows, i - 1) \in Nat
       /\ EndOf(b, size, rows, i - 1) <= start /\ start < EndOf(b, size, rows, i)
  BY <1>10, EndIs
<1>12. PICK prev \in Nat, end \in Nat : prev = EndOf(b, size, rows, i - 1) /\ end = EndOf(b, size, rows, i)
  BY <1>11
<1>13. prev <= start /\ start < end
  BY <1>11, <1>12, Zenon
<1>1. PICK n \in Nat, m \in Nat : n = start - prev /\ m = end - start
  BY <1>11, <1>13
<1>2. PICK x \in Run, y \in Run : x = Skip(n) /\ y = Select(m)
  BY DEF Run, Skip, Select
<1>3. x.skip = TRUE /\ x.n = n /\ y.skip = FALSE /\ y.n = m
  BY <1>2 DEF Skip, Select
<1>4. Bits(<<x>>) = Same(FALSE, n) /\ Bits(<<y>>) = Same(TRUE, m)
  <2>1. (~x.skip) = FALSE /\ (~y.skip) = TRUE
    BY <1>3
  <2> QED BY <1>3, <2>1, BitsOne
<1>5. <<x>> \in Seq(Run) /\ <<y>> \in Seq(Run) /\ <<>> \in Seq(Run)
  OBVIOUS
<1>6. Piece(b, size, rows, i) = (IF start > prev THEN <<x>> ELSE <<>>) \o <<y>>
  BY <1>1, <1>2, <1>10, <1>12, Zenon DEF Piece
<1>7. CASE start > prev
  <2>1. Piece(b, size, rows, i) = <<x>> \o <<y>>
    BY <1>6, <1>7
  <2>3. PICK vx \in Seq(Run), vy \in Seq(Run) : vx = <<x>> /\ vy = <<y>>
    BY <1>5
  <2>4. Bits(vx \o vy) = Bits(vx) \o Bits(vy) /\ vx \o vy \in Seq(Run)
    BY BitsConcat, ConcatProperties
  <2>2. Bits(<<x>> \o <<y>>) = Bits(<<x>>) \o Bits(<<y>>) /\ <<x>> \o <<y>> \in Seq(Run)
    BY <2>3, <2>4
  <2> QED BY <1>1, <1>4, <1>10, <1>12, <2>1, <2>2, Zenon DEF PieceIs
<1>8. CASE start = prev
  <2>1. ~(start > prev) /\ n = 0
    BY <1>1, <1>8, <1>11
  <2>2. Piece(b, size, rows, i) = <<>> \o <<y>>
    BY <1>6, <2>1
  <2>3. <<>> \o <<y>> = <<y>>
    OBVIOUS
  <2>4. Same(FALSE, n) = <<>>
    BY <2>1, SameNone
  <2>5. PICK z \in Seq(BOOLEAN) : z = Same(TRUE, m)
    BY SameType
  <2>6. <<>> \o z = z
    OBVIOUS
  <2> QED BY <1>1, <1>4, <1>5, <1>10, <1>12, <2>2, <2>3, <2>4, <2>5, <2>6, Zenon DEF PieceIs
<1>9. start > prev \/ start = prev
  BY <1>11, <1>13
<1> QED BY <1>7, <1>8, <1>9, Zenon

\* the selection S of the first i batches takes their rows out of R, in order
Built(R, b, size, i, S) ==
  LET rows == Len(R)
      F == FilterBy(R, Bits(S))
  IN
  /\ S \in Seq(Run) /\ Len(Bits(S)) = EndOf(b, size, rows, i)
  /\ Len(F) = IF i = 0 THEN 0 ELSE (i - 1) * size + (EndOf(b, size, rows, i) - b[i] * size)
  /\ \A k \in 1 .. i : \A j \in 1 .. EndOf(b, size, rows, k) - b[k] * size :
       (k - 1) * size + j \in 1 .. Len(F) /\ F[(k - 1) * size + j] = R[b[k] * size + j]

\* One more batch
LEMMA BuildStep ==
  ASSUME NEW X, NEW R \in Seq(X), NEW rows \in Nat, rows = Len(R), NEW size \in Nat \ {0},
         NEW b, Batches(b, size, rows), NEW i \in DOMAIN b, NEW n \in Nat, n = i - 1,
         NEW S, Built(R, b, size, n, S)
  PROVE  Built(R, b, size, i, S \o Piece(b, size, rows, i))
<1>1. PICK start \in Nat, end \in Nat, prev \in Nat :
        start = b[i] * size /\ end = EndOf(b, size, rows, i) /\ prev = EndOf(b, size, rows, n)
  BY EndIs
<1>2. prev <= start /\ start < end /\ end <= rows /\ end <= start + size
  BY <1>1, EndIs
<1>29. prev = EndOf(b, size, rows, i - 1) /\ start = b[i] * size /\ end = EndOf(b, size, rows, i)
  BY <1>1, Zenon
<1>30. /\ Piece(b, size, rows, i) \in Seq(Run)
       /\ Bits(Piece(b, size, rows, i)) = Same(FALSE, start - prev) \o Same(TRUE, end - start)
  <2>1. PieceIs(b, size, rows, i)
    BY PieceBits
  <2> QED BY <1>29, <2>1, Zenon DEF PieceIs
<1>3. PICK p \in Seq(Run) : p = Piece(b, size, rows, i)
  BY <1>30
<1>4. Bits(p) = Same(FALSE, start - prev) \o Same(TRUE, end - start)
  BY <1>3, <1>30
<1>5. S \in Seq(Run) /\ Len(Bits(S)) = prev
  BY <1>1 DEF Built
<1>6. PICK B \in Seq(BOOLEAN) : B = Bits(S)
  BY <1>5, BitsType
<1>7. PICK gap \in Nat, len \in Nat : gap = start - prev /\ len = end - start
  BY <1>2
<1>8. PICK g \in Seq(BOOLEAN), h \in Seq(BOOLEAN) : g = Same(FALSE, gap) /\ h = Same(TRUE, len)
  BY SameType
<1>9. Len(g) = gap /\ Len(h) = len /\ Len(B) = prev
  BY <1>5, <1>6, <1>8, SameType
<1>10. PICK C \in Seq(BOOLEAN) : C = B \o g
  BY ConcatProperties
<1>11. Len(C) = start
  <2>1. Len(C) = Len(B) + Len(g)
    BY <1>10, ConcatProperties
  <2> QED BY <1>2, <1>7, <1>9, <2>1
<1>12. Bits(S \o p) = C \o h /\ S \o p \in Seq(Run)
  <2>1. Bits(S \o p) = Bits(S) \o Bits(p) /\ S \o p \in Seq(Run)
    BY <1>5, BitsConcat, ConcatProperties
  <2>2. Bits(S \o p) = B \o (g \o h)
    BY <1>4, <1>6, <1>7, <1>8, <2>1
  <2>4. Typed(BOOLEAN, B) /\ Typed(BOOLEAN, g) /\ Typed(BOOLEAN, h)
    BY DEF Typed
  <2>5. Cat(Cat(B, g), h) = Cat(B, Cat(g, h))
    BY <2>4, CatAssociative
  <2>3. B \o (g \o h) = (B \o g) \o h
    BY <2>5 DEF Cat
  <2> QED BY <1>10, <2>1, <2>2, <2>3
<1>13. Len(C \o h) = end
  <2>1. Len(C \o h) = Len(C) + Len(h)
    BY ConcatProperties
  <2> QED BY <1>2, <1>7, <1>9, <1>11, <2>1
<1>14. PICK F \in Seq(X) : F = FilterBy(R, B)
  <2>1. Len(B) <= Len(R)
    BY <1>2, <1>9
  <2> QED BY <2>1, FilterType
<1>15. FilterBy(R, C) = F
  <2>1. Len(B) + gap <= Len(R)
    BY <1>2, <1>7, <1>9
  <2>2. FilterBy(R, B \o Same(FALSE, gap)) = FilterBy(R, B) \o <<>>
    BY <2>1, FilterExtend
  <2>3. F \o <<>> = F
    OBVIOUS
  <2> QED BY <1>8, <1>10, <1>14, <2>2, <2>3
<1>16. FilterBy(R, C \o h) = F \o SubSeq(R, start + 1, end)
  <2>1. Len(C) + len <= Len(R) /\ Len(C) + len = end
    BY <1>2, <1>7, <1>11
  <2>2. FilterBy(R, C \o Same(TRUE, len)) = FilterBy(R, C) \o SubSeq(R, Len(C) + 1, Len(C) + len)
    BY <2>1, FilterExtend, ZenonT(60)
  <2> QED BY <1>8, <1>11, <1>15, <2>1, <2>2
<1>170. start <= end /\ end <= Len(R)
  BY <1>2
<1>171. /\ SubSeq(R, start + 1, end) \in Seq(X) /\ Len(SubSeq(R, start + 1, end)) = end - start
        /\ \A j \in 1 .. end - start : SubSeq(R, start + 1, end)[j] = R[start + j]
  BY <1>170, PartIs
<1>17. PICK c \in Seq(X) : c = SubSeq(R, start + 1, end)
  BY <1>171
<1>18. Len(c) = len /\ \A j \in 1 .. len : c[j] = R[start + j]
  BY <1>7, <1>17, <1>171
<1>19. PICK G \in Seq(X) : G = F \o c /\ G = FilterBy(R, Bits(S \o p))
  BY <1>12, <1>16, <1>17, ConcatProperties
<1>20. Len(F) = n * size
  <2>1. Len(F) = IF n = 0 THEN 0 ELSE (n - 1) * size + (prev - b[n] * size)
    BY <1>1, <1>6, <1>14 DEF Built
  <2>2. CASE n = 0
    <3>1. n * size = 0
      BY <2>2, MulStep
    <3> QED BY <2>1, <2>2, <3>1
  <2>3. CASE n # 0
    <3>0. DOMAIN b = 1 .. Len(b) /\ Len(b) \in Nat
      BY DEF Batches
    <3>1. n \in DOMAIN b /\ n # Len(b) /\ n - 1 \in Nat
      BY <2>3, <3>0, SMTT(40)
    <3>20. PICK s0 : s0 = b[n] * size
      OBVIOUS
    <3>21. s0 \in Nat /\ EndOf(b, size, rows, n) = s0 + size
      BY <3>1, <3>20, EndIs
    <3>2. s0 \in Nat /\ s0 = b[n] * size /\ prev = s0 + size
      BY <1>1, <3>20, <3>21, Zenon
    <3>3. prev - b[n] * size = size
      BY <3>2, SMTT(40)
    <3>4. PICK k \in Nat : k = n - 1 /\ n = k + 1
      BY <3>1
    <3>5. (k + 1) * size = k * size + size
      BY MulStep
    <3>6. Len(F) = k * size + size
      BY <2>1, <2>3, <3>3, <3>4
    <3> QED BY <3>4, <3>5, <3>6
  <2> QED BY <2>2, <2>3
<1>21. PICK ns \in Nat : ns = n * size /\ Len(F) = ns
  BY <1>20, MulStep
<1>22. /\ Len(G) = ns + len
       /\ \A j \in 1 .. ns : G[j] = F[j]
       /\ \A j \in 1 .. len : G[ns + j] = c[j]
  <2>1. Len(F \o c) = Len(F) + Len(c)
    OBVIOUS
  <2>2. \A j \in 1 .. Len(F) : (F \o c)[j] = F[j]
    OBVIOUS
  <2>3. \A j \in 1 .. Len(c) : (F \o c)[Len(F) + j] = c[j]
    OBVIOUS
  <2>4. F \o c = G
    BY <1>19
  <2> QED BY <1>18, <1>21, <2>1, <2>2, <2>3, <2>4
<1>23. Len(G) = IF i = 0 THEN 0 ELSE (i - 1) * size + (end - b[i] * size)
  <2>1. i # 0
    BY DEF Batches
  <2> QED BY <1>1, <1>7, <1>21, <1>22, <2>1
<1>24. ASSUME NEW k \in 1 .. i, NEW j \in 1 .. EndOf(b, size, rows, k) - b[k] * size
       PROVE  (k - 1) * size + j \in 1 .. Len(G) /\ G[(k - 1) * size + j] = R[b[k] * size + j]
  <2>1. CASE k = i
    <3>1. j \in 1 .. len
      BY <1>1, <1>7, <2>1
    <3>2. (k - 1) * size = ns
      BY <1>21, <2>1
    <3>3. b[k] * size = start
      BY <1>1, <2>1
    <3>4. ns + j \in 1 .. Len(G) /\ G[ns + j] = R[start + j]
      BY <1>18, <1>22, <3>1, SMTT(40)
    <3> QED BY <3>2, <3>3, <3>4, Zenon
  <2>2. CASE k # i
    <3>00. DOMAIN b = 1 .. Len(b)
      BY DEF Batches
    <3>0. i \in Nat
      BY <3>00
    <3>1. k \in 1 .. n
      BY <2>2, <3>0
    <3>2. (k - 1) * size + j \in 1 .. Len(F) /\ F[(k - 1) * size + j] = R[b[k] * size + j]
      BY <1>6, <1>14, <3>1 DEF Built
    <3>3. PICK d \in 1 .. ns : d = (k - 1) * size + j
      BY <1>21, <3>2
    <3>4. d \in 1 .. Len(G) /\ G[d] = F[d]
      BY <1>22, SMTT(40)
    <3> QED BY <3>2, <3>3, <3>4, Zenon
  <2> QED BY <2>1, <2>2
<1>25. Len(Bits(S \o p)) = end
  BY <1>12, <1>13
<1> QED BY <1>1, <1>3, <1>12, <1>19, <1>23, <1>24, <1>25 DEF Built

\* the batches within the row group
Inside(b, size, rows) == [i \in DOMAIN b |-> b[i] * size < rows]

\* F are the rows of the batches b of R, one batch after the other.
Delivered(F, R, b, size, rows) ==
  /\ (Len(F) + size - 1) \div size = Len(b)
  /\ \A k \in DOMAIN b : SubSeq(F, (k - 1) * size + 1, Lesser(k * size, Len(F)))
                          = SubSeq(R, b[k] * size + 1, Lesser((b[k] + 1) * size, rows))

\* What the file delivers for a selection of batches, cut into batches, are just
\* these batches, whole and in order.
LEMMA BuildIs ==
  ASSUME NEW X, NEW R \in Seq(X), NEW rows \in Nat, rows = Len(R), NEW size \in Nat \ {0},
         NEW b, Batches(b, size, rows),
         NEW F, F = FilterBy(R, Bits(BuildSelectionForBatches(b, size, rows)))
  PROVE  Delivered(F, R, b, size, rows)
<1>1. b \in Seq(Nat) /\ DOMAIN b = 1 .. Len(b) /\ Len(b) \in Nat /\ \A k \in DOMAIN b : b[k] \in Nat /\ k \in Nat
  <2>1. b \in Seq(Nat)
    BY DEF Batches
  <2> QED BY <2>1
<1>2. PICK pieces : pieces = [i \in DOMAIN b |-> Piece(b, size, rows, i)]
  OBVIOUS
<1>3. pieces \in Seq(Seq(Run)) /\ Len(pieces) = Len(b) /\ \A i \in DOMAIN b : pieces[i] = Piece(b, size, rows, i)
  <2>1. ASSUME NEW i \in DOMAIN b PROVE Piece(b, size, rows, i) \in Seq(Run)
    BY PieceBits DEF PieceIs
  <2>2. pieces \in [1 .. Len(b) -> Seq(Run)]
    BY <1>1, <1>2, <2>1
  <2> QED BY <1>1, <1>2, <2>2
<1>4. PICK sel \in Seq(Run) : sel = FlattenSeq(pieces)
  BY <1>3, FlattenType
<1>5. BuildSelectionForBatches(b, size, rows) = RowSelectionFrom(sel)
  <2>0. PICK n \in Nat : n = Len(b) /\ DOMAIN b = 1 .. n
    BY <1>1
  <2>10. \A i \in 1 .. n : b[i] * size < rows
    BY <2>0, Zenon DEF Batches
  <2>11. Inside(b, size, rows) = Same(TRUE, n)
    BY <2>0, <2>10, Zenon DEF Inside, Same
  <2>12. Same(TRUE, n) \in Seq(BOOLEAN) /\ Len(Same(TRUE, n)) = n /\ DOMAIN Same(TRUE, n) = 1 .. n
           /\ \A i \in 1 .. n : Same(TRUE, n)[i] = TRUE
    BY SameType
  <2>1. PICK c \in Seq(BOOLEAN) : c = Same(TRUE, n)
    BY <2>12
  <2>2. Len(c) = Len(b) /\ DOMAIN c = DOMAIN b /\ \A i \in DOMAIN c : c[i]
    BY <2>0, <2>1, <2>12
  <2>3. FilterBy(b, c) = SubSeq(b, 1, Len(b))
    <3>1. PICK bb \in Seq(Nat) : bb = b
      BY <1>1
    <3>2. Len(c) <= Len(bb) /\ \A i \in DOMAIN c : c[i]
      BY <1>1, <2>2, <3>1
    <3>3. FilterBy(bb, c) = SubSeq(bb, 1, Len(c))
      BY <3>2, FilterAll
    <3> QED BY <2>2, <3>1, <3>3
  <2>4. FilterBy(b, c) = b
    BY <1>1, <2>3, SubSeqFull
  <2>5. FilterBy(b, Inside(b, size, rows)) = b
    BY <2>1, <2>4, <2>11
  <2> QED BY <1>2, <1>4, <2>5 DEF BuildSelectionForBatches, Inside, Piece, EndOf
<1>6. F = FilterBy(R, Bits(sel))
  BY <1>5, RowSelectionFromBits
<1> DEFINE Q == {n \in Nat : n <= Len(b) => Built(R, b, size, n, FlattenSeq(SubSeq(pieces, 1, n)))}
<1>7. 0 \in Q
  <2>1. SubSeq(pieces, 1, 0) = <<>>
    BY SubSeqEmpty
  <2>2. FlattenSeq(SubSeq(pieces, 1, 0)) = <<>>
    BY <2>1, FlattenEmpty
  <2>3. <<>> \in Seq(Run) /\ Bits(<<>>) = <<>> /\ FilterBy(R, <<>>) = <<>> /\ Len(<<>>) = 0
    BY BitsEmpty, FilterEmpty
  <2>4. EndOf(b, size, rows, 0) = 0 /\ 1 .. 0 = {}
    BY DEF EndOf
  <2>5. Built(R, b, size, 0, <<>>)
    BY <2>3, <2>4 DEF Built
  <2> QED BY <2>2, <2>5
<1>8. ASSUME NEW n \in Q PROVE n + 1 \in Q
  <2> SUFFICES ASSUME n + 1 <= Len(b) PROVE Built(R, b, size, n + 1, FlattenSeq(SubSeq(pieces, 1, n + 1)))
    OBVIOUS
  <2>1. n \in Nat /\ Built(R, b, size, n, FlattenSeq(SubSeq(pieces, 1, n)))
    BY <1>1, <1>8
  <2>2. PICK i \in DOMAIN b : i = n + 1 /\ n = i - 1 /\ i \in 1 .. Len(pieces)
    BY <1>1, <1>3, <2>1
  <2>3. PICK t : t = FlattenSeq(SubSeq(pieces, 1, n))
    OBVIOUS
  <2>4. Built(R, b, size, i, t \o Piece(b, size, rows, i))
    BY <2>1, <2>2, <2>3, BuildStep, Zenon
  <2>5. FlattenSeq(SubSeq(pieces, 1, i)) = FlattenSeq(SubSeq(pieces, 1, i - 1)) \o pieces[i]
    BY <1>3, <2>2, FlattenUpTo
  <2>6. FlattenSeq(SubSeq(pieces, 1, i)) = t \o Piece(b, size, rows, i)
    BY <1>3, <2>2, <2>3, <2>5
  <2> QED BY <2>2, <2>4, <2>6
<1>9. Q = Nat
  <2> HIDE DEF Q
  <2>1. Q \in SUBSET Nat
    BY DEF Q
  <2> QED BY <2>1, <1>7, <1>8, NumberInduction
<1>10. Built(R, b, size, Len(b), sel)
  <2>1. Len(b) \in Q /\ Len(b) <= Len(b)
    <3> HIDE DEF Q
    <3> QED BY <1>1, <1>9
  <2>2. SubSeq(pieces, 1, Len(b)) = pieces
    BY <1>3, SubSeqFull
  <2> QED BY <1>4, <2>1, <2>2
<1> HIDE DEF Q
<1>11. F \in Seq(X)
  <2>1. PICK B \in Seq(BOOLEAN) : B = Bits(sel)
    BY BitsType
  <2>2. Len(B) = EndOf(b, size, rows, Len(b))
    BY <1>10, <2>1 DEF Built
  <2>3. EndOf(b, size, rows, Len(b)) \in Nat /\ EndOf(b, size, rows, Len(b)) <= rows
    <3>1. CASE Len(b) = 0
      BY <3>1 DEF EndOf
    <3>2. CASE Len(b) # 0
      <4>1. Len(b) \in DOMAIN b
        BY <1>1, <3>2
      <4>2. PICK start : start = b[Len(b)] * size
        OBVIOUS
      <4> QED BY <4>1, <4>2, EndIs
    <3> QED BY <3>1, <3>2
  <2>4. Len(B) <= Len(R)
    BY <2>2, <2>3, SMTT(40)
  <2> QED BY <1>6, <2>1, <2>4, FilterType
<1>12. PICK L \in Nat, m \in Nat : L = Len(F) /\ m = Len(b)
  <2>1. Len(F) \in Nat
    BY <1>11
  <2> QED BY <1>1, <2>1
<1>13. L = IF m = 0 THEN 0 ELSE (m - 1) * size + (EndOf(b, size, rows, m) - b[m] * size)
  BY <1>6, <1>10, <1>12 DEF Built
<1>14. \A k \in 1 .. m : \A j \in 1 .. EndOf(b, size, rows, k) - b[k] * size :
         (k - 1) * size + j \in 1 .. L /\ F[(k - 1) * size + j] = R[b[k] * size + j]
  BY <1>6, <1>10, <1>12 DEF Built
<1>15. ASSUME NEW k \in 1 .. m
       PROVE  \E ks \in Nat, len \in Nat, start \in Nat :
                /\ ks = (k - 1) * size /\ start = b[k] * size /\ EndOf(b, size, rows, k) = start + len
                /\ 1 <= len /\ len <= size /\ start + len <= rows /\ ks + size = k * size
                /\ k # m => len = size
  <2>1. PICK start : start = b[k] * size
    OBVIOUS
  <2>2. k \in DOMAIN b
    BY <1>1, <1>12
  <2>3. /\ start \in Nat /\ EndOf(b, size, rows, k) \in Nat /\ start < EndOf(b, size, rows, k)
        /\ EndOf(b, size, rows, k) <= start + size /\ EndOf(b, size, rows, k) <= rows
        /\ k # Len(b) => EndOf(b, size, rows, k) = start + size
    BY <2>1, <2>2, EndIs
  <2>4. PICK len \in Nat : len = EndOf(b, size, rows, k) - start
    BY <2>3
  <2>5. PICK p \in Nat : p = k - 1 /\ k = p + 1
    OBVIOUS
  <2>6. PICK ks \in Nat : ks = p * size /\ (p + 1) * size = ks + size
    BY MulStep
  <2>7. EndOf(b, size, rows, k) = start + len /\ 1 <= len /\ len <= size /\ start + len <= rows /\ (k # m => len = size)
    BY <1>12, <2>3, <2>4, SMTT(40)
  <2>8. ks = (k - 1) * size /\ ks + size = k * size
    BY <2>5, <2>6, Zenon
  <2> QED BY <2>1, <2>3, <2>7, <2>8, Zenon
<1>16. (L + size - 1) \div size = m
  <2>1. CASE m = 0
    <3>1. L = 0 /\ 0 * size = 0 /\ size - 1 \in Nat /\ L + size - 1 = size - 1
      BY <1>13, <2>1, MulStep
    <3>2. (size - 1) \div size = 0
      <4>1. 0 * size <= size - 1 /\ size - 1 < 0 * size + size
        BY <3>1
      <4> QED BY <3>1, <4>1, DivUnique
    <3> QED BY <2>1, <3>1, <3>2
  <2>2. CASE m # 0
    <3>1. m \in 1 .. m
      BY <2>2
    <3>2. PICK ks \in Nat, len \in Nat, start \in Nat :
                /\ ks = (m - 1) * size /\ start = b[m] * size /\ EndOf(b, size, rows, m) = start + len
                /\ 1 <= len /\ len <= size /\ start + len <= rows /\ ks + size = m * size
                /\ m # m => len = size
      BY <1>15, <3>1, Zenon
    <3>3. EndOf(b, size, rows, m) - start = len
      BY <3>2
    <3>4. L = ks + len
      BY <1>13, <2>2, <3>2, <3>3, Zenon
    <3>5. PICK ms \in Nat : ms = m * size /\ ms = ks + size
      BY <3>2
    <3>6. PICK a \in Nat : a = L + size - 1 /\ ms <= a /\ a < ms + size
      BY <3>2, <3>4, <3>5
    <3>7. m * size <= a /\ a < m * size + size
      BY <3>5, <3>6, Zenon
    <3>8. a \div size = m
      BY <3>7, DivUnique
    <3> QED BY <3>6, <3>8
  <2> QED BY <2>1, <2>2
<1>17. ASSUME NEW k \in DOMAIN b
       PROVE  SubSeq(F, (k - 1) * size + 1, Lesser(k * size, Len(F)))
                = SubSeq(R, b[k] * size + 1, Lesser((b[k] + 1) * size, rows))
  <2>1. k \in 1 .. m /\ k # 0
    BY <1>1, <1>12
  <2>2. PICK ks \in Nat, len \in Nat, start \in Nat :
                /\ ks = (k - 1) * size /\ start = b[k] * size /\ EndOf(b, size, rows, k) = start + len
                /\ 1 <= len /\ len <= size /\ start + len <= rows /\ ks + size = k * size
                /\ k # m => len = size
    BY <1>15, <2>1, Zenon
  <2>3. EndOf(b, size, rows, k) - start = len
    BY <2>2
  <2>4. \A j \in 1 .. len : ks + j \in 1 .. L /\ F[ks + j] = R[start + j]
    BY <1>14, <2>1, <2>2, <2>3, Zenon
  <2>5. len \in 1 .. len /\ ks + size \in Nat
    BY <2>2
  <2>6. ks + len <= L
    BY <2>4, <2>5
  <2>7. Lesser(ks + size, L) = ks + len
    <3>1. CASE k = m
      <4>1. m # 0
        BY <2>1, <3>1
      <4>2. L = ks + len
        BY <1>13, <2>2, <2>3, <3>1, <4>1, Zenon
      <4>3. L <= ks + size
        BY <2>2, <4>2
      <4> QED BY <2>5, <4>2, <4>3, LesserIs
    <3>2. CASE k # m
      <4>1. len = size
        BY <2>2, <3>2
      <4>2. ks + size <= L
        BY <2>6, <4>1
      <4> QED BY <2>5, <4>1, <4>2, LesserIs
    <3> QED BY <3>1, <3>2
  <2>8. Lesser(k * size, Len(F)) = ks + len
    BY <1>12, <2>2, <2>7, Zenon
  <2>9. Lesser((b[k] + 1) * size, rows) = start + len
    BY <2>1, <2>2, Zenon DEF EndOf
  <2>10. PICK fe \in Nat, re \in Nat : fe = ks + len /\ re = start + len
    BY <2>2
  <2>11. ks <= fe /\ fe <= Len(F) /\ fe - ks = len /\ start <= re /\ re <= Len(R) /\ re - start = len
    <3>1. fe <= L /\ ks <= fe /\ fe - ks = len /\ start <= re /\ re - start = len
      BY <2>6, <2>10
    <3>2. re <= rows
      BY <2>2, <2>10
    <3> QED BY <1>12, <3>1, <3>2
  <2>12. /\ SubSeq(F, ks + 1, fe) \in Seq(X) /\ Len(SubSeq(F, ks + 1, fe)) = len
         /\ \A j \in 1 .. len : SubSeq(F, ks + 1, fe)[j] = F[ks + j]
    BY <1>11, <2>11, PartIs
  <2>13. /\ SubSeq(R, start + 1, re) \in Seq(X) /\ Len(SubSeq(R, start + 1, re)) = len
         /\ \A j \in 1 .. len : SubSeq(R, start + 1, re)[j] = R[start + j]
    BY <2>11, PartIs
  <2>14. PICK x \in Seq(X), y \in Seq(X) : x = SubSeq(F, ks + 1, fe) /\ y = SubSeq(R, start + 1, re)
    BY <2>12, <2>13
  <2>15. Len(x) = Len(y) /\ \A j \in 1 .. Len(x) : x[j] = y[j]
    BY <2>4, <2>12, <2>13, <2>14, ZenonT(60)
  <2>16. x = y
    BY <2>15, SameElements
  <2> QED BY <2>2, <2>8, <2>9, <2>10, <2>14, <2>16, Zenon
<1>18. (Len(F) + size - 1) \div size = Len(b)
  BY <1>11, <1>12, <1>16
<1> QED BY <1>17, <1>18, Zenon DEF Delivered

-----------------------------------------------------------------------------
(* Batches that are missing, columns, identifiers                          *)

\* v has, in order, the elements of w whose bit is set
Sifted(v, w, bits) ==
  /\ v \in Seq(Nat) /\ Increasing(v)
  /\ \A k \in DOMAIN v : \E i \in DOMAIN w : bits[i] /\ v[k] = w[i]
  /\ \A i \in DOMAIN w : bits[i] => \E k \in DOMAIN v : v[k] = w[i]

\* Filtering an increasing sequence leaves an increasing one, of what is chosen.
LEMMA FilterKeeps ==
  ASSUME NEW w \in Seq(Nat), Increasing(w), NEW bits \in Seq(BOOLEAN), Len(bits) = Len(w)
  PROVE  Sifted(FilterBy(w, bits), w, bits)
<1>1. Len(bits) <= Len(w) /\ DOMAIN bits = DOMAIN w
  OBVIOUS
<1>2. FilterBy(w, bits) \in Seq(Nat) /\ Len(FilterBy(w, bits)) = Ones(bits) /\ Ones(bits) \in Nat
  BY <1>1, FilterType, FilterLen, OnesType
<1>3. PICK u \in Seq(Nat) : u = FilterBy(w, bits)
  BY <1>2
<1>4. DOMAIN u = 1 .. Ones(bits)
  BY <1>2, <1>3
<1>5. \E pos : Places(pos, w, bits)
  BY <1>1, FilterPlaces
<1>6. PICK pos : Places(pos, w, bits)
  BY <1>5
<1>7. /\ pos \in [DOMAIN u -> DOMAIN w]
      /\ \A k \in DOMAIN u : bits[pos[k]] /\ u[k] = w[pos[k]]
      /\ \A j, k \in DOMAIN u : j < k => pos[j] < pos[k]
  BY <1>1, <1>3, <1>4, <1>6 DEF Places
<1>8. Increasing(u)
  <2> SUFFICES ASSUME NEW j \in DOMAIN u, NEW k \in DOMAIN u, j < k PROVE u[j] < u[k]
    BY DEF Increasing
  <2>1. pos[j] \in DOMAIN w /\ pos[k] \in DOMAIN w /\ pos[j] < pos[k] /\ u[j] = w[pos[j]] /\ u[k] = w[pos[k]]
    BY <1>7
  <2>2. w[pos[j]] < w[pos[k]]
    BY <2>1 DEF Increasing
  <2> QED BY <2>1, <2>2
<1>9. ASSUME NEW i \in DOMAIN w, bits[i] PROVE \E k \in DOMAIN u : u[k] = w[i]
  <2>1. i \in DOMAIN bits
    BY <1>1
  <2>2. Ones(SubSeq(bits, 1, i)) \in 1 .. Ones(bits) /\ FilterBy(w, bits)[Ones(SubSeq(bits, 1, i))] = w[i]
    BY <1>1, <1>9, <2>1, FilterAt
  <2> QED BY <1>3, <1>4, <2>2
<1>10. \A k \in DOMAIN u : \E i \in DOMAIN w : bits[i] /\ u[k] = w[i]
  BY <1>7
<1> QED BY <1>3, <1>8, <1>9, <1>10 DEF Sifted

\* the columns of a file; which of them are in cols
Schema == [i \in 1..NumColumns |-> i - 1]
InSchema(cols) == [i \in 1..NumColumns |-> i - 1 \in cols]

\* get_root_column_ids lists the chosen columns.
LEMMA RootColumnsIs ==
  ASSUME NEW cols \in SUBSET (0..(NumColumns - 1)), NEW v, v = RootColumns(cols)
  PROVE  /\ v \in Seq(Nat) /\ \A k \in DOMAIN v : v[k] \in cols
         /\ \A c \in cols : \E k \in DOMAIN v : v[k] = c
<1>1. NumColumns \in Nat
  BY StreamAssumption
<1>2. PICK n \in Nat : n = NumColumns
  BY <1>1
<1>3. Schema \in [1 .. n -> Nat] /\ InSchema(cols) \in [1 .. n -> BOOLEAN]
  BY <1>2 DEF Schema, InSchema
<1>4. PICK w \in Seq(Nat), bits \in Seq(BOOLEAN) : w = Schema /\ bits = InSchema(cols)
  BY <1>3
<1>5. /\ Len(bits) = Len(w) /\ DOMAIN w = 1 .. n
      /\ \A i \in 1 .. n : w[i] = i - 1 /\ bits[i] = (i - 1 \in cols)
  <2>1. DOMAIN w = 1 .. n /\ DOMAIN bits = 1 .. n
    BY <1>3, <1>4
  <2>2. \A i \in 1 .. n : w[i] = i - 1
    BY <1>2, <1>4 DEF Schema
  <2>3. \A i \in 1 .. n : bits[i] = (i - 1 \in cols)
    BY <1>2, <1>4 DEF InSchema
  <2> QED BY <2>1, <2>2, <2>3
<1>6. Increasing(w)
  BY <1>5 DEF Increasing
<1>7. v = FilterBy(w, bits)
  BY <1>4 DEF RootColumns, Schema, InSchema
<1>8. PICK u : u = FilterBy(w, bits)
  OBVIOUS
<1>9. /\ u \in Seq(Nat)
      /\ \A k \in DOMAIN u : \E i \in DOMAIN w : bits[i] /\ u[k] = w[i]
      /\ \A i \in DOMAIN w : bits[i] => \E k \in DOMAIN u : u[k] = w[i]
  <2>1. Len(bits) = Len(w)
    BY <1>5
  <2>2. Sifted(FilterBy(w, bits), w, bits)
    BY <1>6, <2>1, FilterKeeps
  <2> QED BY <1>8, <2>2 DEF Sifted
<1>10. ASSUME NEW k \in DOMAIN u PROVE u[k] \in cols
  <2>1. PICK i \in DOMAIN w : bits[i] /\ u[k] = w[i]
    BY <1>9
  <2>2. w[i] = i - 1 /\ i - 1 \in cols
    BY <1>5, <2>1
  <2> QED BY <2>1, <2>2
<1>11. ASSUME NEW c \in cols PROVE \E k \in DOMAIN u : u[k] = c
  <2>1. c + 1 \in DOMAIN w /\ w[c + 1] = c /\ bits[c + 1]
    BY <1>2, <1>5
  <2> QED BY <1>9, <2>1
<1> QED BY <1>7, <1>8, <1>9, <1>10, <1>11

\* A number below its field can be read back.
LEMMA PairUnique ==
  ASSUME NEW F \in Nat \ {0}, NEW a \in Nat, NEW b \in Nat, NEW x \in Nat, NEW y \in Nat, x < F, y < F,
         a * F + x = b * F + y
  PROVE  a = b /\ x = y
<1>1. PICK p \in Nat, q \in Nat : p = a * F /\ q = b * F
  BY MulStep
<1>2. p + x = q + y
  BY <1>1
<1>3. CASE a < b
  <2>1. a * F + F <= b * F
    BY <1>3, MulMono
  <2>2. p + F <= q
    BY <1>1, <2>1, Zenon
  <2> QED BY <1>2, <2>2
<1>4. CASE b < a
  <2>1. b * F + F <= a * F
    BY <1>4, MulMono
  <2>2. q + F <= p
    BY <1>1, <2>1, Zenon
  <2> QED BY <1>2, <2>2
<1>5. CASE a = b
  BY <1>1, <1>2, <1>5
<1> QED BY <1>3, <1>4, <1>5

\* the parts of an identifier fit
Fits(file, g, c, b) ==
  file \in Nat /\ g \in Nat /\ c \in Nat /\ b \in Nat /\ file < Field /\ g < Field /\ c < Field /\ b < Field

\* Batches have identifiers of their own: ParquetArrayID::new loses nothing.
LEMMA EntryIdUnique ==
  ASSUME NEW f1, NEW g1, NEW c1, NEW b1, NEW f2, NEW g2, NEW c2, NEW b2,
         Fits(f1, g1, c1, b1), Fits(f2, g2, c2, b2), EntryId(f1, g1, c1, b1) = EntryId(f2, g2, c2, b2)
  PROVE  f1 = f2 /\ g1 = g2 /\ c1 = c2 /\ b1 = b2
<1>1. Field \in Nat \ {0}
  BY StreamAssumption
<1>2. PICK F \in Nat \ {0} : F = Field
  BY <1>1
<1>3. /\ f1 \in Nat /\ g1 \in Nat /\ c1 \in Nat /\ b1 \in Nat /\ f1 < F /\ g1 < F /\ c1 < F /\ b1 < F
      /\ f2 \in Nat /\ g2 \in Nat /\ c2 \in Nat /\ b2 \in Nat /\ f2 < F /\ g2 < F /\ c2 < F /\ b2 < F
  BY <1>2 DEF Fits
<1>4. /\ f1 % F = f1 /\ g1 % F = g1 /\ c1 % F = c1 /\ b1 % F = b1
      /\ f2 % F = f2 /\ g2 % F = g2 /\ c2 % F = c2 /\ b2 % F = b2
  BY <1>3, ModSmall
<1>5. ((f1 * F + g1) * F + c1) * F + b1 = ((f2 * F + g2) * F + c2) * F + b2
  BY <1>2, <1>4, Zenon DEF EntryId
<1>6. PICK p1 \in Nat, p2 \in Nat : p1 = f1 * F + g1 /\ p2 = f2 * F + g2
  BY <1>3, MulStep
<1>7. PICK q1 \in Nat, q2 \in Nat : q1 = p1 * F + c1 /\ q2 = p2 * F + c2
  BY <1>3, MulStep
<1>8. q1 * F + b1 = q2 * F + b2
  BY <1>5, <1>6, <1>7, Zenon
<1>9. q1 = q2 /\ b1 = b2
  BY <1>3, <1>8, PairUnique
<1>10. p1 * F + c1 = p2 * F + c2
  BY <1>7, <1>9, Zenon
<1>11. p1 = p2 /\ c1 = c2
  BY <1>3, <1>10, PairUnique
<1>12. f1 * F + g1 = f2 * F + g2
  BY <1>6, <1>11, Zenon
<1>13. f1 = f2 /\ g1 = g2
  BY <1>3, <1>12, PairUnique
<1> QED BY <1>9, <1>11, <1>13

-----------------------------------------------------------------------------
(* The rows of a file                                                      *)

\* The rows of a row group
LEMMA GroupRowsType ==
  ASSUME NEW f \in Files, NEW g \in DOMAIN NumRows[f]
  PROVE  /\ GroupRows(f, g) \in Seq(AnyRow) /\ Len(GroupRows(f, g)) = NumRows[f][g] /\ NumRows[f][g] \in Nat
         /\ NumRows[f][g] <= Field * BatchSize /\ g \in Nat /\ g < Field
<1>1. NumRows \in [Files -> Seq(Nat)] /\ Len(NumRows[f]) < Field /\ Field \in Nat
  BY StreamAssumption
<1>2. PICK n \in Seq(Nat) : n = NumRows[f]
  BY <1>1
<1>3. g \in DOMAIN n /\ Len(n) < Field
  BY <1>1, <1>2
<1>4. n[g] \in Nat /\ g \in Nat /\ g < Field
  BY <1>1, <1>3
<1>5. PICK m \in Nat : m = NumRows[f][g]
  BY <1>2, <1>4
<1>6. \A i \in 1 .. m : <<f, g, i>> \in AnyRow
  BY <1>4 DEF AnyRow
<1>7. GroupRows(f, g) = [i \in 1 .. m |-> <<f, g, i>>]
  BY <1>5 DEF GroupRows
<1>8. GroupRows(f, g) \in [1 .. m -> AnyRow]
  BY <1>6, <1>7
<1>9. GroupRows(f, g) \in Seq(AnyRow) /\ Len(GroupRows(f, g)) = m
  BY <1>8
<1>10. NumRows[f][g] <= Field * BatchSize
  BY StreamAssumption, Zenon
<1> QED BY <1>4, <1>5, <1>9, <1>10

\* the rows of each row group
GroupMap(f) == [g \in DOMAIN NumRows[f] |-> GroupRows(f, g)]

\* The rows of the row groups of a file
LEMMA GroupMapType == \A f \in Files : Maps(GroupMap(f), DOMAIN NumRows[f], AnyRow)
  BY GroupRowsType DEF Maps, GroupMap

\* The rows of several row groups are joined.
LEMMA RowsOfFlat ==
  ASSUME NEW f \in Files, NEW groups \in Seq(DOMAIN NumRows[f])
  PROVE  RowsOf(f, groups) = FlatMap(GroupMap(f), groups) /\ RowsOf(f, groups) \in Seq(AnyRow)
<1>1. \A i \in DOMAIN groups : groups[i] \in DOMAIN NumRows[f]
  OBVIOUS
<1>2. \A i \in DOMAIN groups : GroupMap(f)[groups[i]] = GroupRows(f, groups[i])
  BY <1>1 DEF GroupMap
<1>3. [i \in DOMAIN groups |-> GroupMap(f)[groups[i]]] = [i \in DOMAIN groups |-> GroupRows(f, groups[i])]
  BY <1>2, Zenon
<1>4. RowsOf(f, groups) = FlatMap(GroupMap(f), groups)
  BY <1>3 DEF RowsOf, FlatMap
<1>5. FlatMap(GroupMap(f), groups) \in Seq(AnyRow)
  BY GroupMapType, FlatMapType
<1> QED BY <1>4, <1>5

\* The rows of the first row group come first.
LEMMA RowsOfHead ==
  ASSUME NEW f \in Files, NEW groups \in Seq(DOMAIN NumRows[f]), groups # <<>>
  PROVE  /\ Head(groups) \in DOMAIN NumRows[f] /\ Tail(groups) \in Seq(DOMAIN NumRows[f])
         /\ RowsOf(f, groups) = GroupRows(f, Head(groups)) \o RowsOf(f, Tail(groups))
<1>1. Head(groups) \in DOMAIN NumRows[f] /\ Tail(groups) \in Seq(DOMAIN NumRows[f])
  BY HeadTailProperties
<1>2. PICK D : D = DOMAIN NumRows[f]
  OBVIOUS
<1>3. PICK g \in D, t \in Seq(D) : g = Head(groups) /\ t = Tail(groups)
  BY <1>1, <1>2
<1>13. PICK h : h = GroupMap(f)
  OBVIOUS
<1>4. <<g>> \in Seq(D)
  OBVIOUS
<1>5. PICK o \in Seq(D) : o = <<g>>
  BY <1>4
<1>6. Maps(h, D, AnyRow)
  BY <1>2, <1>13, GroupMapType
<1>7. FlatMap(h, o \o t) = FlatMap(h, o) \o FlatMap(h, t)
  BY <1>6, FlatMapConcat
<1>8. FlatMap(h, <<g>>) = h[g]
  BY <1>6, FlatMapOne
<1>9. o \o t = groups
  BY <1>3, <1>5
<1>10. h[g] = GroupRows(f, g)
  BY <1>2, <1>13 DEF GroupMap
<1>11. FlatMap(h, groups) = GroupRows(f, g) \o FlatMap(h, t)
  BY <1>5, <1>7, <1>8, <1>9, <1>10
<1>12. RowsOf(f, groups) = FlatMap(h, groups) /\ RowsOf(f, t) = FlatMap(h, t)
  BY <1>2, <1>3, <1>13, RowsOfFlat
<1> QED BY <1>1, <1>3, <1>11, <1>12

\* A row group has no more rows than the file.
LEMMA FileRowsIs ==
  ASSUME NEW f \in Files, NEW g \in DOMAIN NumRows[f]
  PROVE  FileRows(f) \in Nat /\ NumRows[f][g] <= FileRows(f)
<1>1. NumRows[f] \in Seq(Nat)
  BY StreamAssumption
<1>20. PICK r \in Seq(Nat) : r = NumRows[f]
  BY <1>1
<1>21. Len(r) \in Nat /\ DOMAIN r = 1 .. Len(r)
  OBVIOUS
<1>24. PICK n \in Nat : n = Len(r)
  BY <1>21
<1>25. PICK D : D = 1 .. n
  OBVIOUS
<1>2. D = DOMAIN NumRows[f] /\ D = 1 .. n
  BY <1>20, <1>21, <1>24, <1>25
<1>22. g \in D
  BY <1>2
<1>3. [i \in 1 .. n |-> i] \in Seq(D)
  BY <1>2
<1>4. PICK all \in Seq(D) : all = [i \in 1 .. n |-> i]
  BY <1>3
<1>5. Len(all) = n /\ all[g] = g /\ g \in 1 .. n /\ FileRows(f) = Len(RowsOf(f, all))
  BY <1>2, <1>4 DEF FileRows
<1>6. PICK h : h = GroupMap(f)
  OBVIOUS
<1>7. Maps(h, D, AnyRow) /\ h[g] = GroupRows(f, g)
  BY <1>2, <1>6, GroupMapType DEF GroupMap
<1>8. PICK k \in Nat : k = g - 1 /\ k \in 0 .. Len(all) /\ g \in 0 .. Len(all) /\ k + 1 = g
  BY <1>5
<1>9. all = SubSeq(all, 1, g) \o SubSeq(all, g + 1, Len(all))
  BY <1>8, SplitWhole
<1>10. PICK x \in Seq(D), y \in Seq(D), z \in Seq(D) :
         x = SubSeq(all, 1, g) /\ y = SubSeq(all, g + 1, Len(all)) /\ z = SubSeq(all, 1, k)
  BY <1>8, SplitSeq
<1>11. x = Append(z, g)
  <2>1. SubSeq(all, 1, g) = SubSeq(all, 1, g - 1) \o <<all[g]>>
    <3>1. 1 \in 1 .. Len(all) /\ g \in 1 .. Len(all)
      BY <1>5
    <3> QED BY <3>1, SubSeqRecursiveSecond
  <2>2. Append(z, g) = z \o <<g>>
    BY AppendIsConcat
  <2> QED BY <1>5, <1>8, <1>10, <2>1, <2>2
<1>12. FlatMap(h, Append(z, g)) = FlatMap(h, z) \o h[g]
  <2>1. PICK gg \in D : gg = g
    BY <1>22
  <2>2. Maps(h, D, AnyRow) /\ z \in Seq(D)
    BY <1>7
  <2>3. FlatMap(h, Append(z, gg)) = FlatMap(h, z) \o h[gg]
    BY ONLY <2>2, gg \in D, FlatMapAppend
  <2> QED BY <2>1, <2>3
<1>13. FlatMap(h, x \o y) = FlatMap(h, x) \o FlatMap(h, y)
  BY <1>7, FlatMapConcat, SMTT(40)
<1>14. PICK X \in Seq(AnyRow), Y \in Seq(AnyRow), Z \in Seq(AnyRow), G \in Seq(AnyRow) :
         X = FlatMap(h, x) /\ Y = FlatMap(h, y) /\ Z = FlatMap(h, z) /\ G = h[g]
  BY <1>7, FlatMapType, GroupRowsType
<1>15. X = Z \o G /\ FlatMap(h, x \o y) = X \o Y
  BY <1>11, <1>12, <1>13, <1>14
<1>16. Len(X) = Len(Z) + Len(G) /\ Len(X \o Y) = Len(X) + Len(Y)
  <2>1. Len(Z \o G) = Len(Z) + Len(G) /\ Len(X \o Y) = Len(X) + Len(Y)
    BY ConcatProperties
  <2> QED BY <1>15, <2>1
<1>17. Len(G) = NumRows[f][g] /\ NumRows[f][g] \in Nat
  BY <1>7, <1>14, GroupRowsType
<1>18. RowsOf(f, all) = FlatMap(h, all)
  BY <1>2, <1>6, RowsOfFlat
<1>19. FileRows(f) = Len(X \o Y)
  BY <1>5, <1>9, <1>10, <1>15, <1>18
<1>23. Len(X) \in Nat /\ Len(Y) \in Nat /\ Len(Z) \in Nat
  OBVIOUS
<1> QED BY <1>16, <1>17, <1>19, <1>23, SMTT(40)

-----------------------------------------------------------------------------
(* What is left of a query when its first row group is planned             *)

\* the rows selected; the first ones; both, of some row groups
Chosen(sel, rows) == IF sel = None THEN rows ELSE FilterBy(rows, Bits(sel))
Take(limit, s) == IF limit = None THEN s ELSE SubSeq(s, 1, Lesser(limit, Len(s)))
Ask(f, groups, sel, limit) == Take(limit, Chosen(sel, RowsOf(f, groups)))

\* a selection that is no longer than rows, or none
Selects(sel, rows) == sel \in AnySelection \cup {None} /\ (sel # None => Len(Bits(sel)) <= rows)

\* A selection is a sequence of runs, and None is none.
LEMMA RunsAre == AnySelection = Seq(Run) /\ None \notin Seq(Run) /\ None \notin Nat
  BY QueryAssumption DEF AnySelection, Run

\* Limiting a sequence that starts with the rows P
LEMMA TakeConcat ==
  ASSUME NEW X, NEW P \in Seq(X), NEW U \in Seq(X), NEW n \in Nat, Len(P) <= n
  PROVE  SubSeq(P \o U, 1, Lesser(n, Len(P \o U))) = P \o SubSeq(U, 1, Lesser(n - Len(P), Len(U)))
<1>1. PICK lp \in Nat, lu \in Nat, d \in Nat : lp = Len(P) /\ lu = Len(U) /\ d = n - lp /\ n = lp + d
  OBVIOUS
<1>2. PICK V \in Seq(X) : V = P \o U
  BY ConcatProperties
<1>3. Len(V) = lp + lu
  <2>1. Len(P \o U) = Len(P) + Len(U)
    BY ConcatProperties
  <2> QED BY <1>1, <1>2, <2>1
<1>4. \A i \in 1 .. lp + lu : V[i] = IF i <= lp THEN P[i] ELSE U[i - lp]
  <2>1. \A i \in 1 .. Len(P) + Len(U) : (P \o U)[i] = IF i <= Len(P) THEN P[i] ELSE U[i - Len(P)]
    BY ConcatProperties
  <2> QED BY <1>1, <1>2, <2>1
<1>5. PICK k \in Nat : k = Lesser(d, lu)
  BY LesserIs
<1>6. k <= lu /\ k <= d /\ (k = d \/ k = lu)
  BY <1>5, LesserIs
<1>7. lp + lu \in Nat /\ Lesser(n, lp + lu) = lp + k
  <2>1. CASE d <= lu
    <3>1. k = d /\ n <= lp + lu /\ lp + lu \in Nat
      BY <1>1, <1>5, <2>1, LesserIs
    <3> QED BY <1>1, <3>1, LesserIs
  <2>2. CASE lu <= d
    <3>1. k = lu /\ lp + lu <= n /\ lp + lu \in Nat
      BY <1>1, <1>5, <2>2, LesserIs
    <3> QED BY <1>1, <3>1, LesserIs
  <2> QED BY <1>1, <2>1, <2>2
<1>8. PICK e \in Nat : e = lp + k /\ e \in 0 .. Len(V) /\ k \in 0 .. Len(U)
  BY <1>1, <1>3, <1>6
<1>9. PICK A \in Seq(X), W \in Seq(X) : A = SubSeq(V, 1, e) /\ W = SubSeq(U, 1, k)
  BY <1>8, SplitSeq
<1>10. Len(A) = e /\ (\A i \in 1 .. e : A[i] = V[i]) /\ Len(W) = k /\ (\A i \in 1 .. k : W[i] = U[i])
  BY <1>8, <1>9, SplitSeq
<1>11. PICK B \in Seq(X) : B = P \o W
  BY ConcatProperties
<1>12. Len(B) = lp + k /\ \A i \in 1 .. lp + k : B[i] = IF i <= lp THEN P[i] ELSE W[i - lp]
  <2>1. /\ Len(P \o W) = Len(P) + Len(W)
        /\ \A i \in 1 .. Len(P) + Len(W) : (P \o W)[i] = IF i <= Len(P) THEN P[i] ELSE W[i - Len(P)]
    BY ConcatProperties
  <2> QED BY <1>1, <1>10, <1>11, <2>1
<1>13. ASSUME NEW i \in 1 .. e PROVE A[i] = B[i]
  <2>1. i \in 1 .. lp + k /\ i \in 1 .. lp + lu
    BY <1>6, <1>8
  <2>2. A[i] = V[i] /\ V[i] = (IF i <= lp THEN P[i] ELSE U[i - lp]) /\ B[i] = (IF i <= lp THEN P[i] ELSE W[i - lp])
    BY <1>4, <1>10, <1>12, <2>1
  <2>3. CASE i <= lp
    BY <2>2, <2>3
  <2>4. CASE ~(i <= lp)
    <3>1. i - lp \in 1 .. k
      BY <2>1, <2>4
    <3>2. W[i - lp] = U[i - lp]
      BY <1>10, <3>1
    <3> QED BY <2>2, <2>4, <3>2
  <2> QED BY <2>3, <2>4
<1>14. A = B
  <2>1. Len(A) = Len(B) /\ \A i \in 1 .. Len(A) : A[i] = B[i]
    BY <1>8, <1>10, <1>12, <1>13
  <2> QED BY <2>1, SameElements
<1> QED BY <1>1, <1>2, <1>3, <1>5, <1>7, <1>8, <1>9, <1>11, <1>14

\* Splitting off the selection of the first row group
IsSplit(t, R, T, split) ==
  /\ split.first \in Seq(Run) /\ Len(Bits(split.first)) <= Len(R)
  /\ Selects(split.rest, Len(T))
  /\ Chosen(t.selection, R \o T) = FilterBy(R, Bits(split.first)) \o Chosen(split.rest, T)
\* Splitting the selection splits what it chooses.
LEMMA SplitChosen ==
  ASSUME NEW X, NEW R \in Seq(X), NEW T \in Seq(X), NEW rows \in Nat, rows = Len(R),
         NEW t, Selects(t.selection, Len(R \o T))
  PROVE  IsSplit(t, R, T, SplitSelection(t, rows))
<1>0. PICK split : split = SplitSelection(t, rows)
  OBVIOUS
<1>1. CASE t.selection = None
  <2>1. split.first = <<Select(rows)>> /\ split.rest = None
    BY <1>0, <1>1 DEF SplitSelection
  <2>2. PICK r \in Run : r = Select(rows)
    BY DEF Run, Select
  <2>3. r.skip = FALSE /\ r.n = rows
    BY <2>2 DEF Select
  <2>4. Bits(<<r>>) = Same(TRUE, rows)
    <3>1. (~r.skip) = TRUE
      BY <2>3
    <3> QED BY <2>3, <3>1, BitsOne
  <2>5. <<r>> \in Seq(Run)
    OBVIOUS
  <2>6. PICK B \in Seq(BOOLEAN) : B = Same(TRUE, rows)
    BY SameType
  <2>7. Len(B) = rows /\ DOMAIN B = 1 .. rows /\ \A i \in 1 .. rows : B[i]
    BY <2>6, SameType
  <2>8. FilterBy(R, B) = SubSeq(R, 1, Len(B))
    BY <2>7, FilterAll
  <2>9. FilterBy(R, B) = R
    BY <2>7, <2>8, SubSeqFull
  <2>10. Selects(None, Len(T))
    BY DEF Selects
  <2>11. split.first \in Seq(Run) /\ Bits(split.first) = B
    BY <2>1, <2>2, <2>4, <2>5, <2>6
  <2>12. Chosen(t.selection, R \o T) = R \o T /\ Chosen(split.rest, T) = T
    BY <1>1, <2>1 DEF Chosen
  <2>13. FilterBy(R, Bits(split.first)) = R /\ Len(Bits(split.first)) <= rows
    BY <2>7, <2>9, <2>11
  <2>14. Selects(split.rest, Len(T))
    BY <2>1, <2>10
  <2> QED BY <1>0, <2>11, <2>12, <2>13, <2>14 DEF IsSplit
<1>2. CASE t.selection # None
  <2>1. PICK sel \in Seq(Run) : sel = t.selection
    BY <1>2, RunsAre DEF Selects
  <2>2. PICK V \in Seq(X) : V = R \o T
    BY ConcatProperties
  <2>3. Len(V) = rows + Len(T) /\ SubSeq(V, rows + 1, Len(V)) = T /\ SubSeq(V, 1, rows) = R
    BY <2>2, ConcatParts
  <2>4. PICK B \in Seq(BOOLEAN) : B = Bits(sel)
    BY BitsType
  <2>5. Len(B) <= Len(V)
    BY <1>2, <2>1, <2>2, <2>4 DEF Selects
  <2>6. PICK n : n = Lesser(rows, Len(Bits(sel)))
    OBVIOUS
  <2>7. /\ SplitOff(sel, rows).first \in Seq(Run) /\ SplitOff(sel, rows).rest \in Seq(Run)
        /\ n \in 0 .. Len(Bits(sel))
        /\ Bits(SplitOff(sel, rows).first) = SubSeq(Bits(sel), 1, n)
        /\ Bits(SplitOff(sel, rows).rest) = SubSeq(Bits(sel), n + 1, Len(Bits(sel)))
    BY <2>6, SplitOffBits, SMTT(40)
  <2>8. split = SplitOff(sel, rows)
    BY <1>0, <1>2, <2>1 DEF SplitSelection
  <2>9. PICK b \in Nat : b = Len(B)
    OBVIOUS
  <2>10. /\ split.first \in Seq(Run) /\ split.rest \in Seq(Run) /\ n \in 0 .. b /\ n \in Nat
         /\ Bits(split.first) = SubSeq(B, 1, n) /\ Bits(split.rest) = SubSeq(B, n + 1, b)
    BY <2>4, <2>7, <2>8, <2>9, SMTT(40)
  <2>11. n <= rows /\ (n = rows \/ n = b)
    BY <2>4, <2>6, <2>9, LesserIs
  <2>12. PICK c \in Seq(BOOLEAN), d \in Seq(BOOLEAN) : c = SubSeq(B, 1, n) /\ d = SubSeq(B, n + 1, b)
    BY <2>9, <2>10, SplitSeq
  <2>13. Len(c) = n /\ Len(d) = b - n
    BY <2>9, <2>10, <2>12, SplitSeq
  <2>14. FilterBy(V, B) = FilterBy(V, c) \o FilterBy(SubSeq(V, n + 1, Len(V)), d)
    <3>1. n \in 0 .. Len(B)
      BY <2>9, <2>10
    <3> QED BY <2>5, <2>9, <2>12, <3>1, FilterSplit
  <2>15. FilterBy(V, c) = FilterBy(R, c)
    <3>1. ASSUME NEW i \in DOMAIN c PROVE V[i] = R[i]
      <4>1. i \in 1 .. Len(R)
        BY <2>11, <2>13
      <4>2. (R \o T)[i] = R[i]
        BY <4>1
      <4> QED BY <2>2, <4>2
    <3> QED BY <3>1, FilterSame
  <2>16. FilterBy(SubSeq(V, n + 1, Len(V)), d) = FilterBy(T, d) /\ Len(d) <= Len(T)
    <3>1. CASE n = rows
      <4>1. SubSeq(V, n + 1, Len(V)) = T
        BY <2>3, <3>1
      <4>2. PICK lt \in Nat, lv \in Nat : lt = Len(T) /\ lv = Len(V)
        OBVIOUS
      <4>3. lv = rows + lt /\ b <= lv /\ Len(d) = b - rows
        BY <2>3, <2>5, <2>9, <2>13, <3>1, <4>2
      <4>4. b - rows <= lt
        BY <4>3
      <4> QED BY <4>1, <4>2, <4>3, <4>4
    <3>2. CASE n = b
      <4>1. d = <<>>
        BY <2>13, <3>2
      <4> QED BY <4>1, FilterEmpty
    <3> QED BY <2>11, <3>1, <3>2
  <2>17. t.selection # None /\ split.rest # None /\ split.rest \in AnySelection
    BY <1>2, <2>10, RunsAre
  <2>18. Chosen(t.selection, R \o T) = FilterBy(V, B) /\ Chosen(split.rest, T) = FilterBy(T, d)
    BY <1>2, <2>1, <2>2, <2>4, <2>10, <2>12, <2>17 DEF Chosen
  <2>19. Selects(split.rest, Len(T))
    BY <2>10, <2>12, <2>16, <2>17 DEF Selects
  <2>20. Len(Bits(split.first)) <= rows
    BY <2>10, <2>11, <2>12, <2>13
  <2> QED BY <1>0, <2>10, <2>12, <2>14, <2>15, <2>16, <2>18, <2>19, <2>20 DEF IsSplit
<1> QED BY <1>1, <1>2

\* What the limit leaves of the first row group, and for the others
IsLimit(t, R, U, first, plan, left) ==
  /\ plan \in Seq(Run) /\ Len(Bits(plan)) <= Len(R) /\ RowCount(plan) = Ones(Bits(plan))
  /\ left \in Nat \cup {None} /\ (RowCount(plan) = 0 => left = t.limit)
  /\ Take(t.limit, FilterBy(R, Bits(first)) \o U) = FilterBy(R, Bits(plan)) \o Take(left, U)
\* The limit takes from the first row group what it can, and the rest from the others.
LEMMA LimitSplit ==
  ASSUME NEW X, NEW R \in Seq(X), NEW U \in Seq(X), NEW first \in Seq(Run), Len(Bits(first)) <= Len(R),
         NEW t, t.limit \in Nat \cup {None}, NEW plan, plan = Limited(t, first),
         NEW left, left = IF t.limit = None THEN None ELSE t.limit - RowCount(plan)
  PROVE  IsLimit(t, R, U, first, plan, left)
<1>1. \A p \in Seq(Run) : RowCount(p) = Ones(Bits(p)) /\ Ones(Bits(p)) \in Nat
  BY SelectedUpToIs, BitsType, OnesType DEF RowCount
<1>2. CASE t.limit = None
  <2>1. plan = first /\ left = None
    BY <1>2 DEF Limited
  <2> QED BY <1>1, <1>2, <2>1 DEF Take, IsLimit
<1>3. CASE t.limit # None
  <2>1. PICK limit \in Nat : limit = t.limit
    BY <1>3
  <2>2. plan = LimitRowSelection(first, limit)
    BY <1>3, <2>1 DEF Limited
  <2>3. /\ LimitRowSelection(first, limit) \in Seq(Run)
        /\ Ones(Bits(LimitRowSelection(first, limit))) = Lesser(limit, Ones(Bits(first)))
        /\ \E l \in 0 .. Len(Bits(first)) : Bits(LimitRowSelection(first, limit)) = SubSeq(Bits(first), 1, l)
    BY LimitRowSelectionBits
  <2>4. PICK B \in Seq(BOOLEAN) : B = Bits(first)
    BY BitsType
  <2>5. PICK l \in 0 .. Len(B) : Bits(plan) = SubSeq(B, 1, l)
    BY <2>2, <2>3, <2>4
  <2>6. PICK c \in Seq(BOOLEAN), d \in Seq(BOOLEAN) : c = SubSeq(B, 1, l) /\ d = SubSeq(B, l + 1, Len(B))
    BY SplitSeq
  <2>7. Len(c) = l /\ Len(d) = Len(B) - l /\ Len(B) <= Len(R) /\ Len(c) <= Len(R)
    BY <2>4, <2>6, SplitSeq
  <2>8. PICK rest \in Seq(X) : rest = SubSeq(R, l + 1, Len(R))
    <3>1. l \in 0 .. Len(R)
      BY <2>7
    <3> QED BY <3>1, SplitSeq
  <2>9. Len(rest) = Len(R) - l
    <3>1. l \in 0 .. Len(R)
      BY <2>7
    <3> QED BY <2>8, <3>1, SplitSeq
  <2>10. FilterBy(R, B) = FilterBy(R, c) \o FilterBy(rest, d)
    BY <2>6, <2>7, <2>8, FilterSplit
  <2>11. Len(d) <= Len(rest)
    BY <2>7, <2>9
  <2>12. PICK V \in Seq(X), P \in Seq(X), W \in Seq(X) : V = FilterBy(R, B) /\ P = FilterBy(R, c) /\ W = FilterBy(rest, d)
    BY <2>7, <2>11, FilterType
  <2>13. Len(V) = Ones(B) /\ Len(P) = Ones(c)
    BY <2>7, <2>12, FilterLen
  <2>14. PICK v \in Nat, p \in Nat, w \in Nat, u \in Nat : v = Len(V) /\ p = Len(P) /\ w = Len(W) /\ u = Len(U)
    OBVIOUS
  <2>15. V = P \o W /\ v = p + w
    <3>1. V = P \o W
      BY <2>10, <2>12
    <3>2. Len(P \o W) = Len(P) + Len(W)
      BY ConcatProperties
    <3> QED BY <2>14, <3>1, <3>2
  <2>16. plan \in Seq(Run) /\ Bits(plan) = c /\ RowCount(plan) = p /\ p = Lesser(limit, v)
    BY <1>1, <2>2, <2>3, <2>4, <2>5, <2>6, <2>13, <2>14
  <2>17. p <= limit /\ (p = limit \/ p = v)
    BY <2>16, LesserIs, SMTT(40)
  <2>18. PICK k \in Nat : k = limit - p /\ k = left
    <3>1. limit - p \in Nat
      BY <2>17
    <3> QED BY <1>3, <2>1, <2>16, <3>1
  <2>19. k # None /\ t.limit # None
    BY <1>3, RunsAre
  <2>20. Take(left, U) = SubSeq(U, 1, Lesser(k, u))
    BY <2>14, <2>18, <2>19 DEF Take
  <2>21. Take(t.limit, V \o U) = SubSeq(V \o U, 1, Lesser(limit, Len(V \o U)))
    BY <2>1, <2>19 DEF Take
  <2>24. FilterBy(R, Bits(first)) = V /\ FilterBy(R, Bits(plan)) = P
    BY <2>4, <2>12, <2>16
  <2>25. /\ plan \in Seq(Run) /\ Len(Bits(plan)) <= Len(R) /\ RowCount(plan) = Ones(Bits(plan))
         /\ left \in Nat \cup {None} /\ (RowCount(plan) = 0 => left = t.limit)
    <3>1. plan \in Seq(Run) /\ Len(Bits(plan)) <= Len(R) /\ RowCount(plan) = Ones(Bits(plan))
      BY <1>1, <2>7, <2>16
    <3>2. left \in Nat \cup {None}
      BY <2>18
    <3>3. RowCount(plan) = 0 => left = t.limit
      BY <2>1, <2>16, <2>18, SMTT(40)
    <3> QED BY <3>1, <3>2, <3>3
  <2>22. CASE p = v
    <3>1. V = P
      <4>1. W = <<>>
        BY <2>14, <2>15, <2>22
      <4>2. P \o <<>> = P
        OBVIOUS
      <4> QED BY <2>15, <4>1, <4>2
    <3>2. Len(P) <= limit
      BY <2>14, <2>17
    <3>3. SubSeq(P \o U, 1, Lesser(limit, Len(P \o U))) = P \o SubSeq(U, 1, Lesser(limit - Len(P), Len(U)))
      BY <3>2, TakeConcat
    <3>4. Take(t.limit, V \o U) = P \o Take(left, U)
      BY <2>14, <2>18, <2>20, <2>21, <3>1, <3>3
    <3> QED BY <2>24, <2>25, <3>4 DEF IsLimit
  <2>23. CASE p = limit
    <3>1. PICK WU \in Seq(X) : WU = W \o U
      BY ConcatProperties
    <3>2. V \o U = P \o WU
      <4>1. Typed(X, P) /\ Typed(X, W) /\ Typed(X, U)
        BY DEF Typed
      <4>2. Cat(Cat(P, W), U) = Cat(P, Cat(W, U))
        BY <4>1, CatAssociative
      <4> QED BY <2>15, <3>1, <4>2 DEF Cat
    <3>3. SubSeq(P \o WU, 1, Lesser(limit, Len(P \o WU))) = P \o SubSeq(WU, 1, Lesser(limit - Len(P), Len(WU)))
      <4>1. Len(P) <= limit
        BY <2>14, <2>17
      <4> QED BY <4>1, TakeConcat
    <3>4. limit - Len(P) = 0 /\ k = 0
      BY <2>14, <2>18, <2>23
    <3>5. Lesser(0, Len(WU)) = 0 /\ Lesser(k, u) = 0
      <4>1. 0 \in Nat /\ Len(WU) \in Nat /\ 0 <= Len(WU) /\ 0 <= u
        OBVIOUS
      <4> QED BY <3>4, <4>1, LesserIs
    <3>6. SubSeq(WU, 1, 0) = <<>> /\ SubSeq(U, 1, 0) = <<>>
      BY SubSeqEmpty
    <3>7. Take(t.limit, V \o U) = P \o Take(left, U)
      BY <2>20, <2>21, <3>2, <3>3, <3>4, <3>5, <3>6
    <3> QED BY <2>24, <2>25, <3>7 DEF IsLimit
  <2> QED BY <2>17, <2>22, <2>23
<1> QED BY <1>2, <1>3

-----------------------------------------------------------------------------
(***************************************************************************)
(* The inductive invariant.  A stream is described by its record t, its    *)
(* query q and what it has handed out o, beside the registry F and the     *)
(* cache C.                                                                *)
(***************************************************************************)

\* the columns a query reads, the rows that pass its predicates, and rows as they
\* are handed out
Cols(q) == RootColumns(q.projection \cup UNION {q.predicates[i].cols : i \in DOMAIN q.predicates})
Pass(q) == {x \in AnyRow : \A i \in DOMAIN q.predicates : x \in q.predicates[i].pass}
Tuple(q) == [DOMAIN RootColumns(q.projection) -> AnyRow]
Tuples(q, s) == [k \in DOMAIN s |-> [i \in DOMAIN RootColumns(q.projection) |-> s[k]]]
\* a row filter, and a query
Predicate == [cols : (SUBSET (0..(NumColumns - 1))) \ {{}}, pass : SUBSET AnyRow]
WellFormed(q) ==
  /\ q.file \in Files /\ q.groups \in Seq(DOMAIN NumRows[q.file])
  /\ q.limit \in Nat \cup {None} /\ Selects(q.selection, Len(RowsOf(q.file, q.groups)))
  /\ q.projection \subseteq 0..(NumColumns - 1) /\ q.predicates \in Seq(Predicate)

\* the states of a stream within fill, within a batch, within a row group
Filling == {"fill", "insert"}
Reading == {"filter", "project"}
Scanning == {"fill", "insert", "read", "filter", "project"}
\* the type of the state of a stream
StreamRecord ==
  [pc : {"new", "init", "end"} \cup Scanning, file : Nat, groups : Seq(Nat),
   selection : AnySelection \cup {None}, limit : Nat \cup {None}, group : Nat, queue : Seq(Run),
   missing : Seq(Nat), done : Nat, col : Nat, batch : Nat, mask : Seq(BOOLEAN), pred : Nat,
   arrays : Seq(Seq(AnyRow))]

\* the first batch that the queue is about, and the rows from there
Ahead(t) == IF t.pc \in Reading THEN t.batch + 1 ELSE t.batch
Drop(s, n) == SubSeq(s, n + 1, Len(s))
Onward(t, q) == Drop(GroupRows(q.file, t.group), Ahead(t) * BatchSize)
Rows(t, q) == BatchRows(q.file, t.group, t.batch)

\* every column of batch b is cached
Held(t, q, C, b) == \A i \in DOMAIN Cols(q) : EntryId(t.file, t.group, Cols(q)[i], b) \in DOMAIN C

\* the types, and that the selection fits the row groups to come
TypeInv(t, q) ==
  /\ t \in StreamRecord /\ t.groups \in Seq(DOMAIN NumRows[q.file])
  /\ Selects(t.selection, Len(RowsOf(q.file, t.groups)))
  /\ t.pc = "end" => t.groups = <<>>

\* A stream that runs knows its file under the identifier that the registry has.
FileInv(t, q, F) ==
  t.pc \notin {"new", "end"} => Location[q.file] \in DOMAIN F /\ F[Location[q.file]] = t.file

\* The queue is about the rows of the row group that are still to be read.
QueueInv(t, q) ==
  t.pc \in Scanning => t.group \in DOMAIN NumRows[q.file] /\ Len(Bits(t.queue)) <= Len(Onward(t, q))

\* While it fills the cache, the batches it is done with are cached.
FillInv(t, q, C) ==
  t.pc \in Filling =>
    /\ t.batch = 0 /\ Batches(t.missing, BatchSize, NumRows[q.file][t.group])
    /\ t.done <= Len(t.missing) /\ (t.pc = "insert" => t.done < Len(t.missing))
    /\ t.col \in DOMAIN Cols(q)
    /\ \A k \in 1 .. t.done : Held(t, q, C, t.missing[k])
    /\ t.done < Len(t.missing) =>
         \A i \in 1 .. t.col - 1 : EntryId(t.file, t.group, Cols(q)[i], t.missing[t.done + 1]) \in DOMAIN C

\* A batch that has a selected row is cached, or among those that are filled in.
TouchInv(t, q, C) ==
  t.pc \in Scanning =>
    \A b \in Nat : (\E r \in SetBits(Bits(t.queue)) : HasRow(b, BatchSize, Ahead(t) * BatchSize + r)) =>
       \/ Held(t, q, C, b)
       \/ t.pc \in Filling /\ \E k \in DOMAIN t.missing : t.missing[k] = b

\* The mask is about the rows of the current batch, and what it leaves has passed
\* the predicates so far.
MaskInv(t, q, C) ==
  t.pc \in Reading =>
    /\ t.batch * BatchSize < NumRows[q.file][t.group] /\ Len(t.mask) <= Len(Rows(t, q))
    /\ SetBits(t.mask) # {} => Held(t, q, C, t.batch)
    /\ t.pred # 0
    /\ \A i \in SetBits(t.mask) : \A k \in DOMAIN q.predicates :
         k < t.pred \/ t.pc = "project" => Rows(t, q)[i] \in q.predicates[k].pass

\* The columns that were read hold the rows under the mask.
ArrayInv(t, q) ==
  t.pc = "project" =>
    /\ Len(t.arrays) <= Len(RootColumns(q.projection))
    /\ \A i \in DOMAIN t.arrays : t.arrays[i] = FilterBy(Rows(t, q), t.mask)

\* the rows that are still to be handed out: of the current batch, of the row
\* group, of the other row groups
Now(t, q) == IF t.pc \in Reading THEN Only(FilterBy(Rows(t, q), t.mask), Pass(q)) ELSE <<>>
Soon(t, q) == IF t.pc \in Scanning THEN Only(FilterBy(Onward(t, q), Bits(t.queue)), Pass(q)) ELSE <<>>
Late(t, q) == Only(Ask(q.file, t.groups, t.selection, t.limit), Pass(q))
Left(t, q) == Cat(Now(t, q), Cat(Soon(t, q), Late(t, q)))

\* What was handed out and what is still to be are what the query asks for.
OutInv(t, q, o) ==
  /\ o \in Seq(Tuple(q))
  /\ Cat(o, Tuples(q, Left(t, q))) = Expected(q)

\* the invariant of one stream
StreamInv(t, q, o, F, C) ==
  /\ TypeInv(t, q) /\ FileInv(t, q, F) /\ QueueInv(t, q) /\ FillInv(t, q, C) /\ TouchInv(t, q, C)
  /\ MaskInv(t, q, C) /\ ArrayInv(t, q) /\ OutInv(t, q, o)

\* The registry gives each file an identifier of its own, one for a stream at most.
Opened == {s \in Streams : st[s].pc # "new"}
RegistryInv ==
  /\ nextFile \in Nat /\ nextFile <= Cardinality(Opened)
  /\ \A l \in DOMAIN files : files[l] \in Nat /\ files[l] < nextFile
  /\ \A k, l \in DOMAIN files : files[k] = files[l] => k = l

\* what entry id holds: batch b of column c of a row group of a registered file
Holds(id, F, C, f, g, c, b) ==
  /\ Location[f] \in DOMAIN F /\ id = EntryId(F[Location[f]], g, c, b)
  /\ b * BatchSize < NumRows[f][g] /\ C[id] = BatchRows(f, g, b)
CacheInv(F, C) ==
  \A id \in DOMAIN C : \E f \in Files : \E g \in DOMAIN NumRows[f] : \E c \in 0..(NumColumns - 1), b \in Nat :
    Holds(id, F, C, f, g, c, b)

\* the inductive invariant
Inv ==
  /\ RegistryInv /\ CacheInv(files, cached)
  /\ st = [s \in Streams |-> st[s]] /\ out = [s \in Streams |-> out[s]]
  /\ \A s \in Streams : WellFormed(query[s]) /\ StreamInv(st[s], query[s], out[s], files, cached)

-----------------------------------------------------------------------------
(* What the parts of the invariant mean                                    *)

\* The queries are well formed.
LEMMA QueriesWellFormed == \A s \in Streams : \A q \in Queries[s] : WellFormed(q)
<1> SUFFICES ASSUME NEW s \in Streams, NEW q \in Queries[s] PROVE WellFormed(q)
  OBVIOUS
<1>1. /\ q.file \in Files /\ q.groups \in Seq(DOMAIN NumRows[q.file])
      /\ q.limit \in Nat \cup {None} /\ q.selection \in AnySelection \cup {None}
      /\ q.projection \subseteq 0..(NumColumns - 1)
      /\ q.predicates \in Seq(Predicate)
  BY QueryAssumption, Zenon DEF Predicate
<1>2. q.selection # None => Len(Bits(q.selection)) <= Len(RowsOf(q.file, q.groups))
  BY QueryAssumption, Zenon DEF Bits
<1> QED BY <1>1, <1>2, Zenon DEF WellFormed, Selects

\* What is left of a sequence after its first elements
LEMMA DropIs ==
  ASSUME NEW X, NEW s \in Seq(X), NEW n \in Nat
  PROVE  /\ Drop(s, n) \in Seq(X) /\ Len(Drop(s, n)) = (IF n <= Len(s) THEN Len(s) - n ELSE 0)
         /\ \A i \in 1 .. Len(Drop(s, n)) : Drop(s, n)[i] = s[n + i]
<1>1. CASE n <= Len(s)
  <2>1. /\ SubSeq(s, n + 1, Len(s)) \in Seq(X) /\ Len(SubSeq(s, n + 1, Len(s))) = Len(s) - n
        /\ \A i \in 1 .. Len(s) - n : SubSeq(s, n + 1, Len(s))[i] = s[n + i]
    BY <1>1, SplitSeq
  <2> QED BY <1>1, <2>1 DEF Drop
<1>2. CASE ~(n <= Len(s))
  <2>1. SubSeq(s, n + 1, Len(s)) = <<>>
    BY <1>2, SubSeqEmpty
  <2> QED BY <1>2, <2>1 DEF Drop
<1> QED BY <1>1, <1>2

\* Dropping twice
LEMMA DropTwice ==
  ASSUME NEW X, NEW s \in Seq(X), NEW n \in Nat, NEW m \in Nat
  PROVE  Drop(Drop(s, n), m) = Drop(s, n + m)
<1>1. PICK a \in Seq(X) : a = Drop(s, n)
  BY DropIs
<1>2. PICK ls \in Nat, la \in Nat : ls = Len(s) /\ la = Len(a)
  OBVIOUS
<1>3. la = (IF n <= ls THEN ls - n ELSE 0) /\ \A i \in 1 .. la : a[i] = s[n + i]
  BY <1>1, <1>2, DropIs, SMTT(40)
<1>4. PICK b \in Seq(X) : b = Drop(a, m)
  BY DropIs
<1>5. PICK lb \in Nat : lb = Len(b)
  OBVIOUS
<1>6. lb = (IF m <= la THEN la - m ELSE 0) /\ \A i \in 1 .. lb : b[i] = a[m + i]
  BY <1>2, <1>4, <1>5, DropIs, ZenonT(60)
<1>7. PICK k \in Nat : k = n + m
  OBVIOUS
<1>8. PICK c \in Seq(X) : c = Drop(s, k)
  BY DropIs
<1>9. PICK lc \in Nat : lc = Len(c)
  OBVIOUS
<1>10. lc = (IF k <= ls THEN ls - k ELSE 0) /\ \A i \in 1 .. lc : c[i] = s[k + i]
  BY <1>2, <1>8, <1>9, DropIs, ZenonT(60)
<1>11. lb = lc
  BY <1>3, <1>6, <1>7, <1>10
<1>12. ASSUME NEW i \in 1 .. lb PROVE b[i] = c[i]
  <2>1. m + i \in 1 .. la /\ n + (m + i) = k + i
    BY <1>6, <1>7
  <2> QED BY <1>3, <1>6, <1>10, <1>11, <2>1
<1>13. b = c
  <2>1. Len(b) = Len(c) /\ \A i \in 1 .. Len(b) : b[i] = c[i]
    BY <1>5, <1>9, <1>11, <1>12
  <2> QED BY <2>1, SameElements
<1> QED BY <1>1, <1>4, <1>7, <1>8, <1>13

\* A batch is the next BatchSize rows of what is left, or all of it.
LEMMA BatchRowsIs ==
  ASSUME NEW f \in Files, NEW g \in DOMAIN NumRows[f], NEW b \in Nat, NEW R, R = GroupRows(f, g),
         NEW a, a = b * BatchSize, a < NumRows[f][g]
  PROVE  /\ a \in Nat /\ R \in Seq(AnyRow) /\ Drop(R, a) \in Seq(AnyRow) /\ BatchRows(f, g, b) \in Seq(AnyRow)
         /\ Len(BatchRows(f, g, b)) = Lesser(BatchSize, Len(Drop(R, a)))
         /\ \A i \in 1 .. Len(BatchRows(f, g, b)) : BatchRows(f, g, b)[i] = Drop(R, a)[i]
<1>1. PICK rows \in Nat : rows = NumRows[f][g]
  BY GroupRowsType
<1>2. PICK P \in Seq(AnyRow) : P = R
  BY GroupRowsType
<1>3. Len(P) = rows
  BY <1>1, <1>2, GroupRowsType
<1>4. BatchSize \in Nat
  BY StreamAssumption
<1>5. PICK A \in Nat : A = a /\ (b + 1) * BatchSize = A + BatchSize
  BY <1>4, MulStep
<1>6. A < rows
  BY <1>1, <1>5
<1>8. PICK z \in Nat : z = A + BatchSize
  BY <1>4
<1>70. /\ Lesser(z, rows) \in Nat /\ Lesser(z, rows) <= z /\ Lesser(z, rows) <= rows
       /\ (Lesser(z, rows) = z \/ Lesser(z, rows) = rows)
  BY LesserIs, Zenon
<1>71. PICK e \in Nat : e = Lesser(z, rows) /\ e <= z /\ e <= rows /\ (e = z \/ e = rows)
  BY <1>70, Zenon
<1>7. e = Lesser(A + BatchSize, rows)
  BY <1>8, <1>71, Zenon
<1>9. e <= rows /\ A <= e /\ e <= A + BatchSize /\ (e = A + BatchSize \/ e = rows)
  BY <1>4, <1>6, <1>8, <1>71
<1>10. BatchRows(f, g, b) = SubSeq(P, A + 1, e)
  BY <1>1, <1>2, <1>5, <1>7, Zenon DEF BatchRows
<1>11. /\ SubSeq(P, A + 1, e) \in Seq(AnyRow) /\ Len(SubSeq(P, A + 1, e)) = e - A
       /\ \A i \in 1 .. e - A : SubSeq(P, A + 1, e)[i] = P[A + i]
  <2>1. A <= e /\ e <= Len(P)
    BY <1>3, <1>9
  <2> QED BY <2>1, PartIs, SMTT(60)
<1>12. /\ Drop(P, A) \in Seq(AnyRow) /\ Len(Drop(P, A)) = rows - A
       /\ \A i \in 1 .. rows - A : Drop(P, A)[i] = P[A + i]
  <2>1. PICK d \in Nat : d = Len(Drop(P, A))
    BY DropIs
  <2>2. d = IF A <= rows THEN rows - A ELSE 0
    BY <1>3, <2>1, DropIs
  <2>3. d = rows - A
    BY <1>6, <2>2
  <2>4. Drop(P, A) \in Seq(AnyRow) /\ \A i \in 1 .. Len(Drop(P, A)) : Drop(P, A)[i] = P[A + i]
    BY DropIs
  <2> QED BY <2>1, <2>3, <2>4
<1>13. rows - A \in Nat /\ Lesser(BatchSize, rows - A) = e - A
  <2>1. CASE e = A + BatchSize
    <3>1. BatchSize <= rows - A /\ rows - A \in Nat /\ e - A = BatchSize
      BY <1>4, <1>9, <2>1
    <3> QED BY <1>4, <3>1, LesserIs
  <2>2. CASE e = rows
    <3>1. rows - A <= BatchSize /\ rows - A \in Nat /\ e - A = rows - A
      BY <1>4, <1>9, <2>2
    <3> QED BY <1>4, <3>1, LesserIs
  <2> QED BY <1>9, <2>1, <2>2
<1>14. \A i \in 1 .. e - A : i \in 1 .. rows - A
  BY <1>9
<1>15. PICK B \in Seq(AnyRow), D \in Seq(AnyRow), n \in Nat : B = BatchRows(f, g, b) /\ D = Drop(P, A) /\ n = e - A
  <2>1. e - A \in Nat
    BY <1>9
  <2> QED BY <1>10, <1>11, <1>12, <2>1
<1>16. Len(B) = n /\ \A i \in 1 .. n : B[i] = P[A + i]
  BY <1>10, <1>11, <1>15
<1>17. Len(D) = rows - A /\ \A i \in 1 .. n : D[i] = P[A + i]
  BY <1>12, <1>14, <1>15
<1>18. Len(B) = Lesser(BatchSize, Len(D)) /\ \A i \in 1 .. Len(B) : B[i] = D[i]
  BY <1>13, <1>15, <1>16, <1>17
<1>19. a \in Nat /\ R \in Seq(AnyRow) /\ Drop(R, a) = D
  BY <1>2, <1>5, <1>15
<1> QED BY <1>15, <1>18, <1>19

\* The columns of a query are columns of the schema, those of its projection and
\* of its predicates among them.
LEMMA ColsIs ==
  ASSUME NEW q, WellFormed(q)
  PROVE  /\ Cols(q) \in Seq(Nat) /\ \A i \in DOMAIN Cols(q) : Cols(q)[i] \in 0..(NumColumns - 1)
         /\ RootColumns(q.projection) \in Seq(Nat)
         /\ \A i \in DOMAIN RootColumns(q.projection) :
              \E j \in DOMAIN Cols(q) : Cols(q)[j] = RootColumns(q.projection)[i]
         /\ \A k \in DOMAIN q.predicates : \A c \in q.predicates[k].cols : \E j \in DOMAIN Cols(q) : Cols(q)[j] = c
<1>1. q.projection \subseteq 0..(NumColumns - 1) /\ q.predicates \in Seq(Predicate)
  BY DEF WellFormed
<1>2. \A k \in DOMAIN q.predicates : q.predicates[k] \in Predicate
  BY <1>1
<1>3. \A k \in DOMAIN q.predicates : q.predicates[k].cols \subseteq 0..(NumColumns - 1)
  BY <1>2 DEF Predicate
<1>4. PICK all : all = q.projection \cup UNION {q.predicates[i].cols : i \in DOMAIN q.predicates}
  OBVIOUS
<1>5. all \in SUBSET (0..(NumColumns - 1))
  BY <1>1, <1>3, <1>4
<1>6. q.projection \subseteq all /\ \A k \in DOMAIN q.predicates : q.predicates[k].cols \subseteq all
  BY <1>4
<1>7. Cols(q) = RootColumns(all)
  BY <1>4 DEF Cols
<1>8. PICK v : v = Cols(q)
  OBVIOUS
<1>9. v \in Seq(Nat) /\ (\A k \in DOMAIN v : v[k] \in all) /\ \A c \in all : \E k \in DOMAIN v : v[k] = c
  BY <1>5, <1>7, <1>8, RootColumnsIs
<1>10. PICK u : u = RootColumns(q.projection)
  OBVIOUS
<1>11. u \in Seq(Nat) /\ \A k \in DOMAIN u : u[k] \in q.projection
  BY <1>1, <1>10, RootColumnsIs
<1>12. \A k \in DOMAIN q.predicates : \A c \in q.predicates[k].cols : \E j \in DOMAIN v : v[j] = c
  BY <1>6, <1>9
<1>13. \A i \in DOMAIN u : \E j \in DOMAIN v : v[j] = u[i]
  BY <1>6, <1>9, <1>11
<1>14. \A i \in DOMAIN v : v[i] \in 0..(NumColumns - 1)
  BY <1>5, <1>9
<1> QED BY <1>8, <1>9, <1>10, <1>11, <1>12, <1>13, <1>14

\* What is asked for are rows.
LEMMA AskType ==
  ASSUME NEW f \in Files, NEW groups \in Seq(DOMAIN NumRows[f]), NEW sel, Selects(sel, Len(RowsOf(f, groups))),
         NEW limit \in Nat \cup {None}
  PROVE  Ask(f, groups, sel, limit) \in Seq(AnyRow)
<1>1. PICK R \in Seq(AnyRow) : R = RowsOf(f, groups)
  BY RowsOfFlat
<1>2. Chosen(sel, R) \in Seq(AnyRow)
  <2>1. CASE sel = None
    BY <2>1 DEF Chosen
  <2>2. CASE sel # None
    <3>1. PICK v \in Seq(Run) : v = sel
      BY <2>2, RunsAre DEF Selects
    <3>2. PICK B \in Seq(BOOLEAN) : B = Bits(v)
      BY BitsType
    <3>3. Len(B) <= Len(R)
      BY <1>1, <2>2, <3>1, <3>2 DEF Selects
    <3>4. FilterBy(R, B) \in Seq(AnyRow)
      BY <3>3, FilterType
    <3> QED BY <2>2, <3>1, <3>2, <3>4 DEF Chosen
  <2> QED BY <2>1, <2>2
<1>3. PICK C \in Seq(AnyRow) : C = Chosen(sel, R)
  BY <1>2
<1>4. CASE limit = None
  BY <1>1, <1>3, <1>4 DEF Ask, Take
<1>5. CASE limit # None
  <2>1. limit \in Nat
    BY <1>5
  <2>2. PICK n \in Nat : n = Lesser(limit, Len(C)) /\ n <= Len(C)
    <3>1. Len(C) \in Nat
      OBVIOUS
    <3>2. Lesser(limit, Len(C)) \in Nat /\ Lesser(limit, Len(C)) <= Len(C)
      BY <2>1, <3>1, LesserIs
    <3> QED BY <3>2
  <2>3. n \in 0 .. Len(C)
    BY <2>2
  <2>4. SubSeq(C, 1, n) \in Seq(AnyRow)
    BY <2>3, SplitSeq
  <2> QED BY <1>1, <1>3, <1>5, <2>2, <2>4 DEF Ask, Take
<1> QED BY <1>4, <1>5

\* Rows as they are handed out
LEMMA TuplesType ==
  ASSUME NEW q, NEW s \in Seq(AnyRow)
  PROVE  /\ Tuples(q, s) \in Seq(Tuple(q)) /\ Len(Tuples(q, s)) = Len(s) /\ DOMAIN Tuples(q, s) = 1 .. Len(s)
         /\ \A k \in 1 .. Len(s) : Tuples(q, s)[k] = [i \in DOMAIN RootColumns(q.projection) |-> s[k]]
<1>1. PICK n \in Nat : n = Len(s) /\ DOMAIN s = 1 .. n
  OBVIOUS
<1>2. PICK D : D = DOMAIN RootColumns(q.projection)
  OBVIOUS
<1>3. Tuples(q, s) = [k \in 1 .. n |-> [i \in D |-> s[k]]] /\ Tuple(q) = [D -> AnyRow]
  BY <1>1, <1>2 DEF Tuples, Tuple
<1>4. \A k \in 1 .. n : s[k] \in AnyRow
  BY <1>1
<1>5. \A k \in 1 .. n : [i \in D |-> s[k]] \in [D -> AnyRow]
  BY <1>4
<1>6. Tuples(q, s) \in [1 .. n -> Tuple(q)]
  BY <1>3, <1>5
<1>7. Tuples(q, s) \in Seq(Tuple(q)) /\ Len(Tuples(q, s)) = n /\ DOMAIN Tuples(q, s) = 1 .. n
  BY <1>6
<1> QED BY <1>1, <1>2, <1>3, <1>7

\* Rows can be handed out in parts.
LEMMA TuplesConcat ==
  ASSUME NEW q, NEW s \in Seq(AnyRow), NEW t \in Seq(AnyRow)
  PROVE  Tuples(q, s \o t) = Tuples(q, s) \o Tuples(q, t)
<1>1. PICK u \in Seq(AnyRow) : u = s \o t
  BY ConcatProperties
<1>2. PICK D : D = DOMAIN RootColumns(q.projection)
  OBVIOUS
<1>3. PICK m \in Nat, n \in Nat : m = Len(s) /\ n = Len(t)
  OBVIOUS
<1>4. Len(u) = m + n /\ \A k \in 1 .. m + n : u[k] = IF k <= m THEN s[k] ELSE t[k - m]
  <2>1. /\ Len(s \o t) = Len(s) + Len(t)
        /\ \A k \in 1 .. Len(s) + Len(t) : (s \o t)[k] = IF k <= Len(s) THEN s[k] ELSE t[k - Len(s)]
    BY ConcatProperties
  <2> QED BY <1>1, <1>3, <2>1
<1>5. PICK U \in Seq(Tuple(q)), S \in Seq(Tuple(q)), T \in Seq(Tuple(q)) :
        U = Tuples(q, u) /\ S = Tuples(q, s) /\ T = Tuples(q, t)
  BY TuplesType
<1>6. /\ Len(U) = m + n /\ Len(S) = m /\ Len(T) = n
      /\ \A k \in 1 .. m + n : U[k] = [i \in D |-> u[k]]
      /\ \A k \in 1 .. m : S[k] = [i \in D |-> s[k]]
      /\ \A k \in 1 .. n : T[k] = [i \in D |-> t[k]]
  <2>1. \A v \in Seq(AnyRow) : /\ Len(Tuples(q, v)) = Len(v)
                                /\ \A k \in 1 .. Len(v) : Tuples(q, v)[k] = [i \in DOMAIN RootColumns(q.projection) |-> v[k]]
    BY TuplesType
  <2>2. Len(U) = m + n /\ \A k \in 1 .. m + n : U[k] = [i \in D |-> u[k]]
    BY <1>2, <1>4, <1>5, <2>1, Zenon
  <2>3. Len(S) = m /\ \A k \in 1 .. m : S[k] = [i \in D |-> s[k]]
    BY <1>2, <1>3, <1>5, <2>1, Zenon
  <2>4. Len(T) = n /\ \A k \in 1 .. n : T[k] = [i \in D |-> t[k]]
    BY <1>2, <1>3, <1>5, <2>1, Zenon
  <2> QED BY <2>2, <2>3, <2>4
<1>7. PICK W \in Seq(Tuple(q)) : W = S \o T
  BY ConcatProperties
<1>8. Len(W) = m + n /\ \A k \in 1 .. m + n : W[k] = IF k <= m THEN S[k] ELSE T[k - m]
  <2>1. /\ Len(S \o T) = Len(S) + Len(T)
        /\ \A k \in 1 .. Len(S) + Len(T) : (S \o T)[k] = IF k <= Len(S) THEN S[k] ELSE T[k - Len(S)]
    BY ConcatProperties
  <2> QED BY <1>6, <1>7, <2>1
<1>9. ASSUME NEW k \in 1 .. m + n PROVE U[k] = W[k]
  <2>1. CASE k <= m
    <3>1. k \in 1 .. m
      BY <2>1
    <3>2. u[k] = s[k] /\ W[k] = S[k]
      BY <1>4, <1>8, <2>1
    <3>3. U[k] = [i \in D |-> u[k]] /\ S[k] = [i \in D |-> s[k]]
      BY <1>6, <3>1
    <3> QED BY <3>2, <3>3
  <2>2. CASE ~(k <= m)
    <3>1. k - m \in 1 .. n
      BY <2>2
    <3>2. u[k] = t[k - m] /\ W[k] = T[k - m]
      BY <1>4, <1>8, <2>2
    <3>3. U[k] = [i \in D |-> u[k]] /\ T[k - m] = [i \in D |-> t[k - m]]
      BY <1>6, <3>1
    <3> QED BY <3>2, <3>3
  <2> QED BY <2>1, <2>2
<1>10. U = W
  <2>1. Len(U) = Len(W) /\ \A k \in 1 .. Len(U) : U[k] = W[k]
    BY <1>6, <1>8, <1>9
  <2> QED BY <2>1, SameElements
<1> QED BY <1>1, <1>5, <1>7, <1>10

\* What a query asks for are the rows of Ask that pass.
LEMMA ExpectedIs ==
  ASSUME NEW q, WellFormed(q)
  PROVE  Expected(q) = Tuples(q, Only(Ask(q.file, q.groups, q.selection, q.limit), Pass(q)))
<1>1. PICK a : a = Ask(q.file, q.groups, q.selection, q.limit)
  OBVIOUS
<1>2. a \in Seq(AnyRow)
  <2>1. /\ q.file \in Files /\ q.groups \in Seq(DOMAIN NumRows[q.file]) /\ q.limit \in Nat \cup {None}
        /\ Selects(q.selection, Len(RowsOf(q.file, q.groups)))
    BY DEF WellFormed
  <2>2. Ask(q.file, q.groups, q.selection, q.limit) \in Seq(AnyRow)
    BY <2>1, AskType, Zenon
  <2> QED BY <1>1, <2>2
<1>3. \A k \in DOMAIN a : (a[k] \in Pass(q)) = (\A i \in DOMAIN q.predicates : a[k] \in q.predicates[i].pass)
  <2>1. \A k \in DOMAIN a : a[k] \in AnyRow
    BY <1>2
  <2>2. ASSUME NEW x \in AnyRow PROVE (x \in Pass(q)) <=> (\A i \in DOMAIN q.predicates : x \in q.predicates[i].pass)
    BY Zenon DEF Pass
  <2>3. ASSUME NEW k \in DOMAIN a
        PROVE  (a[k] \in Pass(q)) = (\A i \in DOMAIN q.predicates : a[k] \in q.predicates[i].pass)
    <3>1. a[k] \in AnyRow
      BY <2>1, Zenon
    <3>2. (a[k] \in Pass(q)) <=> (\A i \in DOMAIN q.predicates : a[k] \in q.predicates[i].pass)
      BY <2>2, <3>1, Zenon
    <3>3. CASE a[k] \in Pass(q)
      <4>1. (a[k] \in Pass(q)) = TRUE /\ (\A i \in DOMAIN q.predicates : a[k] \in q.predicates[i].pass) = TRUE
        BY <3>2, <3>3
      <4> QED BY <4>1
    <3>4. CASE ~(a[k] \in Pass(q))
      <4>1. (a[k] \in Pass(q)) = FALSE /\ (\A i \in DOMAIN q.predicates : a[k] \in q.predicates[i].pass) = FALSE
        BY <3>2, <3>4
      <4> QED BY <4>1
    <3> QED BY <3>3, <3>4
  <2> QED BY <2>3, Zenon
<1>4. Tested(a, Pass(q)) = [k \in DOMAIN a |-> \A i \in DOMAIN q.predicates : a[k] \in q.predicates[i].pass]
  BY <1>3, Zenon DEF Tested
<1>5. a = (IF q.limit = None THEN Chosen(q.selection, RowsOf(q.file, q.groups))
           ELSE SubSeq(Chosen(q.selection, RowsOf(q.file, q.groups)), 1,
                       Lesser(q.limit, Len(Chosen(q.selection, RowsOf(q.file, q.groups))))))
  BY <1>1 DEF Ask, Take
<1>6. Expected(q) = LET passed == FilterBy(a, [k \in DOMAIN a |-> \A i \in DOMAIN q.predicates : a[k] \in q.predicates[i].pass])
                    IN [k \in DOMAIN passed |-> [i \in DOMAIN RootColumns(q.projection) |-> passed[k]]]
  BY <1>5 DEF Expected, Chosen, Bits
<1>7. Expected(q) = Tuples(q, FilterBy(a, Tested(a, Pass(q))))
  BY <1>4, <1>6 DEF Tuples
<1> QED BY <1>1, <1>7 DEF Only

\* Planning a row group splits what is asked for into its rows and the others'.
Planned(t, q, group, split, plan, left) ==
  /\ group \in DOMAIN NumRows[q.file] /\ plan \in Seq(Run) /\ Len(Bits(plan)) <= NumRows[q.file][group]
  /\ RowCount(plan) = Ones(Bits(plan)) /\ Tail(t.groups) \in Seq(DOMAIN NumRows[q.file])
  /\ Selects(split.rest, Len(RowsOf(q.file, Tail(t.groups))))
  /\ left \in Nat \cup {None} /\ (RowCount(plan) = 0 => left = t.limit)
  /\ Ask(q.file, t.groups, t.selection, t.limit)
       = FilterBy(GroupRows(q.file, group), Bits(plan)) \o Ask(q.file, Tail(t.groups), split.rest, left)
\* The plan of a row group and what is left to ask for make what was asked for.
LEMMA PlanAsk ==
  ASSUME NEW q, WellFormed(q), NEW t, TypeInv(t, q), t.groups # <<>>,
         NEW group, group = Head(t.groups), NEW split, split = SplitSelection(t, NumRows[q.file][group]),
         NEW plan, plan = Limited(t, split.first),
         NEW left, left = IF t.limit = None THEN None ELSE t.limit - RowCount(plan)
  PROVE  Planned(t, q, group, split, plan, left)
<1>1. PICK f \in Files : f = q.file
  BY DEF WellFormed
<1>2. PICK groups \in Seq(DOMAIN NumRows[f]) : groups = t.groups
  BY <1>1 DEF TypeInv
<1>3. groups # <<>>
  BY <1>2
<1>4. /\ Head(groups) \in DOMAIN NumRows[f] /\ Tail(groups) \in Seq(DOMAIN NumRows[f])
      /\ RowsOf(f, groups) = GroupRows(f, Head(groups)) \o RowsOf(f, Tail(groups))
  BY <1>3, RowsOfHead
<1>5. PICK g \in DOMAIN NumRows[f], tail \in Seq(DOMAIN NumRows[f]) : g = group /\ g = Head(groups) /\ tail = Tail(groups)
  BY <1>2, <1>4
<1>6. PICK R \in Seq(AnyRow), T \in Seq(AnyRow), rows \in Nat :
        R = GroupRows(f, g) /\ T = RowsOf(f, tail) /\ rows = Len(R) /\ rows = NumRows[f][g]
  <2>1. GroupRows(f, g) \in Seq(AnyRow) /\ Len(GroupRows(f, g)) = NumRows[f][g] /\ NumRows[f][g] \in Nat
    BY GroupRowsType
  <2>2. RowsOf(f, tail) \in Seq(AnyRow)
    BY RowsOfFlat
  <2> QED BY <2>1, <2>2
<1>7. RowsOf(f, groups) = R \o T
  BY <1>4, <1>5, <1>6
<1>8. Selects(t.selection, Len(R \o T))
  <2>1. Selects(t.selection, Len(RowsOf(f, groups)))
    BY <1>1, <1>2 DEF TypeInv
  <2> QED BY <1>7, <2>1
<1>9. split = SplitSelection(t, rows)
  BY <1>1, <1>5, <1>6
<1>10. /\ split.first \in Seq(Run) /\ Len(Bits(split.first)) <= rows
       /\ Selects(split.rest, Len(T))
       /\ Chosen(t.selection, R \o T) = FilterBy(R, Bits(split.first)) \o Chosen(split.rest, T)
  <2>1. IsSplit(t, R, T, SplitSelection(t, rows))
    BY <1>6, <1>8, SplitChosen
  <2> QED BY <1>6, <1>9, <2>1 DEF IsSplit
<1>11. PICK first \in Seq(Run) : first = split.first
  BY <1>10
<1>12. PICK U \in Seq(AnyRow) : U = Chosen(split.rest, T)
  <2>1. Selects(split.rest, Len(RowsOf(f, tail))) /\ None \in Nat \cup {None}
    BY <1>6, <1>10
  <2>2. Ask(f, tail, split.rest, None) \in Seq(AnyRow)
    BY <2>1, AskType
  <2>3. Ask(f, tail, split.rest, None) = Chosen(split.rest, T)
    BY <1>6 DEF Ask, Take
  <2> QED BY <2>2, <2>3, SMTT(40)
<1>13. t.limit \in Nat \cup {None}
  BY SMTT(40) DEF TypeInv, StreamRecord
<1>14. /\ plan \in Seq(Run) /\ Len(Bits(plan)) <= Len(R) /\ RowCount(plan) = Ones(Bits(plan))
       /\ left \in Nat \cup {None} /\ (RowCount(plan) = 0 => left = t.limit)
       /\ Take(t.limit, FilterBy(R, Bits(first)) \o U) = FilterBy(R, Bits(plan)) \o Take(left, U)
  <2>1. Len(Bits(first)) <= Len(R) /\ plan = Limited(t, first)
    BY <1>6, <1>10, <1>11
  <2>2. IsLimit(t, R, U, first, plan, left)
    BY <1>13, <2>1, LimitSplit, SMTT(40)
  <2> QED BY <2>2, ZenonT(60) DEF IsLimit
<1>15. Ask(f, groups, t.selection, t.limit) = Take(t.limit, FilterBy(R, Bits(first)) \o U)
  BY <1>7, <1>10, <1>11, <1>12 DEF Ask
<1>16. Ask(f, tail, split.rest, left) = Take(left, U)
  BY <1>6, <1>12, SMTT(40) DEF Ask
<1>17. Ask(f, groups, t.selection, t.limit) = FilterBy(GroupRows(f, g), Bits(plan)) \o Ask(f, tail, split.rest, left)
  BY <1>6, <1>14, <1>15, <1>16, ZenonT(60)
<1>18. Len(Bits(plan)) <= NumRows[f][g]
  BY <1>6, <1>14, ZenonT(60)
<1>19. Selects(split.rest, Len(RowsOf(f, tail)))
  BY <1>6, <1>10
<1> QED BY <1>1, <1>2, <1>5, <1>14, <1>17, <1>18, <1>19 DEF Planned

-----------------------------------------------------------------------------
(* Each step keeps the invariant of its stream                             *)

\* A stream does not mind that the registry and the cache grow.
LEMMA StreamStable ==
  ASSUME NEW t, NEW q, NEW o, NEW F, NEW C, NEW F2, NEW C2, StreamInv(t, q, o, F, C),
         \A l \in DOMAIN F : l \in DOMAIN F2 /\ F2[l] = F[l], DOMAIN C \subseteq DOMAIN C2
  PROVE  StreamInv(t, q, o, F2, C2)
<1>1. \A b : Held(t, q, C, b) => Held(t, q, C2, b)
  BY DEF Held
<1>2. FileInv(t, q, F2)
  BY DEF StreamInv, FileInv
<1>3. FillInv(t, q, C2)
  BY <1>1 DEF StreamInv, FillInv
<1>4. TouchInv(t, q, C2)
  BY <1>1 DEF StreamInv, TouchInv
<1>5. MaskInv(t, q, C2)
  BY <1>1 DEF StreamInv, MaskInv
<1> QED BY <1>2, <1>3, <1>4, <1>5 DEF StreamInv

\* A stream that is not running needs neither.
LEMMA StreamIdle ==
  ASSUME NEW t, NEW q, NEW o, NEW F, NEW C, NEW F2, NEW C2, StreamInv(t, q, o, F, C), t.pc \in {"new", "end"}
  PROVE  StreamInv(t, q, o, F2, C2)
<1>1. t.pc \notin Scanning /\ t.pc \notin Filling /\ t.pc \notin Reading
  BY DEF Scanning, Filling, Reading
<1> QED BY <1>1 DEF StreamInv, FileInv, FillInv, TouchInv, MaskInv

\* The queue is about rows of the row group.
LEMMA OnwardType ==
  ASSUME NEW t, NEW q, WellFormed(q), TypeInv(t, q), t.group \in DOMAIN NumRows[q.file]
  PROVE  /\ Ahead(t) \in Nat /\ Ahead(t) * BatchSize \in Nat /\ Onward(t, q) \in Seq(AnyRow)
         /\ t.queue \in Seq(Run) /\ Bits(t.queue) \in Seq(BOOLEAN)
         /\ t.mask \in Seq(BOOLEAN) /\ t.batch \in Nat
<1>1. t.queue \in Seq(Run) /\ t.mask \in Seq(BOOLEAN) /\ t.batch \in Nat
  BY DEF TypeInv, StreamRecord
<1>2. Ahead(t) \in Nat
  BY <1>1 DEF Ahead
<1>3. BatchSize \in Nat
  BY StreamAssumption
<1>4. PICK n \in Nat : n = Ahead(t) * BatchSize
  BY <1>2, <1>3, MulStep
<1>5. q.file \in Files
  BY DEF WellFormed
<1>6. PICK R \in Seq(AnyRow) : R = GroupRows(q.file, t.group)
  BY <1>5, GroupRowsType
<1>7. Drop(R, n) \in Seq(AnyRow)
  BY DropIs
<1>8. Onward(t, q) \in Seq(AnyRow)
  BY <1>4, <1>6, <1>7 DEF Onward
<1> QED BY <1>1, <1>2, <1>4, <1>8, BitsType

\* The rows of the current batch
LEMMA RowsType ==
  ASSUME NEW t, NEW q, WellFormed(q), TypeInv(t, q), t.group \in DOMAIN NumRows[q.file],
         t.batch * BatchSize < NumRows[q.file][t.group]
  PROVE  Rows(t, q) \in Seq(AnyRow)
<1>1. q.file \in Files /\ t.batch \in Nat
  BY OnwardType DEF WellFormed
<1>2. BatchRows(q.file, t.group, t.batch) \in Seq(AnyRow)
  BY <1>1, BatchRowsIs
<1> QED BY <1>2 DEF Rows

\* What is still to be handed out are rows.
LEMMA LeftType ==
  ASSUME NEW t, NEW q, WellFormed(q), TypeInv(t, q), QueueInv(t, q), NEW C, MaskInv(t, q, C)
  PROVE  Now(t, q) \in Seq(AnyRow) /\ Soon(t, q) \in Seq(AnyRow) /\ Late(t, q) \in Seq(AnyRow)
<1>1. <<>> \in Seq(AnyRow)
  OBVIOUS
<1>2. Late(t, q) \in Seq(AnyRow)
  <2>1. /\ q.file \in Files /\ t.groups \in Seq(DOMAIN NumRows[q.file]) /\ t.limit \in Nat \cup {None}
        /\ Selects(t.selection, Len(RowsOf(q.file, t.groups)))
    BY DEF WellFormed, TypeInv, StreamRecord
  <2>2. Ask(q.file, t.groups, t.selection, t.limit) \in Seq(AnyRow)
    BY <2>1, AskType
  <2> QED BY <2>2, OnlyType DEF Late
<1>3. Soon(t, q) \in Seq(AnyRow)
  <2>1. CASE t.pc \in Scanning
    <3>1. t.group \in DOMAIN NumRows[q.file] /\ Len(Bits(t.queue)) <= Len(Onward(t, q))
      BY <2>1 DEF QueueInv
    <3>2. Onward(t, q) \in Seq(AnyRow) /\ Bits(t.queue) \in Seq(BOOLEAN)
      BY <3>1, OnwardType
    <3>3. FilterBy(Onward(t, q), Bits(t.queue)) \in Seq(AnyRow)
      BY <3>1, <3>2, FilterType
    <3> QED BY <2>1, <3>3, OnlyType DEF Soon
  <2>2. CASE t.pc \notin Scanning
    BY <1>1, <2>2 DEF Soon
  <2> QED BY <2>1, <2>2
<1>4. Now(t, q) \in Seq(AnyRow)
  <2>1. CASE t.pc \in Reading
    <3>0. t.pc \in Scanning
      BY <2>1 DEF Reading, Scanning
    <3>1. t.group \in DOMAIN NumRows[q.file] /\ Len(t.mask) <= Len(Rows(t, q)) /\ t.batch * BatchSize < NumRows[q.file][t.group]
      BY <2>1, <3>0 DEF QueueInv, MaskInv
    <3>2. Rows(t, q) \in Seq(AnyRow) /\ t.mask \in Seq(BOOLEAN)
      BY <3>1, OnwardType, RowsType
    <3>3. FilterBy(Rows(t, q), t.mask) \in Seq(AnyRow)
      BY <3>1, <3>2, FilterType
    <3> QED BY <2>1, <3>3, OnlyType DEF Now
  <2>2. CASE t.pc \notin Reading
    BY <1>1, <2>2 DEF Now
  <2> QED BY <2>1, <2>2
<1> QED BY <1>2, <1>3, <1>4

\* Joining nothing
LEMMA CatNone ==
  ASSUME NEW S, NEW x \in Seq(S) PROVE Cat(<<>>, x) = x /\ Cat(x, <<>>) = x
  BY DEF Cat

\* A new stream has everything still to hand out.
LEMMA NewStream ==
  ASSUME NEW q, WellFormed(q), NEW F, NEW C, NEW t,
         t = [pc |-> "new", file |-> 0, groups |-> q.groups,
              selection |-> q.selection, limit |-> q.limit,
              group |-> 0, queue |-> <<>>, missing |-> <<>>, done |-> 0, col |-> 1,
              batch |-> 0, mask |-> <<>>, pred |-> 1, arrays |-> <<>>]
  PROVE  StreamInv(t, q, <<>>, F, C)
<1>1. /\ q.file \in Files /\ q.groups \in Seq(DOMAIN NumRows[q.file]) /\ q.limit \in Nat \cup {None}
      /\ Selects(q.selection, Len(RowsOf(q.file, q.groups)))
  BY DEF WellFormed
<1>2. q.selection \in AnySelection \cup {None}
  BY <1>1 DEF Selects
<1>3. q.groups \in Seq(Nat)
  <2>1. \A g \in DOMAIN NumRows[q.file] : g \in Nat
    BY <1>1, GroupRowsType
  <2> QED BY <1>1, <2>1
<1>4. /\ t.pc = "new" /\ t.groups = q.groups /\ t.selection = q.selection /\ t.limit = q.limit
  OBVIOUS
<1>5. t \in StreamRecord
  <2>1. "new" \in {"new", "init", "end"} \cup Scanning
    OBVIOUS
  <2>2. <<>> \in Seq(Run) /\ <<>> \in Seq(Nat) /\ <<>> \in Seq(BOOLEAN) /\ <<>> \in Seq(Seq(AnyRow))
    OBVIOUS
  <2>3. 0 \in Nat /\ 1 \in Nat
    OBVIOUS
  <2> QED BY <1>1, <1>2, <1>3, <2>1, <2>2, <2>3, Zenon DEF StreamRecord
<1>6. t.pc \notin Scanning /\ t.pc \notin Filling /\ t.pc \notin Reading /\ t.pc # "project" /\ t.pc # "end"
  BY <1>4 DEF Scanning, Filling, Reading
<1>7. TypeInv(t, q)
  BY <1>1, <1>4, <1>5, <1>6 DEF TypeInv
<1>8. Now(t, q) = <<>> /\ Soon(t, q) = <<>>
  BY <1>6 DEF Now, Soon
<1>9. PICK a : a = Ask(q.file, q.groups, q.selection, q.limit)
  OBVIOUS
<1>10. a \in Seq(AnyRow)
  BY <1>1, <1>9, AskType
<1>11. PICK l \in Seq(AnyRow) : l = Only(a, Pass(q))
  BY <1>10, OnlyType
<1>12. Late(t, q) = l
  BY <1>4, <1>9, <1>11 DEF Late
<1>13. Left(t, q) = l
  BY <1>8, <1>12, CatNone DEF Left
<1>14. Expected(q) = Tuples(q, l)
  BY <1>9, <1>11, ExpectedIs
<1>15. Tuples(q, l) \in Seq(Tuple(q))
  BY TuplesType
<1>16. PICK e \in Seq(Tuple(q)) : e = Tuples(q, l)
  BY <1>15
<1>17. Cat(<<>>, e) = e
  BY CatNone
<1>18. <<>> \in Seq(Tuple(q))
  OBVIOUS
<1>19. OutInv(t, q, <<>>)
  BY <1>13, <1>14, <1>16, <1>17, <1>18 DEF OutInv
<1> HIDE DEF Filling, Reading, Scanning
<1> QED BY <1>4, <1>6, <1>7, <1>19 DEF StreamInv, FileInv, QueueInv, FillInv, TouchInv, MaskInv, ArrayInv

\* between row groups
Outside(t) == t.pc \notin Scanning /\ t.pc \notin Filling /\ t.pc \notin Reading /\ t.pc # "project"

\* Open
Opening(t, id) == [t EXCEPT !.pc = "init", !.file = id]

\* LiquidParquetOpener::open
LEMMA OpenStream ==
  ASSUME NEW q, WellFormed(q), NEW F, NEW F2, NEW C, NEW o, NEW t, StreamInv(t, q, o, F, C), t.pc = "new",
         NEW id \in Nat, Location[q.file] \in DOMAIN F2, F2[Location[q.file]] = id,
         NEW t2, t2 = Opening(t, id)
  PROVE  StreamInv(t2, q, o, F2, C)
<1>1. TypeInv(t, q) /\ OutInv(t, q, o) /\ t \in StreamRecord
  BY DEF StreamInv, TypeInv
<1>2. /\ t2.pc = "init" /\ t2.file = id /\ t2.groups = t.groups /\ t2.selection = t.selection /\ t2.limit = t.limit
      /\ t2 \in StreamRecord
  <2>1. "init" \in {"new", "init", "end"} \cup Scanning
    OBVIOUS
  <2> QED BY <1>1, <2>1 DEF StreamRecord, Opening
<1>3. Outside(t2) /\ Outside(t) /\ t2.pc # "end"
  BY <1>2 DEF Outside, Scanning, Filling, Reading
<1>4. TypeInv(t2, q)
  BY <1>1, <1>2, <1>3 DEF TypeInv
<1>5. Now(t2, q) = Now(t, q) /\ Soon(t2, q) = Soon(t, q)
  BY <1>3 DEF Now, Soon, Outside
<1>6. Late(t2, q) = Late(t, q)
  BY <1>2 DEF Late
<1>7. OutInv(t2, q, o)
  BY <1>1, <1>5, <1>6 DEF OutInv, Left
<1>8. FileInv(t2, q, F2)
  BY <1>2 DEF FileInv
<1> QED BY <1>3, <1>4, <1>7, <1>8 DEF StreamInv, Outside, QueueInv, FillInv, TouchInv, MaskInv, ArrayInv

\* no row group is left
Ending(t) == [t EXCEPT !.pc = "end"]

\* Ready(None): no row group is left.
LEMMA EndStream ==
  ASSUME NEW q, WellFormed(q), NEW F, NEW C, NEW o, NEW t, StreamInv(t, q, o, F, C), t.pc = "init", t.groups = <<>>,
         NEW t2, t2 = Ending(t)
  PROVE  StreamInv(t2, q, o, F, C)
<1>1. TypeInv(t, q) /\ OutInv(t, q, o) /\ t \in StreamRecord
  BY DEF StreamInv, TypeInv
<1>2. /\ t2.pc = "end" /\ t2.groups = t.groups /\ t2.selection = t.selection /\ t2.limit = t.limit
      /\ t2 \in StreamRecord
  <2>1. "end" \in {"new", "init", "end"} \cup Scanning
    OBVIOUS
  <2> QED BY <1>1, <2>1 DEF StreamRecord, Ending
<1>3. Outside(t2) /\ Outside(t)
  BY <1>2 DEF Outside, Scanning, Filling, Reading
<1>4. TypeInv(t2, q)
  BY <1>1, <1>2, <1>3 DEF TypeInv
<1>5. Now(t2, q) = Now(t, q) /\ Soon(t2, q) = Soon(t, q)
  BY <1>3 DEF Now, Soon, Outside
<1>6. Late(t2, q) = Late(t, q)
  BY <1>2 DEF Late
<1>7. OutInv(t2, q, o)
  BY <1>1, <1>5, <1>6 DEF OutInv, Left
<1>8. FileInv(t2, q, F)
  BY <1>2 DEF FileInv
<1> QED BY <1>3, <1>4, <1>7, <1>8 DEF StreamInv, Outside, QueueInv, FillInv, TouchInv, MaskInv, ArrayInv

\* a row group of which no row is selected
Skipping(t, rest) == [t EXCEPT !.groups = Tail(@), !.selection = rest]

\* A row group of which nothing is selected is passed over.
LEMMA SkipGroup ==
  ASSUME NEW q, WellFormed(q), NEW F, NEW C, NEW o, NEW t, StreamInv(t, q, o, F, C), t.pc = "init",
         NEW group, NEW split, NEW plan, NEW left, Planned(t, q, group, split, plan, left), RowCount(plan) = 0,
         NEW t2, t2 = Skipping(t, split.rest)
  PROVE  StreamInv(t2, q, o, F, C)
<1>1. TypeInv(t, q) /\ OutInv(t, q, o) /\ FileInv(t, q, F) /\ t \in StreamRecord
  BY DEF StreamInv, TypeInv
<1>2. q.file \in Files
  BY DEF WellFormed
<1>3. /\ Tail(t.groups) \in Seq(DOMAIN NumRows[q.file]) /\ Selects(split.rest, Len(RowsOf(q.file, Tail(t.groups))))
      /\ group \in DOMAIN NumRows[q.file] /\ plan \in Seq(Run) /\ left = t.limit
      /\ Ones(Bits(plan)) = 0 /\ Len(Bits(plan)) <= NumRows[q.file][group]
  BY DEF Planned
<1>4. Tail(t.groups) \in Seq(Nat) /\ split.rest \in AnySelection \cup {None}
  <2>1. \A g \in DOMAIN NumRows[q.file] : g \in Nat
    BY <1>2, GroupRowsType
  <2>3. PICK tail \in Seq(DOMAIN NumRows[q.file]) : tail = Tail(t.groups)
    BY <1>3
  <2>4. tail \in Seq(Nat)
    BY <2>1
  <2>2. Tail(t.groups) \in Seq(Nat)
    BY <2>3, <2>4
  <2> QED BY <1>3, <2>2 DEF Selects
<1>5. /\ t2.pc = "init" /\ t2.file = t.file /\ t2.groups = Tail(t.groups) /\ t2.selection = split.rest /\ t2.limit = t.limit
      /\ t2 \in StreamRecord
  BY <1>1, <1>4 DEF StreamRecord, Skipping
<1>6. Outside(t2) /\ Outside(t) /\ t2.pc # "end"
  BY <1>5 DEF Outside, Scanning, Filling, Reading
<1>7. TypeInv(t2, q)
  BY <1>3, <1>5, <1>6 DEF TypeInv
<1>8. Now(t2, q) = Now(t, q) /\ Soon(t2, q) = Soon(t, q)
  BY <1>6 DEF Now, Soon, Outside
<1>9. PICK R \in Seq(AnyRow), B \in Seq(BOOLEAN) : R = GroupRows(q.file, group) /\ B = Bits(plan)
  BY <1>2, <1>3, GroupRowsType, BitsType
<1>10. Len(B) <= Len(R) /\ Ones(B) = 0
  BY <1>2, <1>3, <1>9, GroupRowsType
<1>11. FilterBy(R, B) = <<>>
  <2>1. FilterBy(R, B) \in Seq(AnyRow) /\ Len(FilterBy(R, B)) = 0
    BY <1>10, FilterType, FilterLen
  <2> QED BY <2>1
<1>12. PICK a \in Seq(AnyRow) : a = Ask(q.file, Tail(t.groups), split.rest, left)
  <2>1. left \in Nat \cup {None}
    BY DEF Planned
  <2> QED BY <1>2, <1>3, <2>1, AskType
<1>13. Ask(q.file, t.groups, t.selection, t.limit) = a
  <2>1. Ask(q.file, t.groups, t.selection, t.limit) = <<>> \o a
    BY <1>9, <1>11, <1>12 DEF Planned
  <2>2. <<>> \o a = a
    OBVIOUS
  <2> QED BY <2>1, <2>2
<1>14. Late(t2, q) = Late(t, q)
  BY <1>3, <1>5, <1>12, <1>13 DEF Late
<1>15. OutInv(t2, q, o)
  BY <1>1, <1>8, <1>14 DEF OutInv, Left
<1>16. FileInv(t2, q, F)
  BY <1>1, <1>5 DEF FileInv
<1> QED BY <1>6, <1>7, <1>15, <1>16 DEF StreamInv, Outside, QueueInv, FillInv, TouchInv, MaskInv, ArrayInv

\* A row is in one batch.
LEMMA HasRowUnique ==
  ASSUME NEW a \in Nat, NEW b \in Nat, NEW size \in Nat, NEW r \in Nat, HasRow(a, size, r), HasRow(b, size, r)
  PROVE  a = b
<1>1. PICK p \in Nat, q \in Nat : p = a * size /\ q = b * size
  BY MulStep
<1>2. p < r /\ r <= p + size /\ q < r /\ r <= q + size
  BY <1>1, Zenon DEF HasRow
<1>3. CASE a < b
  <2>1. a * size + size <= b * size
    BY <1>3, MulMono
  <2>2. p + size <= q
    BY <1>1, <2>1, Zenon
  <2> QED BY <1>2, <2>2
<1>4. CASE b < a
  <2>1. b * size + size <= a * size
    BY <1>4, MulMono
  <2>2. q + size <= p
    BY <1>1, <2>1, Zenon
  <2> QED BY <1>2, <2>2
<1> QED BY <1>3, <1>4

\* the batches of w that miss some column
Uncached(w, file, group, cols, C) ==
  [k \in DOMAIN w |-> \E i \in DOMAIN cols : ~(EntryId(file, group, cols[i], w[k]) \in DOMAIN C)]
\* the batches to fill in are in order, and a selected row is in one of them or cached
Lacking(missing, plan, file, group, cols, rows, C) ==
  /\ Batches(missing, BatchSize, rows)
  /\ missing # <<>> => 1 \in DOMAIN cols
  /\ \A b \in Nat : \A r \in SetBits(Bits(plan)) : HasRow(b, BatchSize, r) =>
       \/ \A i \in DOMAIN cols : EntryId(file, group, cols[i], b) \in DOMAIN C
       \/ \E k \in DOMAIN missing : missing[k] = b

\* compute_missing_batches
LEMMA MissingIs ==
  ASSUME NEW f \in Files, NEW group \in DOMAIN NumRows[f], NEW rows, rows = NumRows[f][group],
         NEW plan \in Seq(Run), Len(Bits(plan)) <= rows, NEW cols \in Seq(Nat), NEW file, NEW C,
         NEW w, w = CollectSelectionBatches(plan, BatchSize, rows)
  PROVE  Lacking(FilterBy(w, Uncached(w, file, group, cols, C)), plan, file, group, cols, rows, C)
<1>1. BatchSize \in Nat \ {0}
  BY StreamAssumption
<1>2. rows \in Nat /\ rows <= Field * BatchSize
  BY GroupRowsType
<1>3. /\ w \in Seq(Nat) /\ Increasing(w)
      /\ \A k \in DOMAIN w : w[k] * BatchSize < rows
      /\ \A r \in SetBits(Bits(plan)) : \E k \in DOMAIN w : HasRow(w[k], BatchSize, r)
  BY <1>1, <1>2, CollectIs
<1>4. PICK u \in Seq(Nat) : u = w
  BY <1>3
<1>5. PICK n \in Nat : n = Len(u) /\ DOMAIN u = 1 .. n
  OBVIOUS
<1>6. PICK bits : bits = Uncached(u, file, group, cols, C)
  OBVIOUS
<1>7. /\ bits \in [1 .. n -> BOOLEAN]
      /\ \A k \in 1 .. n : bits[k] <=> \E i \in DOMAIN cols : ~(EntryId(file, group, cols[i], u[k]) \in DOMAIN C)
  BY <1>5, <1>6, Zenon DEF Uncached
<1>8. bits \in Seq(BOOLEAN) /\ Len(bits) = Len(u)
  <2>1. bits \in [1 .. n -> BOOLEAN]
    BY <1>7
  <2>2. bits \in Seq(BOOLEAN) /\ Len(bits) = n
    BY <2>1
  <2> QED BY <1>5, <2>2
<1>9. Increasing(u)
  BY <1>3, <1>4
<1>10. Sifted(FilterBy(u, bits), u, bits)
  BY <1>8, <1>9, FilterKeeps
<1>11. PICK v : v = FilterBy(u, bits)
  OBVIOUS
<1>12. /\ v \in Seq(Nat) /\ Increasing(v)
       /\ \A k \in DOMAIN v : \E i \in DOMAIN u : bits[i] /\ v[k] = u[i]
       /\ \A i \in DOMAIN u : bits[i] => \E k \in DOMAIN v : v[k] = u[i]
  BY <1>10, <1>11 DEF Sifted
<1>13. Batches(v, BatchSize, rows)
  <2>1. ASSUME NEW k \in DOMAIN v PROVE v[k] * BatchSize < rows
    <3>1. PICK i \in DOMAIN u : v[k] = u[i]
      BY <1>12
    <3>2. u[i] * BatchSize < rows
      BY <1>3, <1>4, Zenon
    <3> QED BY <3>1, <3>2, Zenon
  <2> QED BY <1>12, <2>1 DEF Batches
<1>14. ASSUME v # <<>> PROVE 1 \in DOMAIN cols
  <2>1. 1 \in DOMAIN v
    BY <1>12, <1>14
  <2>2. PICK i \in DOMAIN u : bits[i]
    BY <1>12, <2>1
  <2>3. PICK j \in DOMAIN cols : TRUE
    BY <1>5, <1>7, <2>2
  <2> QED BY <2>3
<1>15. ASSUME NEW b \in Nat, NEW r \in SetBits(Bits(plan)), HasRow(b, BatchSize, r)
       PROVE  \/ \A i \in DOMAIN cols : EntryId(file, group, cols[i], b) \in DOMAIN C
              \/ \E k \in DOMAIN v : v[k] = b
  <2>1. PICK k \in DOMAIN u : HasRow(u[k], BatchSize, r)
    BY <1>3, <1>4
  <2>2. u[k] \in Nat /\ r \in Nat
    BY BitsType DEF SetBits
  <2>3. u[k] = b
    BY <1>1, <1>15, <2>1, <2>2, HasRowUnique
  <2>4. CASE bits[k]
    BY <1>12, <2>3, <2>4
  <2>5. CASE ~bits[k]
    BY <1>5, <1>7, <2>3, <2>5
  <2> QED BY <2>4, <2>5
<1> QED BY <1>4, <1>6, <1>11, <1>13, <1>14, <1>15 DEF Lacking

\* The record of a stream that has planned a row group
LEMMA PlanRecord ==
  ASSUME NEW t \in StreamRecord, NEW pc \in {"new", "init", "end"} \cup Scanning, NEW left \in Nat \cup {None},
         NEW group \in Nat, NEW plan \in Seq(Run), NEW missing \in Seq(Nat)
  PROVE  [t EXCEPT !.pc = pc, !.limit = left, !.group = group, !.queue = plan, !.missing = missing,
                   !.done = 0, !.col = 1, !.batch = 0] \in StreamRecord
  BY DEF StreamRecord

\* a row group is planned
Planning(t, rest, group, plan, missing) == [[t EXCEPT !.groups = Tail(@), !.selection = rest] EXCEPT
            !.pc = IF missing = <<>> THEN "read" ELSE "fill",
            !.limit = IF @ = None THEN None ELSE @ - RowCount(plan),
            !.group = group, !.queue = plan, !.missing = missing,
            !.done = 0, !.col = 1, !.batch = 0]
\* plan_row_group
LEMMA PlanGroup ==
  ASSUME NEW q, WellFormed(q), NEW F, NEW C, NEW o, NEW t, StreamInv(t, q, o, F, C), t.pc = "init",
         NEW group, NEW split, NEW plan, NEW left, Planned(t, q, group, split, plan, left),
         left = IF t.limit = None THEN None ELSE t.limit - RowCount(plan),
         NEW missing, Lacking(missing, plan, t.file, group, Cols(q), NumRows[q.file][group], C),
         NEW t2, t2 = Planning(t, split.rest, group, plan, missing)
  PROVE  StreamInv(t2, q, o, F, C)
<1>1. TypeInv(t, q) /\ OutInv(t, q, o) /\ FileInv(t, q, F) /\ t \in StreamRecord
  BY DEF StreamInv, TypeInv
<1>2. q.file \in Files
  BY DEF WellFormed
<1>3. /\ Tail(t.groups) \in Seq(DOMAIN NumRows[q.file]) /\ Selects(split.rest, Len(RowsOf(q.file, Tail(t.groups))))
      /\ group \in DOMAIN NumRows[q.file] /\ plan \in Seq(Run) /\ left \in Nat \cup {None}
      /\ Len(Bits(plan)) <= NumRows[q.file][group]
  BY DEF Planned
<1>4. Tail(t.groups) \in Seq(Nat) /\ split.rest \in AnySelection \cup {None} /\ group \in Nat
  <2>1. \A g \in DOMAIN NumRows[q.file] : g \in Nat
    BY <1>2, GroupRowsType
  <2>3. PICK tail \in Seq(DOMAIN NumRows[q.file]) : tail = Tail(t.groups)
    BY <1>3
  <2>4. tail \in Seq(Nat)
    BY <2>1
  <2>2. Tail(t.groups) \in Seq(Nat)
    BY <2>3, <2>4
  <2> QED BY <1>3, <2>1, <2>2 DEF Selects
<1>5. Batches(missing, BatchSize, NumRows[q.file][group]) /\ missing \in Seq(Nat) /\ (missing # <<>> => 1 \in DOMAIN Cols(q))
  BY DEF Lacking, Batches
<1>6. PICK pc \in {"read", "fill"} : pc = IF missing = <<>> THEN "read" ELSE "fill"
  OBVIOUS
<1>7. /\ t2.pc = pc /\ t2.file = t.file /\ t2.groups = Tail(t.groups) /\ t2.selection = split.rest /\ t2.limit = left
      /\ t2.group = group /\ t2.queue = plan /\ t2.missing = missing /\ t2.done = 0 /\ t2.col = 1 /\ t2.batch = 0
  BY <1>1, <1>6 DEF StreamRecord, Planning
<1>8. t2 \in StreamRecord
  <2>1. pc \in {"new", "init", "end"} \cup Scanning
    BY DEF Scanning
  <2>2. (IF t.limit = None THEN None ELSE t.limit - RowCount(plan)) \in Nat \cup {None}
    BY <1>3
  <2>3. PICK tail \in Seq(Nat), rest \in AnySelection \cup {None} : tail = Tail(t.groups) /\ rest = split.rest
    BY <1>4
  <2>4. PICK t1 : t1 = [t EXCEPT !.groups = tail, !.selection = rest]
    OBVIOUS
  <2>5. t1 \in StreamRecord /\ t1.limit = t.limit
    BY <1>1, <2>4 DEF StreamRecord
  <2>6. t2 = [t1 EXCEPT !.pc = pc, !.limit = left, !.group = group, !.queue = plan, !.missing = missing,
                        !.done = 0, !.col = 1, !.batch = 0]
    BY <1>6, <2>3, <2>4, <2>5 DEF Planning
  <2>7. [t1 EXCEPT !.pc = pc, !.limit = left, !.group = group, !.queue = plan, !.missing = missing,
                   !.done = 0, !.col = 1, !.batch = 0] \in StreamRecord
    BY <1>3, <1>4, <1>5, <2>1, <2>5, PlanRecord, ZenonT(60)
  <2> QED BY <2>6, <2>7
<1>9. /\ t2.pc \in Scanning /\ t2.pc \notin Reading /\ t2.pc # "project" /\ t2.pc # "end" /\ t2.pc # "insert"
      /\ (t2.pc \in Filling <=> missing # <<>>)
      /\ t.pc \notin Scanning /\ t.pc \notin Reading
  BY <1>6, <1>7 DEF Scanning, Reading, Filling
<1>10. TypeInv(t2, q)
  BY <1>3, <1>7, <1>8, <1>9 DEF TypeInv
<1>11. FileInv(t2, q, F)
  BY <1>1, <1>7 DEF FileInv
<1>12. PICK R \in Seq(AnyRow), B \in Seq(BOOLEAN) : R = GroupRows(q.file, group) /\ B = Bits(plan)
  BY <1>2, <1>3, GroupRowsType, BitsType
<1>13. Len(B) <= Len(R)
  BY <1>2, <1>3, <1>12, GroupRowsType
<1>14. Ahead(t2) = 0 /\ 0 * BatchSize = 0
  <2>1. BatchSize \in Nat
    BY StreamAssumption
  <2> QED BY <1>7, <1>9, <2>1, MulStep DEF Ahead
<1>15. Onward(t2, q) = R
  <2>1. Onward(t2, q) = Drop(R, 0)
    BY <1>7, <1>12, <1>14 DEF Onward
  <2>2. Drop(R, 0) = SubSeq(R, 1, Len(R))
    BY DEF Drop
  <2> QED BY <2>1, <2>2, SubSeqFull
<1>16. QueueInv(t2, q)
  BY <1>3, <1>7, <1>12, <1>13, <1>15 DEF QueueInv
<1>17. FillInv(t2, q, C)
  <2>1. ASSUME t2.pc \in Filling PROVE t2.col \in DOMAIN Cols(q) /\ t2.done < Len(t2.missing) /\ t2.done <= Len(t2.missing)
    <3>1. missing # <<>>
      BY <1>9, <2>1
    <3>2. 0 < Len(missing)
      BY <1>5, <3>1
    <3> QED BY <1>5, <1>7, <3>1, <3>2
  <2>2. 1 .. t2.done = {} /\ 1 .. t2.col - 1 = {}
    BY <1>7
  <2> QED BY <1>5, <1>7, <1>9, <2>1, <2>2 DEF FillInv
<1>18. TouchInv(t2, q, C)
  <2> SUFFICES ASSUME NEW b \in Nat, NEW r \in SetBits(Bits(t2.queue)), HasRow(b, BatchSize, Ahead(t2) * BatchSize + r)
               PROVE  \/ Held(t2, q, C, b)
                      \/ t2.pc \in Filling /\ \E k \in DOMAIN t2.missing : t2.missing[k] = b
    BY DEF TouchInv
  <2>1. r \in Nat
    BY <1>7, <1>12 DEF SetBits
  <2>2. Ahead(t2) * BatchSize + r = r
    BY <1>14, <2>1
  <2>3. HasRow(b, BatchSize, r) /\ r \in SetBits(Bits(plan))
    BY <1>7, <2>2
  <2>4. CASE \A i \in DOMAIN Cols(q) : EntryId(t.file, group, Cols(q)[i], b) \in DOMAIN C
    BY <1>7, <2>4 DEF Held
  <2>5. CASE \E k \in DOMAIN missing : missing[k] = b
    <3>1. missing # <<>>
      BY <2>5
    <3> QED BY <1>7, <1>9, <2>5, <3>1
  <2> QED BY <2>3, <2>4, <2>5 DEF Lacking
<1>19. OutInv(t2, q, o)
  <2>1. Now(t2, q) = <<>> /\ Now(t, q) = <<>> /\ Soon(t, q) = <<>>
    BY <1>9 DEF Now, Soon
  <2>2. PICK a \in Seq(AnyRow) : a = Ask(q.file, Tail(t.groups), split.rest, left)
    BY <1>2, <1>3, AskType
  <2>3. PICK x \in Seq(AnyRow) : x = FilterBy(R, B)
    BY <1>13, FilterType
  <2>4. Ask(q.file, t.groups, t.selection, t.limit) = x \o a
    BY <1>12, <2>2, <2>3 DEF Planned
  <2>5. Only(x \o a, Pass(q)) = Only(x, Pass(q)) \o Only(a, Pass(q))
    BY OnlyConcat
  <2>6. Late(t, q) = Cat(Only(x, Pass(q)), Only(a, Pass(q)))
    BY <2>4, <2>5 DEF Late, Cat
  <2>7. Soon(t2, q) = Only(x, Pass(q)) /\ Late(t2, q) = Only(a, Pass(q))
    BY <1>7, <1>9, <1>12, <1>15, <2>2, <2>3 DEF Soon, Late
  <2>8. Cat(Soon(t2, q), Late(t2, q)) = Late(t, q)
    BY <2>6, <2>7
  <2>9. PICK l \in Seq(AnyRow) : l = Late(t, q)
    BY LeftType DEF StreamInv
  <2>10. Cat(<<>>, l) = l
    BY CatNone
  <2>11. Left(t2, q) = Left(t, q)
    BY <2>1, <2>8, <2>9, <2>10 DEF Left
  <2> QED BY <1>1, <2>11 DEF OutInv
<1>20. MaskInv(t2, q, C) /\ ArrayInv(t2, q)
  BY <1>9 DEF MaskInv, ArrayInv
<1> QED BY <1>10, <1>11, <1>16, <1>17, <1>18, <1>19, <1>20 DEF StreamInv

-----------------------------------------------------------------------------
(* fill_cache_from_parquet                                                 *)

\* the fields that say what is still to be read
Alike(t, t2) ==
  /\ t2.file = t.file /\ t2.groups = t.groups /\ t2.selection = t.selection /\ t2.limit = t.limit
  /\ t2.group = t.group /\ t2.queue = t.queue /\ t2.batch = t.batch
\* the invariant of a stream but for what concerns filling
Inner(t, q, o, F, C) ==
  TypeInv(t, q) /\ FileInv(t, q, F) /\ QueueInv(t, q) /\ MaskInv(t, q, C) /\ ArrayInv(t, q) /\ OutInv(t, q, o)

\* While the cache is filled nothing changes in what is still to be read.
LEMMA FillMoves ==
  ASSUME NEW q, WellFormed(q), NEW F, NEW C, NEW o, NEW t, StreamInv(t, q, o, F, C), t.pc \in {"fill", "insert"},
         NEW t2 \in StreamRecord, Alike(t, t2), t2.pc \in {"fill", "insert", "read"}
  PROVE  /\ Inner(t2, q, o, F, C) /\ Ahead(t2) = Ahead(t)
         /\ \A b : Held(t2, q, C, b) <=> Held(t, q, C, b)
<1>1. TypeInv(t, q) /\ OutInv(t, q, o) /\ FileInv(t, q, F) /\ QueueInv(t, q)
  BY DEF StreamInv
<1>2. /\ t.pc \in Scanning /\ t.pc \notin Reading /\ t2.pc \in Scanning /\ t2.pc \notin Reading
      /\ t2.pc # "project" /\ t2.pc # "end" /\ t2.pc # "new" /\ t.pc # "end" /\ t.pc # "new"
  BY DEF Scanning, Reading
<1>3. TypeInv(t2, q)
  BY <1>1, <1>2 DEF TypeInv, Alike
<1>4. Ahead(t2) = Ahead(t)
  BY <1>2 DEF Ahead, Alike
<1>5. Onward(t2, q) = Onward(t, q)
  BY <1>4 DEF Onward, Alike
<1>6. QueueInv(t2, q)
  BY <1>1, <1>2, <1>5 DEF QueueInv, Alike
<1>7. FileInv(t2, q, F)
  BY <1>1, <1>2 DEF FileInv, Alike
<1>8. MaskInv(t2, q, C) /\ ArrayInv(t2, q)
  BY <1>2 DEF MaskInv, ArrayInv
<1>9. Now(t2, q) = Now(t, q)
  BY <1>2 DEF Now
<1>10. Soon(t2, q) = Soon(t, q)
  BY <1>2, <1>5 DEF Soon, Alike
<1>11. Late(t2, q) = Late(t, q)
  BY DEF Late, Alike
<1>12. OutInv(t2, q, o)
  BY <1>1, <1>9, <1>10, <1>11 DEF OutInv, Left
<1>13. \A b : Held(t2, q, C, b) <=> Held(t, q, C, b)
  BY DEF Held, Alike
<1> QED BY <1>3, <1>4, <1>6, <1>7, <1>8, <1>12, <1>13 DEF Inner

\* every missing batch is cached
Filled(t) == [t EXCEPT !.pc = "read"]

\* All the missing batches are filled in.
LEMMA FillEnds ==
  ASSUME NEW q, WellFormed(q), NEW F, NEW C, NEW o, NEW t, StreamInv(t, q, o, F, C), t.pc = "fill",
         t.done = Len(t.missing), NEW t2, t2 = Filled(t)
  PROVE  StreamInv(t2, q, o, F, C)
<1>1. t \in StreamRecord /\ FillInv(t, q, C) /\ TouchInv(t, q, C)
  BY DEF StreamInv, TypeInv
<1>2. t2 \in StreamRecord /\ Alike(t, t2) /\ t2.pc = "read"
  BY <1>1 DEF StreamRecord, Alike, Scanning, Filled
<1>3. Inner(t2, q, o, F, C) /\ Ahead(t2) = Ahead(t) /\ \A b : Held(t2, q, C, b) <=> Held(t, q, C, b)
  <2>1. t.pc \in {"fill", "insert"} /\ t2.pc \in {"fill", "insert", "read"}
    BY <1>2
  <2> QED BY <1>2, <2>1, FillMoves
<1>4. t.pc \in Scanning /\ t.pc \in Filling /\ t2.pc \notin Filling
  BY <1>2 DEF Scanning, Filling
<1>5. FillInv(t2, q, C)
  BY <1>4 DEF FillInv
<1>6. \A k \in DOMAIN t.missing : Held(t, q, C, t.missing[k])
  <2>1. DOMAIN t.missing = 1 .. t.done
    BY <1>1 DEF StreamRecord
  <2> QED BY <1>1, <1>4, <2>1 DEF FillInv
<1>7. TouchInv(t2, q, C)
  <2> SUFFICES ASSUME NEW b \in Nat, NEW r \in SetBits(Bits(t2.queue)), HasRow(b, BatchSize, Ahead(t2) * BatchSize + r)
               PROVE  Held(t2, q, C, b)
    BY DEF TouchInv
  <2>1. t2.queue = t.queue
    BY <1>2 DEF Alike
  <2>2. Held(t, q, C, b) \/ \E k \in DOMAIN t.missing : t.missing[k] = b
    BY <1>1, <1>3, <1>4, <2>1 DEF TouchInv
  <2> QED BY <1>3, <1>6, <2>2
<1> QED BY <1>3, <1>5, <1>7 DEF StreamInv, Inner

\* a column of a batch is about to be inserted
Inserting(t) == [t EXCEPT !.pc = "insert"]

\* CachedColumn::insert found the entry missing.
LEMMA FillMisses ==
  ASSUME NEW q, WellFormed(q), NEW F, NEW C, NEW o, NEW t, StreamInv(t, q, o, F, C), t.pc = "fill",
         t.done < Len(t.missing), NEW t2, t2 = Inserting(t)
  PROVE  StreamInv(t2, q, o, F, C)
<1>1. t \in StreamRecord /\ FillInv(t, q, C) /\ TouchInv(t, q, C)
  BY DEF StreamInv, TypeInv
<1>2. /\ t2 \in StreamRecord /\ Alike(t, t2) /\ t2.pc = "insert"
      /\ t2.missing = t.missing /\ t2.done = t.done /\ t2.col = t.col
  BY <1>1 DEF StreamRecord, Alike, Scanning, Inserting
<1>3. Inner(t2, q, o, F, C) /\ Ahead(t2) = Ahead(t) /\ \A b : Held(t2, q, C, b) <=> Held(t, q, C, b)
  <2>1. t.pc \in {"fill", "insert"} /\ t2.pc \in {"fill", "insert", "read"}
    BY <1>2
  <2> QED BY <1>2, <2>1, FillMoves
<1>4. t.pc \in Scanning /\ t.pc \in Filling /\ t2.pc \in Filling /\ t2.pc \in Scanning
  BY <1>2 DEF Scanning, Filling
<1>5. FillInv(t2, q, C)
  BY <1>1, <1>2, <1>3, <1>4 DEF FillInv, Alike
<1>6. TouchInv(t2, q, C)
  BY <1>1, <1>2, <1>3, <1>4 DEF TouchInv, Alike
<1> QED BY <1>3, <1>5, <1>6 DEF StreamInv, Inner

\* the next column of a batch, or the next batch
Forward(t, q) ==
  IF t.col < Len(Cols(q)) THEN [t EXCEPT !.pc = "fill", !.col = @ + 1]
  ELSE [t EXCEPT !.pc = "fill", !.col = 1, !.done = @ + 1]

\* The column of the batch is cached: on to the next one.
LEMMA FillNext ==
  ASSUME NEW q, WellFormed(q), NEW F, NEW C, NEW o, NEW t, StreamInv(t, q, o, F, C), t.pc \in Filling,
         t.done < Len(t.missing), EntryId(t.file, t.group, Cols(q)[t.col], t.missing[t.done + 1]) \in DOMAIN C,
         NEW t2, t2 = Forward(t, q)
  PROVE  StreamInv(t2, q, o, F, C)
<1>1. t \in StreamRecord /\ FillInv(t, q, C) /\ TouchInv(t, q, C)
  BY DEF StreamInv, TypeInv
<1>2. t.col \in Nat /\ t.done \in Nat /\ t.missing \in Seq(Nat)
  BY <1>1 DEF StreamRecord
<1>3. PICK n \in Nat : n = Len(Cols(q)) /\ DOMAIN Cols(q) = 1 .. n
  <2>1. Cols(q) \in Seq(Nat)
    BY ColsIs
  <2> QED BY <2>1
<1>4. /\ t2 \in StreamRecord /\ Alike(t, t2) /\ t2.pc = "fill" /\ t2.missing = t.missing
      /\ t2.col = (IF t.col < n THEN t.col + 1 ELSE 1) /\ t2.done = (IF t.col < n THEN t.done ELSE t.done + 1)
  <2>0. "fill" \in {"new", "init", "end"} \cup Scanning /\ t.col + 1 \in Nat /\ t.done + 1 \in Nat /\ 1 \in Nat
    BY <1>2 DEF Scanning
  <2>1. CASE t.col < n
    <3>1. t2 = [t EXCEPT !.pc = "fill", !.col = t.col + 1]
      BY <1>3, <2>1 DEF Forward
    <3>2. t2 \in StreamRecord /\ Alike(t, t2) /\ t2.pc = "fill" /\ t2.missing = t.missing /\ t2.col = t.col + 1 /\ t2.done = t.done
      BY <1>1, <2>0, <3>1 DEF StreamRecord, Alike
    <3> QED BY <2>1, <3>2
  <2>2. CASE ~(t.col < n)
    <3>1. t2 = [t EXCEPT !.pc = "fill", !.col = 1, !.done = t.done + 1]
      BY <1>3, <2>2 DEF Forward
    <3>2. t2 \in StreamRecord /\ Alike(t, t2) /\ t2.pc = "fill" /\ t2.missing = t.missing /\ t2.col = 1 /\ t2.done = t.done + 1
      BY <1>1, <2>0, <3>1 DEF StreamRecord, Alike
    <3> QED BY <2>2, <3>2
  <2> QED BY <2>1, <2>2
<1>5. Inner(t2, q, o, F, C) /\ Ahead(t2) = Ahead(t) /\ \A b : Held(t2, q, C, b) <=> Held(t, q, C, b)
  BY <1>4, FillMoves DEF Filling
<1>6. t.pc \in Scanning /\ t2.pc \in Filling /\ t2.pc \in Scanning /\ t2.pc # "insert"
  BY <1>4 DEF Scanning, Filling
<1>7. /\ t.batch = 0 /\ Batches(t.missing, BatchSize, NumRows[q.file][t.group]) /\ t.col \in 1 .. n
      /\ \A k \in 1 .. t.done : Held(t, q, C, t.missing[k])
      /\ \A i \in 1 .. t.col - 1 : EntryId(t.file, t.group, Cols(q)[i], t.missing[t.done + 1]) \in DOMAIN C
  BY <1>1, <1>3 DEF FillInv
<1>8. \A i \in 1 .. t.col : EntryId(t.file, t.group, Cols(q)[i], t.missing[t.done + 1]) \in DOMAIN C
  <2>1. \A i \in 1 .. t.col : i \in 1 .. t.col - 1 \/ i = t.col
    BY <1>2
  <2> QED BY <1>7, <2>1
<1>9. /\ t2.done <= Len(t2.missing) /\ t2.col \in 1 .. n
      /\ \A k \in 1 .. t2.done : Held(t, q, C, t.missing[k])
      /\ t2.done < Len(t.missing) =>
           \A i \in 1 .. t2.col - 1 : EntryId(t.file, t.group, Cols(q)[i], t.missing[t2.done + 1]) \in DOMAIN C
  <2>1. CASE t.col < n
    <3>1. t2.col = t.col + 1 /\ t2.done = t.done /\ t2.col - 1 = t.col
      BY <1>2, <1>4, <2>1
    <3> QED BY <1>2, <1>3, <1>4, <1>7, <1>8, <2>1, <3>1, SMTT(40)
  <2>2. CASE ~(t.col < n)
    <3>1. t2.col = 1 /\ t2.done = t.done + 1 /\ t.col = n
      BY <1>2, <1>3, <1>4, <1>7, <2>2
    <3>2. Held(t, q, C, t.missing[t.done + 1])
      BY <1>3, <1>8, <3>1 DEF Held
    <3>3. \A k \in 1 .. t2.done : k \in 1 .. t.done \/ k = t.done + 1
      BY <1>2, <3>1
    <3>4. \A k \in 1 .. t2.done : Held(t, q, C, t.missing[k])
      BY <1>7, <3>2, <3>3
    <3>5. t2.done <= Len(t2.missing) /\ t2.col \in 1 .. n /\ 1 .. t2.col - 1 = {}
      BY <1>2, <1>3, <1>4, <1>7, <3>1
    <3> QED BY <3>4, <3>5
  <2> QED BY <2>1, <2>2
<1>10. t2.batch = 0 /\ t2.file = t.file /\ t2.group = t.group /\ t2.queue = t.queue
  BY <1>4, <1>7 DEF Alike
<1>11. FillInv(t2, q, C)
  BY <1>3, <1>4, <1>5, <1>6, <1>7, <1>9, <1>10 DEF FillInv
<1>12. TouchInv(t2, q, C)
  BY <1>1, <1>4, <1>5, <1>6, <1>10 DEF TouchInv
<1> QED BY <1>5, <1>11, <1>12 DEF StreamInv, Inner

\* The file delivers the missing batches, each complete.
LEMMA FileDelivers ==
  ASSUME NEW s, NEW f \in Files, f = query[s].file, NEW g \in DOMAIN NumRows[f], g = st[s].group,
         NEW missing, missing = st[s].missing, Batches(missing, BatchSize, NumRows[f][g])
  PROVE  /\ Len(ParquetBatches(s)) = Len(missing)
         /\ \A k \in DOMAIN missing : ParquetBatches(s)[k] = BatchRows(f, g, missing[k])
<1>1. PICK R \in Seq(AnyRow), rows \in Nat : R = GroupRows(f, g) /\ rows = NumRows[f][g] /\ rows = Len(R)
  BY GroupRowsType
<1>2. BatchSize \in Nat \ {0}
  BY StreamAssumption
<1>3. PICK S : S = FilterBy(R, Bits(BuildSelectionForBatches(missing, BatchSize, rows)))
  OBVIOUS
<1>4. Batches(missing, BatchSize, rows)
  BY <1>1
<1>5. /\ (Len(S) + BatchSize - 1) \div BatchSize = Len(missing)
      /\ \A k \in DOMAIN missing : SubSeq(S, (k - 1) * BatchSize + 1, Lesser(k * BatchSize, Len(S)))
                                 = SubSeq(R, missing[k] * BatchSize + 1, Lesser((missing[k] + 1) * BatchSize, rows))
  <2>1. rows = Len(R)
    BY <1>1
  <2>2. Delivered(FilterBy(R, Bits(BuildSelectionForBatches(missing, BatchSize, rows))), R, missing, BatchSize, rows)
    BY <1>2, <1>4, <2>1, BuildIs
  <2> QED BY <1>3, <2>2, Zenon DEF Delivered
<1>6. ParquetBatches(s) = [k \in 1..((Len(S) + BatchSize - 1) \div BatchSize) |->
        SubSeq(S, (k - 1) * BatchSize + 1, Lesser(k * BatchSize, Len(S)))]
  BY <1>1, <1>3, Zenon DEF ParquetBatches, Bits
<1>7. ParquetBatches(s) = [k \in 1 .. Len(missing) |-> SubSeq(S, (k - 1) * BatchSize + 1, Lesser(k * BatchSize, Len(S)))]
  BY <1>5, <1>6, Zenon
<1>8. missing \in Seq(Nat)
  BY DEF Batches
<1>9. PICK n \in Nat : n = Len(missing) /\ DOMAIN missing = 1 .. n
  BY <1>8
<1>10. PICK P : P = ParquetBatches(s)
  OBVIOUS
<1>11. P = [k \in 1 .. n |-> SubSeq(S, (k - 1) * BatchSize + 1, Lesser(k * BatchSize, Len(S)))]
  BY <1>7, <1>9, <1>10, Zenon
<1>12. Len(P) = n
  BY <1>11
<1>13. ASSUME NEW k \in 1 .. n PROVE P[k] = BatchRows(f, g, missing[k])
  <2>1. P[k] = SubSeq(S, (k - 1) * BatchSize + 1, Lesser(k * BatchSize, Len(S)))
    BY <1>11, Zenon
  <2>2. P[k] = SubSeq(R, missing[k] * BatchSize + 1, Lesser((missing[k] + 1) * BatchSize, rows))
    BY <1>5, <1>9, <2>1, Zenon
  <2> QED BY <1>1, <2>2, Zenon DEF BatchRows
<1> QED BY <1>9, <1>10, <1>12, <1>13

-----------------------------------------------------------------------------
(* Reading batches back                                                    *)

\* The identifiers of files differ and fit their field.
Registered(F) ==
  /\ \A l \in DOMAIN F : F[l] \in Nat /\ F[l] < Field
  /\ \A k, l \in DOMAIN F : F[k] = F[l] => k = l

\* The number of a batch fits its field.
LEMMA BatchFits ==
  ASSUME NEW f \in Files, NEW g \in DOMAIN NumRows[f], NEW b \in Nat, b * BatchSize < NumRows[f][g]
  PROVE  b < Field
<1>1. BatchSize \in Nat /\ Field \in Nat
  BY StreamAssumption
<1>2. PICK x \in Nat, y \in Nat : x = b * BatchSize /\ y = Field * BatchSize
  BY <1>1, MulStep
<1>3. PICK rows \in Nat : rows = NumRows[f][g]
  BY GroupRowsType
<1>4. rows <= y
  BY <1>2, <1>3, GroupRowsType
<1>5. x < rows
  BY <1>2, <1>3, Zenon
<1>6. x < y
  BY <1>4, <1>5
<1>7. b * BatchSize < Field * BatchSize
  BY <1>2, <1>6, Zenon
<1> QED BY <1>1, <1>7, MulCancel

\* An entry of a registered file holds the rows of its batch.
LEMMA EntryRows ==
  ASSUME NEW F, NEW C, Registered(F), CacheInv(F, C),
         NEW f \in Files, Location[f] \in DOMAIN F, NEW g \in DOMAIN NumRows[f],
         NEW c \in Nat, c < Field, NEW b \in Nat, b < Field,
         NEW id \in DOMAIN C, id = EntryId(F[Location[f]], g, c, b)
  PROVE  C[id] = BatchRows(f, g, b)
<1>1. PICK f2 \in Files : \E g2 \in DOMAIN NumRows[f2] : \E c2 \in 0..(NumColumns - 1), b2 \in Nat :
        Holds(id, F, C, f2, g2, c2, b2)
  BY DEF CacheInv
<1>2. PICK g2 \in DOMAIN NumRows[f2], c2 \in 0..(NumColumns - 1), b2 \in Nat : Holds(id, F, C, f2, g2, c2, b2)
  BY <1>1
<1>3. /\ Location[f2] \in DOMAIN F /\ id = EntryId(F[Location[f2]], g2, c2, b2)
      /\ b2 * BatchSize < NumRows[f2][g2] /\ C[id] = BatchRows(f2, g2, b2)
  BY <1>2 DEF Holds
<1>4. PICK x \in Nat, y \in Nat : x = F[Location[f]] /\ y = F[Location[f2]] /\ x < Field /\ y < Field
  BY <1>3 DEF Registered
<1>5. c2 \in Nat /\ c2 < Field
  BY StreamAssumption
<1>6. b2 < Field
  BY <1>3, BatchFits
<1>7. g \in Nat /\ g < Field /\ g2 \in Nat /\ g2 < Field
  BY GroupRowsType
<1>8. Fits(x, g, c, b) /\ Fits(y, g2, c2, b2)
  BY <1>4, <1>5, <1>6, <1>7 DEF Fits
<1>9. EntryId(x, g, c, b) = EntryId(y, g2, c2, b2)
  BY <1>3, <1>4
<1>10. x = y /\ g = g2 /\ b = b2
  BY <1>8, <1>9, EntryIdUnique
<1>11. Location[f] = Location[f2]
  BY <1>3, <1>4, <1>10 DEF Registered
<1>12. f = f2
  BY <1>11, LocationAssumption
<1> QED BY <1>3, <1>10, <1>12

\* The first column that is read and every other one hold the rows of the batch.
LEMMA HeldRows ==
  ASSUME NEW q, WellFormed(q), NEW F, NEW C, NEW o, NEW t, StreamInv(t, q, o, F, C), t.pc \in Reading,
         Registered(F), CacheInv(F, C), SetBits(t.mask) # {},
         NEW j \in DOMAIN Cols(q), NEW id, id = EntryId(t.file, t.group, Cols(q)[j], t.batch)
  PROVE  id \in DOMAIN C /\ C[id] = Rows(t, q)
<1>1. t.pc \in Scanning /\ t.pc \notin {"new", "end"}
  BY DEF Scanning, Reading
<1>2. /\ t.group \in DOMAIN NumRows[q.file] /\ t.batch * BatchSize < NumRows[q.file][t.group]
      /\ Held(t, q, C, t.batch) /\ Location[q.file] \in DOMAIN F /\ F[Location[q.file]] = t.file
  BY <1>1 DEF StreamInv, QueueInv, MaskInv, FileInv
<1>3. q.file \in Files /\ t.batch \in Nat
  BY <1>2, OnwardType DEF WellFormed, StreamInv
<1>4. t.batch < Field
  BY <1>2, <1>3, BatchFits
<1>5. Cols(q)[j] \in Nat /\ Cols(q)[j] < Field
  <2>1. Cols(q)[j] \in 0 .. NumColumns - 1
    BY ColsIs
  <2> QED BY <2>1, StreamAssumption
<1>6. id \in DOMAIN C
  BY <1>2 DEF Held
<1>7. id = EntryId(F[Location[q.file]], t.group, Cols(q)[j], t.batch)
  BY <1>2
<1>8. C[id] = BatchRows(q.file, t.group, t.batch)
  BY <1>2, <1>3, <1>4, <1>5, <1>6, <1>7, EntryRows
<1> QED BY <1>6, <1>8 DEF Rows

\* take_next_batch takes a whole batch of rows, or all that are left.
LEMMA BatchTaken ==
  ASSUME NEW f \in Files, NEW g \in DOMAIN NumRows[f], NEW len \in Nat, len <= NumRows[f][g],
         NEW n, n = Lesser(Lesser(BatchSize, FileRows(f)), len)
  PROVE  n \in Nat /\ n <= len /\ n <= BatchSize /\ (n = BatchSize \/ n = len) /\ (n = 0 => len = 0)
<1>1. BatchSize \in Nat \ {0}
  BY StreamAssumption
<1>2. PICK rows \in Nat, all \in Nat : rows = NumRows[f][g] /\ all = FileRows(f)
  BY GroupRowsType, FileRowsIs
<1>3. rows <= all /\ len <= rows
  BY <1>2, FileRowsIs
<1>4. n = Lesser(Lesser(BatchSize, all), len)
  BY <1>2
<1> QED BY <1>1, <1>3, <1>4 DEF Lesser

\* the row group is read
Finishing(t) == [t EXCEPT !.pc = "init"]

\* No row is left in the row group.
LEMMA ReadEnds ==
  ASSUME NEW q, WellFormed(q), NEW F, NEW C, NEW o, NEW t, StreamInv(t, q, o, F, C), t.pc = "read",
         Bits(t.queue) = <<>>, NEW t2, t2 = Finishing(t)
  PROVE  StreamInv(t2, q, o, F, C)
<1>1. TypeInv(t, q) /\ OutInv(t, q, o) /\ FileInv(t, q, F) /\ t \in StreamRecord
  BY DEF StreamInv, TypeInv
<1>2. /\ t2.pc = "init" /\ t2.file = t.file /\ t2.groups = t.groups /\ t2.selection = t.selection /\ t2.limit = t.limit
      /\ t2 \in StreamRecord
  <2>1. "init" \in {"new", "init", "end"} \cup Scanning
    OBVIOUS
  <2> QED BY <1>1, <2>1 DEF StreamRecord, Finishing
<1>3. Outside(t2) /\ t2.pc # "end" /\ t.pc \notin Reading /\ t.pc \in Scanning
  BY <1>2 DEF Outside, Scanning, Filling, Reading
<1>4. TypeInv(t2, q)
  BY <1>1, <1>2, <1>3 DEF TypeInv
<1>5. Now(t2, q) = Now(t, q)
  BY <1>3 DEF Now, Outside
<1>6. Soon(t2, q) = Soon(t, q)
  <2>1. FilterBy(Onward(t, q), <<>>) = <<>>
    BY FilterEmpty
  <2>2. Soon(t, q) = Only(<<>>, Pass(q))
    BY <1>3, <2>1 DEF Soon
  <2> QED BY <1>3, <2>2, OnlyEmpty DEF Soon, Outside
<1>7. Late(t2, q) = Late(t, q)
  BY <1>2 DEF Late
<1>8. OutInv(t2, q, o)
  BY <1>1, <1>5, <1>6, <1>7 DEF OutInv, Left
<1>9. FileInv(t2, q, F)
  BY <1>1, <1>2 DEF FileInv
<1> QED BY <1>3, <1>4, <1>8, <1>9 DEF StreamInv, Outside, QueueInv, FillInv, TouchInv, MaskInv, ArrayInv

\* Joined rows can be tested apart.
LEMMA OnlyCat ==
  ASSUME NEW S, NEW x, NEW y, Typed(S, x), Typed(S, y), NEW A
  PROVE  Only(Cat(x, y), A) = Cat(Only(x, A), Only(y, A))
<1>1. x \in Seq(S) /\ y \in Seq(S)
  BY DEF Typed
<1>2. Only(x \o y, A) = Only(x, A) \o Only(y, A)
  BY <1>1, OnlyConcat
<1> QED BY <1>2 DEF Cat

\* The mask m is for the rows W of the batch, the bits r for the rows E after it.
IsCut(D, B, W, m, E, r) ==
  /\ m \in Seq(BOOLEAN) /\ r \in Seq(BOOLEAN) /\ Len(m) <= Len(W) /\ Len(r) <= Len(E)
  /\ FilterBy(D, B) = FilterBy(W, m) \o FilterBy(E, r)

\* The rows of a batch and the rows after it are cut as the queue is.
LEMMA CutBatch ==
  ASSUME NEW R \in Seq(AnyRow), NEW a \in Nat, NEW D, D = Drop(R, a), NEW B \in Seq(BOOLEAN), Len(B) <= Len(D),
         NEW size \in Nat, NEW n \in 0 .. Len(B), n <= size, n = size \/ n = Len(B),
         NEW W \in Seq(AnyRow), Len(W) = Lesser(size, Len(D)), \A i \in 1 .. Len(W) : W[i] = D[i]
  PROVE  IsCut(D, B, W, SubSeq(B, 1, n), Drop(R, a + size), SubSeq(B, n + 1, Len(B)))
<1>1. PICK d \in Seq(AnyRow), E \in Seq(AnyRow), m \in Seq(BOOLEAN), r \in Seq(BOOLEAN) :
        d = D /\ E = Drop(R, a + size) /\ m = SubSeq(B, 1, n) /\ r = SubSeq(B, n + 1, Len(B))
  <2>1. a + size \in Nat
    OBVIOUS
  <2> QED BY <2>1, DropIs, SplitSeq
<1>2. PICK l \in Nat, ld \in Nat, le \in Nat, lw \in Nat, lr \in Nat : l = Len(B) /\ ld = Len(d) /\ le = Len(E) /\ lw = Len(W) /\ lr = Len(R)
  OBVIOUS
<1>3. ld = (IF a <= lr THEN lr - a ELSE 0)
  BY <1>1, <1>2, DropIs, ZenonT(60)
<1>4. le = (IF a + size <= lr THEN lr - (a + size) ELSE 0)
  <2>1. PICK z \in Nat : z = a + size
    OBVIOUS
  <2>2. E = Drop(R, z)
    BY <1>1, <2>1
  <2>3. le = (IF z <= lr THEN lr - z ELSE 0)
    BY <1>2, <2>2, DropIs, ZenonT(60)
  <2> QED BY <2>1, <2>3
<1>5. Len(m) = n /\ Len(r) = l - n /\ \A i \in 1 .. n : m[i] = B[i]
  BY <1>1, <1>2, SplitSeq
<1>6. l <= ld /\ n <= l /\ lw = Lesser(size, ld) /\ (n = size \/ n = l)
  BY <1>1, <1>2
<1>7. n <= lw
  BY <1>6 DEF Lesser
<1>8. l - n <= le
  BY <1>3, <1>4, <1>6
<1>9. FilterBy(d, B) = FilterBy(d, m) \o FilterBy(Drop(d, n), r)
  <2>1. Len(B) <= Len(d)
    BY <1>1
  <2>2. FilterBy(d, B) = FilterBy(d, SubSeq(B, 1, n)) \o FilterBy(SubSeq(d, n + 1, Len(d)), SubSeq(B, n + 1, Len(B)))
    BY <2>1, FilterSplit
  <2> QED BY <1>1, <2>2 DEF Drop
<1>10. FilterBy(d, m) = FilterBy(W, m)
  <2>1. \A i \in DOMAIN m : i \in 1 .. Len(W)
    BY <1>2, <1>5, <1>7
  <2>2. \A i \in DOMAIN m : d[i] = W[i]
    BY <1>1, <2>1
  <2> QED BY <2>2, FilterSame
<1>11. FilterBy(Drop(d, n), r) = FilterBy(E, r)
  <2>1. CASE n = size
    <3>1. Drop(Drop(R, a), n) = Drop(R, a + n)
      BY DropTwice
    <3> QED BY <1>1, <2>1, <3>1
  <2>2. CASE n = Len(B)
    <3>1. r = <<>>
      BY <1>2, <1>5, <2>2
    <3> QED BY <3>1, FilterEmpty
  <2> QED BY <2>1, <2>2
<1>12. FilterBy(d, B) = FilterBy(W, m) \o FilterBy(E, r)
  BY <1>9, <1>10, <1>11
<1>13. IsCut(d, B, W, m, E, r)
  BY <1>2, <1>5, <1>7, <1>8, <1>12 DEF IsCut
<1> QED BY <1>1, <1>13

\* a batch is taken from the queue
ReadTo(t, m, rest) == [t EXCEPT !.pc = "filter", !.queue = rest, !.pred = 1, !.mask = m]

\* n rows are taken from the queue
Taken(t, q, n, mask, rest) ==
  /\ n = Lesser(Lesser(BatchSize, FileRows(q.file)), Len(Bits(t.queue))) /\ n # 0
  /\ mask = SubSeq(Bits(t.queue), 1, n)
  /\ rest \in Seq(Run) /\ Bits(rest) = SubSeq(Bits(t.queue), n + 1, Len(Bits(t.queue)))

\* The record of a stream that has taken a batch
LEMMA ReadRecord ==
  ASSUME NEW t \in StreamRecord, NEW rest \in Seq(Run), NEW m \in Seq(BOOLEAN), NEW t2, t2 = ReadTo(t, m, rest)
  PROVE  /\ t2.pc = "filter" /\ t2.file = t.file /\ t2.groups = t.groups /\ t2.selection = t.selection
         /\ t2.limit = t.limit /\ t2.group = t.group /\ t2.queue = rest /\ t2.batch = t.batch /\ t2.mask = m
         /\ t2.pred = 1 /\ t2 \in StreamRecord
<1>1. "filter" \in {"new", "init", "end"} \cup Scanning
  BY DEF Scanning
<1> QED BY <1>1 DEF StreamRecord, ReadTo

\* take_next_batch: the mask of the next batch, and the queue after it
LEMMA ReadBatch ==
  ASSUME NEW q, WellFormed(q), NEW F, NEW C, NEW o, NEW t, StreamInv(t, q, o, F, C), t.pc = "read",
         NEW n, NEW mask, NEW rest, Taken(t, q, n, mask, rest), NEW t2, t2 = ReadTo(t, mask, rest)
  PROVE  StreamInv(t2, q, o, F, C)
<1>1. TypeInv(t, q) /\ OutInv(t, q, o) /\ FileInv(t, q, F) /\ QueueInv(t, q) /\ TouchInv(t, q, C) /\ t \in StreamRecord
  BY DEF StreamInv, TypeInv
<1>2. t.pc \in Scanning /\ t.pc \notin Reading /\ t.pc \notin Filling
  BY DEF Scanning, Reading, Filling
<1>3. /\ q.file \in Files /\ t.group \in DOMAIN NumRows[q.file] /\ t.batch \in Nat
      /\ Len(Bits(t.queue)) <= Len(Onward(t, q)) /\ t.queue \in Seq(Run)
  BY <1>1, <1>2, OnwardType DEF QueueInv, WellFormed
<1>4. PICK R \in Seq(AnyRow), rows \in Nat : R = GroupRows(q.file, t.group) /\ rows = NumRows[q.file][t.group] /\ rows = Len(R)
  BY <1>3, GroupRowsType
<1>5. BatchSize \in Nat \ {0}
  BY StreamAssumption
<1>6. PICK a \in Nat : a = t.batch * BatchSize /\ (t.batch + 1) * BatchSize = a + BatchSize
  BY <1>3, <1>5, MulStep
<1>7. PICK D \in Seq(AnyRow), B \in Seq(BOOLEAN) : D = Drop(R, a) /\ B = Bits(t.queue)
  BY <1>3, DropIs, BitsType
<1>8. Ahead(t) = t.batch /\ Onward(t, q) = D
  BY <1>2, <1>4, <1>6, <1>7 DEF Ahead, Onward
<1>9. PICK l \in Nat, ld \in Nat : l = Len(B) /\ ld = Len(D) /\ l <= ld
  <2>1. Len(B) <= Len(D)
    BY <1>3, <1>7, <1>8
  <2> QED BY <2>1
<1>10. ld = (IF a <= rows THEN rows - a ELSE 0)
  BY <1>4, <1>7, <1>9, DropIs
<1>11. l <= rows
  BY <1>9, <1>10
<1>12. n \in Nat /\ n <= l /\ n <= BatchSize /\ (n = BatchSize \/ n = l)
  <2>1. n = Lesser(Lesser(BatchSize, FileRows(q.file)), l)
    BY <1>7, <1>9 DEF Taken
  <2>2. l <= NumRows[q.file][t.group]
    BY <1>4, <1>11
  <2> QED BY <1>3, <2>1, <2>2, BatchTaken
<1>13. a < rows /\ n # 0 /\ rest \in Seq(Run)
  BY <1>9, <1>10, <1>12 DEF Taken
<1>14. PICK W \in Seq(AnyRow) : W = BatchRows(q.file, t.group, t.batch) /\ Len(W) = Lesser(BatchSize, Len(D))
                                 /\ \A i \in 1 .. Len(W) : W[i] = D[i]
  <2>1. a = t.batch * BatchSize /\ a < NumRows[q.file][t.group] /\ R = GroupRows(q.file, t.group)
    BY <1>4, <1>6, <1>13
  <2> QED BY <1>3, <1>7, <2>1, BatchRowsIs
<1>15. PICK E \in Seq(AnyRow), r \in Seq(BOOLEAN), m \in Seq(BOOLEAN) :
          E = Drop(R, a + BatchSize) /\ r = SubSeq(B, n + 1, Len(B)) /\ m = SubSeq(B, 1, n)
  <2>1. a + BatchSize \in Nat /\ n \in 0 .. Len(B)
    BY <1>5, <1>9, <1>12
  <2> QED BY <2>1, DropIs, SplitSeq
<1>16. IsCut(D, B, W, m, E, r)
  <2>1. n \in 0 .. Len(B) /\ Len(B) <= Len(D) /\ BatchSize \in Nat /\ (n = BatchSize \/ n = Len(B))
    BY <1>5, <1>9, <1>12
  <2>2. IsCut(D, B, W, SubSeq(B, 1, n), Drop(R, a + BatchSize), SubSeq(B, n + 1, Len(B)))
    BY <1>7, <1>12, <1>14, <2>1, CutBatch
  <2> QED BY <1>15, <2>2
<1>17. Bits(rest) = r /\ mask = m
  BY <1>7, <1>15 DEF Taken
<1>18. /\ t2.pc = "filter" /\ t2.file = t.file /\ t2.groups = t.groups /\ t2.selection = t.selection /\ t2.limit = t.limit
       /\ t2.group = t.group /\ t2.queue = rest /\ t2.batch = t.batch /\ t2.mask = m /\ t2.pred = 1
       /\ t2 \in StreamRecord
  BY <1>1, <1>13, <1>17, ReadRecord
<1>19. t2.pc \in Scanning /\ t2.pc \in Reading /\ t2.pc \notin Filling /\ t2.pc # "end" /\ t2.pc # "project" /\ t2.pc # "new"
  BY <1>18 DEF Scanning, Reading, Filling
<1>20. TypeInv(t2, q)
  BY <1>1, <1>18, <1>19 DEF TypeInv
<1>21. FileInv(t2, q, F)
  BY <1>1, <1>18 DEF FileInv
<1>22. Ahead(t2) = t.batch + 1 /\ Onward(t2, q) = E /\ Rows(t2, q) = W
  <2>1. Ahead(t2) = t.batch + 1
    BY <1>18, <1>19 DEF Ahead
  <2>2. Onward(t2, q) = Drop(GroupRows(q.file, t.group), (t.batch + 1) * BatchSize)
    BY <1>18, <2>1, Zenon DEF Onward
  <2>3. Onward(t2, q) = E
    BY <1>4, <1>6, <1>15, <2>2, Zenon
  <2> QED BY <1>14, <1>18, <2>1, <2>3 DEF Rows
<1>23. QueueInv(t2, q)
  BY <1>3, <1>16, <1>17, <1>18, <1>22 DEF QueueInv, IsCut
<1>24. FillInv(t2, q, C) /\ ArrayInv(t2, q)
  BY <1>19 DEF FillInv, ArrayInv
<1>25. \A b : Held(t2, q, C, b) <=> Held(t, q, C, b)
  BY <1>18 DEF Held
<1>26. Len(m) = n /\ \A i \in 1 .. n : m[i] = B[i]
  <2>1. n \in 0 .. Len(B)
    BY <1>9, <1>12
  <2> QED BY <1>15, <2>1, SplitSeq
<1>27. Len(r) = l - n /\ \A i \in 1 .. l - n : r[i] = B[n + i]
  <2>1. n \in 0 .. Len(B)
    BY <1>9, <1>12
  <2> QED BY <1>9, <1>15, <2>1, SplitSeq
<1>28. \A b \in Nat : \A i \in SetBits(B) : HasRow(b, BatchSize, a + i) => Held(t, q, C, b)
  BY <1>1, <1>2, <1>6, <1>7, <1>8 DEF TouchInv
<1>29. TouchInv(t2, q, C)
  <2> SUFFICES ASSUME NEW b \in Nat, NEW i \in SetBits(Bits(t2.queue)), HasRow(b, BatchSize, Ahead(t2) * BatchSize + i)
               PROVE  Held(t2, q, C, b)
    BY DEF TouchInv
  <2>1. i \in 1 .. l - n /\ r[i]
    <3>1. i \in SetBits(r)
      BY <1>17, <1>18
    <3> QED BY <1>27, <3>1 DEF SetBits
  <2>2. n = BatchSize
    BY <1>12, <2>1
  <2>3. n + i \in SetBits(B)
    <3>1. n + i \in 1 .. l
      BY <1>12, <2>1
    <3> QED BY <1>9, <1>27, <2>1, <3>1 DEF SetBits
  <2>4. HasRow(b, BatchSize, (a + BatchSize) + i)
    BY <1>6, <1>22, Zenon
  <2>5. (a + BatchSize) + i = a + (n + i)
    BY <1>5, <2>1, <2>2
  <2>6. HasRow(b, BatchSize, a + (n + i))
    BY <2>4, <2>5
  <2> QED BY <1>25, <1>28, <2>3, <2>6
<1>30. MaskInv(t2, q, C)
  <2>1. t2.batch * BatchSize < NumRows[q.file][t2.group]
    BY <1>4, <1>6, <1>13, <1>18, Zenon
  <2>2. Len(t2.mask) <= Len(Rows(t2, q))
    BY <1>16, <1>18, <1>22 DEF IsCut
  <2>3. ASSUME NEW i \in SetBits(t2.mask) PROVE Held(t2, q, C, t2.batch)
    <3>1. i \in 1 .. n /\ m[i]
      <4>1. i \in SetBits(m)
        BY <1>18
      <4> QED BY <1>26, <4>1 DEF SetBits
    <3>2. i \in SetBits(B)
      BY <1>9, <1>12, <1>26, <3>1 DEF SetBits
    <3>3. a < a + i /\ a + i <= a + BatchSize
      BY <1>5, <1>12, <3>1
    <3>4. HasRow(t.batch, BatchSize, a + i)
      BY <1>6, <3>3, Zenon DEF HasRow
    <3>5. Held(t, q, C, t.batch)
      BY <1>3, <1>28, <3>2, <3>4
    <3> QED BY <1>18, <1>25, <3>5
  <2>4. \A k \in DOMAIN q.predicates : ~(k < t2.pred \/ t2.pc = "project")
    <3>1. q.predicates \in Seq(Predicate)
      BY DEF WellFormed
    <3> QED BY <1>18, <1>19, <3>1
  <2>5. t2.pred # 0
    BY <1>18
  <2> QED BY <2>1, <2>2, <2>3, <2>4, <2>5 DEF MaskInv
<1>31. OutInv(t2, q, o)
  <2>1. PICK x \in Seq(AnyRow), y \in Seq(AnyRow) : x = FilterBy(W, m) /\ y = FilterBy(E, r)
    BY <1>16, FilterType DEF IsCut
  <2>2. FilterBy(D, B) = x \o y
    BY <1>16, <2>1 DEF IsCut
  <2>3. Only(Cat(x, y), Pass(q)) = Cat(Only(x, Pass(q)), Only(y, Pass(q)))
    <3>1. Typed(AnyRow, x) /\ Typed(AnyRow, y)
      BY DEF Typed
    <3> QED BY <3>1, OnlyCat
  <2>4. PICK u \in Seq(AnyRow), v \in Seq(AnyRow), w \in Seq(AnyRow) : u = Only(x, Pass(q)) /\ v = Only(y, Pass(q)) /\ w = Late(t, q)
    BY OnlyType, LeftType DEF StreamInv
  <2>5. Now(t, q) = <<>> /\ Soon(t, q) = Cat(u, v)
    BY <1>2, <1>7, <1>8, <2>2, <2>3, <2>4 DEF Now, Soon, Cat
  <2>6. Now(t2, q) = u /\ Soon(t2, q) = v /\ Late(t2, q) = w
    BY <1>17, <1>18, <1>19, <1>22, <2>1, <2>4 DEF Now, Soon, Late
  <2>7. Cat(Cat(u, v), w) = Cat(u, Cat(v, w))
    BY CatAssociative DEF Typed
  <2>8. Cat(<<>>, Cat(Cat(u, v), w)) = Cat(Cat(u, v), w)
    <3>1. Cat(Cat(u, v), w) \in Seq(AnyRow)
      BY DEF Cat
    <3> QED BY <3>1, CatNone
  <2>9. Left(t2, q) = Left(t, q)
    BY <2>4, <2>5, <2>6, <2>7, <2>8, Zenon DEF Left
  <2> QED BY <1>1, <2>9 DEF OutInv
<1> QED BY <1>20, <1>21, <1>23, <1>24, <1>29, <1>30, <1>31 DEF StreamInv

-----------------------------------------------------------------------------
(* Predicates and projection of a batch                                    *)

\* The rows of the batch, under the mask
LEMMA BatchType ==
  ASSUME NEW q, WellFormed(q), NEW F, NEW C, NEW o, NEW t, StreamInv(t, q, o, F, C), t.pc \in Reading
  PROVE  /\ t.group \in DOMAIN NumRows[q.file] /\ Rows(t, q) \in Seq(AnyRow) /\ t.mask \in Seq(BOOLEAN)
         /\ Len(t.mask) <= Len(Rows(t, q)) /\ FilterBy(Rows(t, q), t.mask) \in Seq(AnyRow)
         /\ t.batch \in Nat /\ t.pred \in Nat
<1>1. t.pc \in Scanning
  BY DEF Scanning, Reading
<1>2. /\ t.group \in DOMAIN NumRows[q.file] /\ Len(t.mask) <= Len(Rows(t, q))
      /\ t.batch * BatchSize < NumRows[q.file][t.group] /\ TypeInv(t, q)
  BY <1>1 DEF StreamInv, QueueInv, MaskInv
<1>3. Rows(t, q) \in Seq(AnyRow) /\ t.mask \in Seq(BOOLEAN) /\ t.batch \in Nat
  BY <1>2, RowsType, OnwardType
<1>4. FilterBy(Rows(t, q), t.mask) \in Seq(AnyRow)
  BY <1>2, <1>3, FilterType
<1>5. t.pred \in Nat
  BY <1>2 DEF TypeInv, StreamRecord
<1> QED BY <1>2, <1>3, <1>4, <1>5

\* what stays while a batch is read
Steady(t, q, F, C) == TypeInv(t, q) /\ FileInv(t, q, F) /\ QueueInv(t, q) /\ FillInv(t, q, C) /\ TouchInv(t, q, C)

\* Neither a predicate nor a column changes what comes after the batch.
LEMMA ReadMoves ==
  ASSUME NEW q, WellFormed(q), NEW F, NEW C, NEW o, NEW t, StreamInv(t, q, o, F, C), t.pc \in Reading,
         NEW t2 \in StreamRecord, Alike(t, t2), t2.pc \in Reading
  PROVE  /\ Steady(t2, q, F, C) /\ Rows(t2, q) = Rows(t, q)
         /\ Soon(t2, q) = Soon(t, q) /\ Late(t2, q) = Late(t, q)
         /\ \A b : Held(t2, q, C, b) <=> Held(t, q, C, b)
<1>1. TypeInv(t, q) /\ FileInv(t, q, F) /\ QueueInv(t, q) /\ TouchInv(t, q, C)
  BY DEF StreamInv
<1>2. /\ t.pc \in Scanning /\ t2.pc \in Scanning /\ t.pc \notin Filling /\ t2.pc \notin Filling
      /\ t2.pc # "end" /\ t2.pc # "new" /\ t.pc # "end" /\ t.pc # "new"
  BY DEF Scanning, Reading, Filling
<1>3. TypeInv(t2, q)
  BY <1>1, <1>2 DEF TypeInv, Alike
<1>4. Ahead(t2) = Ahead(t)
  BY DEF Ahead, Alike
<1>5. Onward(t2, q) = Onward(t, q)
  BY <1>4 DEF Onward, Alike
<1>6. QueueInv(t2, q)
  BY <1>1, <1>2, <1>5 DEF QueueInv, Alike
<1>7. FileInv(t2, q, F)
  BY <1>1, <1>2 DEF FileInv, Alike
<1>8. \A b : Held(t2, q, C, b) <=> Held(t, q, C, b)
  BY DEF Held, Alike
<1>9. FillInv(t2, q, C)
  BY <1>2 DEF FillInv
<1>10. TouchInv(t2, q, C)
  BY <1>1, <1>2, <1>4, <1>8 DEF TouchInv, Alike
<1>11. Soon(t2, q) = Soon(t, q)
  BY <1>2, <1>5 DEF Soon, Alike
<1>12. Late(t2, q) = Late(t, q)
  BY DEF Late, Alike
<1>13. Rows(t2, q) = Rows(t, q)
  BY DEF Rows, Alike
<1> QED BY <1>3, <1>6, <1>7, <1>8, <1>9, <1>10, <1>11, <1>12, <1>13 DEF Steady

\* the filter is done
Projecting(t) == [t EXCEPT !.pc = "project", !.arrays = <<>>]

\* Every predicate was tried, or no row is left.
LEMMA FilterEnds ==
  ASSUME NEW q, WellFormed(q), NEW F, NEW C, NEW o, NEW t, StreamInv(t, q, o, F, C), t.pc = "filter",
         t.pred > Len(q.predicates) \/ SetBits(t.mask) = {}, NEW t2, t2 = Projecting(t)
  PROVE  StreamInv(t2, q, o, F, C)
<1>1. t \in StreamRecord /\ MaskInv(t, q, C) /\ OutInv(t, q, o)
  BY DEF StreamInv, TypeInv
<1>2. t.pc \in Reading /\ t.pc \notin Filling
  BY DEF Reading, Filling
<1>3. /\ t2 \in StreamRecord /\ Alike(t, t2) /\ t2.pc = "project" /\ t2.arrays = <<>> /\ t2.mask = t.mask /\ t2.pred = t.pred
  <2>1. "project" \in {"new", "init", "end"} \cup Scanning
    BY DEF Scanning
  <2>2. <<>> \in Seq(Seq(AnyRow))
    OBVIOUS
  <2> QED BY <1>1, <2>1, <2>2 DEF StreamRecord, Alike, Projecting
<1>4. t2.pc \in Reading
  BY <1>3 DEF Reading
<1>5. /\ Steady(t2, q, F, C) /\ Rows(t2, q) = Rows(t, q) /\ Soon(t2, q) = Soon(t, q) /\ Late(t2, q) = Late(t, q)
      /\ \A b : Held(t2, q, C, b) <=> Held(t, q, C, b)
  BY <1>2, <1>3, <1>4, ReadMoves
<1>6. ASSUME NEW i \in SetBits(t.mask), NEW k \in DOMAIN q.predicates PROVE Rows(t, q)[i] \in q.predicates[k].pass
  <2>1. q.predicates \in Seq(Predicate) /\ t.pred \in Nat
    BY <1>2, BatchType DEF WellFormed
  <2>2. k < t.pred
    BY <1>6, <2>1
  <2> QED BY <1>1, <1>2, <2>2 DEF MaskInv
<1>7. MaskInv(t2, q, C)
  BY <1>1, <1>2, <1>3, <1>5, <1>6 DEF MaskInv, Alike
<1>8. ArrayInv(t2, q)
  <2>1. RootColumns(q.projection) \in Seq(Nat)
    BY ColsIs
  <2>2. Len(t2.arrays) <= Len(RootColumns(q.projection)) /\ DOMAIN t2.arrays = {}
    BY <1>3, <2>1
  <2> QED BY <2>2 DEF ArrayInv
<1>9. Now(t2, q) = Now(t, q)
  BY <1>2, <1>3, <1>4, <1>5 DEF Now
<1>10. OutInv(t2, q, o)
  BY <1>1, <1>5, <1>9 DEF OutInv, Left
<1> QED BY <1>5, <1>7, <1>8, <1>10 DEF StreamInv, Steady

\* a predicate is evaluated
Filtering(t, mask) == [t EXCEPT !.pred = @ + 1, !.mask = mask]

\* A predicate takes the rows that fail it out of the mask.
LEMMA FilterStep ==
  ASSUME NEW q, WellFormed(q), NEW F, NEW C, NEW o, NEW t, StreamInv(t, q, o, F, C), t.pc = "filter",
         t.pred \in DOMAIN q.predicates,
         NEW mask, mask = Masked(Rows(t, q), t.mask, q.predicates[t.pred].pass),
         NEW t2, t2 = Filtering(t, mask)
  PROVE  StreamInv(t2, q, o, F, C)
<1>1. t \in StreamRecord /\ MaskInv(t, q, C) /\ OutInv(t, q, o)
  BY DEF StreamInv, TypeInv
<1>2. t.pc \in Reading /\ t.pc \notin Filling
  BY DEF Reading, Filling
<1>3. PICK W \in Seq(AnyRow), m \in Seq(BOOLEAN), n \in Nat : W = Rows(t, q) /\ m = t.mask /\ n = t.pred /\ Len(m) <= Len(W)
  BY <1>2, BatchType
<1>4. PICK A, P : A = q.predicates[t.pred].pass /\ P = Pass(q)
  OBVIOUS
<1>5. mask = Masked(W, m, A)
  BY <1>3, <1>4
<1>6. /\ mask \in Seq(BOOLEAN) /\ Len(mask) = Len(m) /\ DOMAIN mask = DOMAIN m
      /\ \A i \in DOMAIN m : mask[i] = (m[i] /\ W[i] \in A)
  BY <1>5, MaskedType
<1>7. /\ t2 \in StreamRecord /\ Alike(t, t2) /\ t2.pc = "filter" /\ t2.mask = mask /\ t2.pred = n + 1
  <2>1. mask \in Seq(BOOLEAN) /\ n + 1 \in Nat
    BY <1>6
  <2>2. t2 = [t EXCEPT !.pred = n + 1, !.mask = mask]
    BY <1>3 DEF Filtering
  <2> QED BY <1>1, <2>1, <2>2 DEF StreamRecord, Alike
<1>8. t2.pc \in Reading
  BY <1>7 DEF Reading
<1>9. /\ Steady(t2, q, F, C) /\ Rows(t2, q) = W /\ Soon(t2, q) = Soon(t, q) /\ Late(t2, q) = Late(t, q)
      /\ \A b : Held(t2, q, C, b) <=> Held(t, q, C, b)
  BY <1>2, <1>3, <1>7, <1>8, ReadMoves
<1>10. ASSUME NEW i \in SetBits(mask) PROVE i \in SetBits(m) /\ W[i] \in A
  <2>1. i \in DOMAIN m /\ mask[i]
    BY <1>6, SMTT(40) DEF SetBits
  <2> QED BY <1>6, <2>1 DEF SetBits
<1>11. MaskInv(t2, q, C)
  <2>1. t.batch * BatchSize < NumRows[q.file][t.group] /\ (SetBits(m) # {} => Held(t, q, C, t.batch))
    BY <1>1, <1>2, <1>3 DEF MaskInv
  <2>2. t2.batch * BatchSize < NumRows[q.file][t2.group] /\ (SetBits(mask) # {} => Held(t2, q, C, t2.batch))
    BY <1>7, <1>9, <1>10, <2>1 DEF Alike
  <2>3. Len(t2.mask) <= Len(Rows(t2, q)) /\ t2.pred # 0
    BY <1>3, <1>6, <1>7, <1>9
  <2>4. ASSUME NEW i \in SetBits(mask), NEW k \in DOMAIN q.predicates, k < n + 1 PROVE W[i] \in q.predicates[k].pass
    <3>1. k \in Nat
      BY DEF WellFormed
    <3>2. CASE k = n
      BY <1>3, <1>4, <1>10, <3>2
    <3>3. CASE k < n
      BY <1>1, <1>2, <1>3, <1>10, <3>3 DEF MaskInv
    <3> QED BY <2>4, <3>1, <3>2, <3>3
  <2> QED BY <1>7, <1>9, <2>2, <2>3, <2>4 DEF MaskInv
<1>12. ArrayInv(t2, q)
  BY <1>7 DEF ArrayInv
<1>13. Masked(W, mask, P) = Masked(W, m, P)
  <2>1. ASSUME NEW i \in DOMAIN m PROVE (mask[i] /\ W[i] \in P) = (m[i] /\ W[i] \in P)
    <3>1. W[i] \in P => W[i] \in A
      BY <1>4, Zenon DEF Pass
    <3>2. (mask[i] /\ W[i] \in P) <=> (m[i] /\ W[i] \in P)
      BY <1>6, <3>1
    <3> QED BY <3>2, Zenon
  <2> QED BY <1>6, <2>1, Zenon DEF Masked
<1>14. Only(FilterBy(W, mask), P) = Only(FilterBy(W, m), P)
  <2>1. Only(FilterBy(W, m), P) = FilterBy(W, Masked(W, m, P))
    BY <1>3, OnlyFilter
  <2>2. Only(FilterBy(W, mask), P) = FilterBy(W, Masked(W, mask, P))
    BY <1>3, <1>6, OnlyFilter
  <2> QED BY <1>13, <2>1, <2>2
<1>15. Now(t2, q) = Now(t, q)
  BY <1>2, <1>3, <1>4, <1>7, <1>8, <1>9, <1>14 DEF Now
<1>16. OutInv(t2, q, o)
  BY <1>1, <1>9, <1>15 DEF OutInv, Left
<1> QED BY <1>9, <1>11, <1>12, <1>16 DEF StreamInv, Steady

\* a column is read
Collecting(t, rows) == [t EXCEPT !.arrays = Append(@, rows)]

\* A column of the batch is read under the mask.
LEMMA ColumnRead ==
  ASSUME NEW q, WellFormed(q), NEW F, NEW C, NEW o, NEW t, StreamInv(t, q, o, F, C), t.pc = "project",
         Len(t.arrays) < Len(RootColumns(q.projection)),
         NEW t2, t2 = Collecting(t, FilterBy(Rows(t, q), t.mask))
  PROVE  StreamInv(t2, q, o, F, C)
<1>1. t \in StreamRecord /\ MaskInv(t, q, C) /\ ArrayInv(t, q) /\ OutInv(t, q, o)
  BY DEF StreamInv, TypeInv
<1>2. t.pc \in Reading /\ t.pc \notin Filling
  BY DEF Reading, Filling
<1>3. PICK X \in Seq(AnyRow), v \in Seq(Seq(AnyRow)) : X = FilterBy(Rows(t, q), t.mask) /\ v = t.arrays
  <2>1. t.arrays \in Seq(Seq(AnyRow))
    BY <1>1 DEF StreamRecord
  <2> QED BY <1>2, <2>1, BatchType
<1>4. PICK w \in Seq(Seq(AnyRow)) : w = Append(v, X)
  <2>1. Append(v, X) \in Seq(Seq(AnyRow))
    BY AppendProperties
  <2> QED BY <2>1
<1>5. t2 = [t EXCEPT !.arrays = w]
  BY <1>3, <1>4 DEF Collecting
<1>6. /\ t2 \in StreamRecord /\ Alike(t, t2) /\ t2.pc = "project" /\ t2.arrays = w /\ t2.mask = t.mask /\ t2.pred = t.pred
  BY <1>1, <1>5 DEF StreamRecord, Alike
<1>7. t2.pc \in Reading
  BY <1>6 DEF Reading
<1>8. /\ Steady(t2, q, F, C) /\ Rows(t2, q) = Rows(t, q) /\ Soon(t2, q) = Soon(t, q) /\ Late(t2, q) = Late(t, q)
      /\ \A b : Held(t2, q, C, b) <=> Held(t, q, C, b)
  BY <1>2, <1>6, <1>7, ReadMoves
<1>9. MaskInv(t2, q, C)
  BY <1>1, <1>2, <1>6, <1>8 DEF MaskInv, Alike
<1>10. ArrayInv(t2, q)
  <2>1. Len(v) < Len(RootColumns(q.projection)) /\ \A i \in DOMAIN v : v[i] = X
    BY <1>1, <1>3 DEF ArrayInv
  <2>2. RootColumns(q.projection) \in Seq(Nat)
    BY ColsIs
  <2>3. Len(w) <= Len(RootColumns(q.projection))
    BY <1>4, <2>1, <2>2
  <2>4. \A i \in DOMAIN w : w[i] = X
    <3>1. \A i \in DOMAIN w : i \in DOMAIN v \/ i = Len(v) + 1
      BY <1>4
    <3> QED BY <1>4, <2>1, <3>1
  <2> QED BY <1>3, <1>6, <1>8, <2>3, <2>4 DEF ArrayInv
<1>11. Now(t2, q) = Now(t, q)
  BY <1>2, <1>6, <1>7, <1>8 DEF Now
<1>12. OutInv(t2, q, o)
  BY <1>1, <1>8, <1>11 DEF OutInv, Left
<1> QED BY <1>8, <1>9, <1>10, <1>12 DEF StreamInv, Steady

\* TuplesConcat, with the operator that the invariant uses
LEMMA TuplesCat ==
  ASSUME NEW q, NEW x, NEW y, Typed(AnyRow, x), Typed(AnyRow, y)
  PROVE  Tuples(q, Cat(x, y)) = Cat(Tuples(q, x), Tuples(q, y))
<1>1. x \in Seq(AnyRow) /\ y \in Seq(AnyRow)
  BY DEF Typed
<1>2. Tuples(q, x \o y) = Tuples(q, x) \o Tuples(q, y)
  BY <1>1, TuplesConcat
<1> QED BY <1>2 DEF Cat

\* the batch is handed out
Advancing(t) == [t EXCEPT !.pc = "read", !.batch = @ + 1, !.arrays = <<>>]

\* The batch was handed out: on to the next one.
LEMMA BatchEnds ==
  ASSUME NEW q, WellFormed(q), NEW F, NEW C, NEW o, NEW t, StreamInv(t, q, o, F, C), t.pc = "project",
         NEW o2, o2 = Cat(o, Tuples(q, Now(t, q))),
         NEW t2, t2 = Advancing(t)
  PROVE  StreamInv(t2, q, o2, F, C)
<1>1. /\ t \in StreamRecord /\ TypeInv(t, q) /\ FileInv(t, q, F) /\ QueueInv(t, q) /\ TouchInv(t, q, C)
      /\ MaskInv(t, q, C) /\ OutInv(t, q, o)
  BY DEF StreamInv, TypeInv
<1>2. t.pc \in Reading /\ t.pc \in Scanning /\ t.pc \notin Filling
  BY DEF Reading, Scanning, Filling
<1>3. PICK n \in Nat : n = t.batch
  BY <1>2, BatchType
<1>4. /\ t2.pc = "read" /\ t2.file = t.file /\ t2.groups = t.groups /\ t2.selection = t.selection /\ t2.limit = t.limit
      /\ t2.group = t.group /\ t2.queue = t.queue /\ t2.batch = n + 1 /\ t2 \in StreamRecord
  <2>1. "read" \in {"new", "init", "end"} \cup Scanning /\ n + 1 \in Nat /\ <<>> \in Seq(Seq(AnyRow))
    BY DEF Scanning
  <2>2. t2 = [t EXCEPT !.pc = "read", !.batch = n + 1, !.arrays = <<>>]
    BY <1>3 DEF Advancing
  <2> QED BY <1>1, <2>1, <2>2 DEF StreamRecord
<1>5. t2.pc \in Scanning /\ t2.pc \notin Reading /\ t2.pc \notin Filling /\ t2.pc # "end" /\ t2.pc # "project"
  BY <1>4 DEF Scanning, Reading, Filling
<1>6. TypeInv(t2, q)
  BY <1>1, <1>4, <1>5 DEF TypeInv
<1>7. FileInv(t2, q, F)
  BY <1>1, <1>2, <1>4 DEF FileInv
<1>8. Ahead(t2) = Ahead(t)
  BY <1>2, <1>3, <1>4, <1>5 DEF Ahead
<1>9. Onward(t2, q) = Onward(t, q)
  BY <1>4, <1>8 DEF Onward
<1>10. QueueInv(t2, q)
  BY <1>1, <1>2, <1>4, <1>5, <1>9 DEF QueueInv
<1>11. \A b : Held(t2, q, C, b) <=> Held(t, q, C, b)
  BY <1>4 DEF Held
<1>12. TouchInv(t2, q, C)
  BY <1>1, <1>2, <1>4, <1>5, <1>8, <1>11 DEF TouchInv
<1>13. FillInv(t2, q, C) /\ MaskInv(t2, q, C) /\ ArrayInv(t2, q)
  BY <1>5 DEF FillInv, MaskInv, ArrayInv
<1>14. PICK x, y, z : x = Now(t, q) /\ y = Soon(t, q) /\ z = Late(t, q)
  OBVIOUS
<1>15. Typed(AnyRow, x) /\ Typed(AnyRow, y) /\ Typed(AnyRow, z)
  BY <1>1, <1>14, LeftType DEF Typed
<1>16. Now(t2, q) = <<>> /\ Soon(t2, q) = y /\ Late(t2, q) = z
  BY <1>2, <1>4, <1>5, <1>9, <1>14 DEF Now, Soon, Late
<1>17. PICK u : u = Cat(y, z)
  OBVIOUS
<1>18. Typed(AnyRow, u)
  BY <1>15, <1>17, CatType
<1>19. Left(t, q) = Cat(x, u)
  BY <1>14, <1>17 DEF Left
<1>20. Left(t2, q) = u
  <2>1. u \in Seq(AnyRow)
    BY <1>18 DEF Typed
  <2>2. Cat(<<>>, u) = u
    BY <2>1, CatNone
  <2> QED BY <1>16, <1>17, <2>2 DEF Left
<1>21. PICK X, U : X = Tuples(q, x) /\ U = Tuples(q, u)
  OBVIOUS
<1>22. Typed(Tuple(q), o) /\ Typed(Tuple(q), X) /\ Typed(Tuple(q), U)
  <2>1. x \in Seq(AnyRow) /\ u \in Seq(AnyRow)
    BY <1>15, <1>18 DEF Typed
  <2>2. Tuples(q, x) \in Seq(Tuple(q)) /\ Tuples(q, u) \in Seq(Tuple(q))
    BY <2>1, TuplesType
  <2> QED BY <1>1, <1>21, <2>2 DEF Typed, OutInv
<1>23. Tuples(q, Cat(x, u)) = Cat(X, U)
  BY <1>15, <1>18, <1>21, TuplesCat
<1>24. o2 = Cat(o, X)
  BY <1>14, <1>21
<1>25. Cat(Cat(o, X), U) = Cat(o, Cat(X, U))
  BY <1>22, CatAssociative
<1>26. Cat(o, Cat(X, U)) = Expected(q)
  BY <1>1, <1>19, <1>23 DEF OutInv
<1>27. Typed(Tuple(q), o2)
  BY <1>22, <1>24, CatType
<1>28. OutInv(t2, q, o2)
  BY <1>20, <1>21, <1>24, <1>25, <1>26, <1>27 DEF OutInv, Typed
<1> QED BY <1>6, <1>7, <1>10, <1>12, <1>13, <1>28 DEF StreamInv

\* Nothing is left of the batch.
LEMMA NothingNow ==
  ASSUME NEW q, WellFormed(q), NEW F, NEW C, NEW o, NEW t, StreamInv(t, q, o, F, C), t.pc = "project",
         SetBits(t.mask) = {}
  PROVE  Cat(o, Tuples(q, Now(t, q))) = o
<1>1. t.pc \in Reading
  BY DEF Reading
<1>2. PICK W \in Seq(AnyRow), m \in Seq(BOOLEAN) : W = Rows(t, q) /\ m = t.mask /\ Len(m) <= Len(W)
  BY <1>1, BatchType
<1>3. \A i \in DOMAIN m : ~m[i]
  BY <1>2 DEF SetBits
<1>4. FilterBy(W, m) = <<>>
  BY <1>2, <1>3, FilterNone
<1>5. Now(t, q) = <<>>
  BY <1>1, <1>2, <1>4, OnlyEmpty DEF Now
<1>6. Tuples(q, <<>>) = <<>>
  <2>1. Tuples(q, <<>>) \in Seq(Tuple(q)) /\ Len(Tuples(q, <<>>)) = Len(<<>>)
    <3>1. <<>> \in Seq(AnyRow)
      OBVIOUS
    <3> QED BY <3>1, TuplesType
  <2> QED BY <2>1
<1>7. o \in Seq(Tuple(q))
  BY DEF StreamInv, OutInv
<1> QED BY <1>5, <1>6, <1>7, CatNone

\* The columns that were read make the rows under the mask, all of which passed.
LEMMA BatchNow ==
  ASSUME NEW q, WellFormed(q), NEW F, NEW C, NEW o, NEW t, StreamInv(t, q, o, F, C), t.pc = "project",
         NEW cols, cols = RootColumns(q.projection), Len(t.arrays) = Len(cols)
  PROVE  [k \in 1..Cardinality(SetBits(t.mask)) |-> [i \in DOMAIN cols |-> t.arrays[i][k]]] = Tuples(q, Now(t, q))
<1>1. t.pc \in Reading
  BY DEF Reading
<1>2. PICK W \in Seq(AnyRow), m \in Seq(BOOLEAN) : W = Rows(t, q) /\ m = t.mask /\ Len(m) <= Len(W)
  BY <1>1, BatchType
<1>3. PICK X \in Seq(AnyRow) : X = FilterBy(W, m)
  BY <1>2, FilterType
<1>4. PICK n \in Nat : n = Len(X) /\ n = Cardinality(SetBits(m)) /\ DOMAIN X = 1 .. n
  <2>1. Len(FilterBy(W, m)) = Ones(m)
    BY <1>2, FilterLen
  <2>2. Len(X) = Cardinality(SetBits(m))
    BY <1>3, <2>1 DEF Ones
  <2> QED BY <2>2
<1>5. Masked(W, m, Pass(q)) = m
  <2>1. ASSUME NEW i \in DOMAIN m PROVE (m[i] /\ W[i] \in Pass(q)) = m[i]
    <3>0. m[i] \in BOOLEAN
      OBVIOUS
    <3>1. ASSUME m[i] PROVE W[i] \in Pass(q)
      <4>1. i \in SetBits(t.mask)
        BY <1>2, <3>1 DEF SetBits
      <4>2. \A k \in DOMAIN q.predicates : W[i] \in q.predicates[k].pass
        BY <1>1, <1>2, <4>1 DEF StreamInv, MaskInv
      <4>3. W[i] \in AnyRow
        BY <1>2
      <4> QED BY <4>2, <4>3 DEF Pass
    <3>2. (m[i] /\ W[i] \in Pass(q)) <=> m[i]
      BY <3>1
    <3> QED BY <3>0, <3>2
  <2>2. PICK M : M = Masked(W, m, Pass(q))
    OBVIOUS
  <2>3. M \in Seq(BOOLEAN) /\ Len(M) = Len(m) /\ DOMAIN M = DOMAIN m /\ \A i \in DOMAIN m : M[i] = (m[i] /\ W[i] \in Pass(q))
    BY <2>2, MaskedType
  <2>4. \A i \in DOMAIN m : M[i] = m[i]
    BY <2>1, <2>3
  <2>5. \A i \in 1 .. Len(M) : M[i] = m[i]
    BY <2>3, <2>4
  <2>6. M = m
    BY <2>3, <2>5, SameElements
  <2> QED BY <2>2, <2>6
<1>6. Now(t, q) = X
  <2>1. Only(FilterBy(W, m), Pass(q)) = FilterBy(W, Masked(W, m, Pass(q)))
    BY <1>2, OnlyFilter
  <2> QED BY <1>1, <1>2, <1>3, <1>5, <2>1 DEF Now
<1>7. \A i \in DOMAIN cols : t.arrays[i] = X
  <2>1. \A i \in DOMAIN t.arrays : t.arrays[i] = X
    BY <1>2, <1>3 DEF StreamInv, ArrayInv
  <2>2. cols \in Seq(Nat) /\ t.arrays \in Seq(Seq(AnyRow))
    BY ColsIs DEF StreamInv, TypeInv, StreamRecord
  <2>3. DOMAIN t.arrays = DOMAIN cols
    BY <2>2
  <2> QED BY <2>1, <2>3
<1>8. [k \in 1 .. n |-> [i \in DOMAIN cols |-> t.arrays[i][k]]] = [k \in 1 .. n |-> [i \in DOMAIN cols |-> X[k]]]
  BY <1>7, Zenon
<1>9. Tuples(q, X) = [k \in 1 .. n |-> [i \in DOMAIN cols |-> X[k]]]
  BY <1>4, Zenon DEF Tuples
<1>10. [k \in 1..Cardinality(SetBits(t.mask)) |-> [i \in DOMAIN cols |-> t.arrays[i][k]]]
         = [k \in 1 .. n |-> [i \in DOMAIN cols |-> t.arrays[i][k]]]
  BY <1>2, <1>4, Zenon
<1> QED BY <1>6, <1>8, <1>9, <1>10, Zenon

-----------------------------------------------------------------------------
(* The invariant of all streams                                            *)

\* The identifiers of files fit their field.
LEMMA FilesFit == Inv => Registered(files)
<1> SUFFICES ASSUME Inv PROVE Registered(files)
  OBVIOUS
<1>1. RegistryInv
  BY DEF Inv
<1>2. IsFiniteSet(Streams) /\ Cardinality(Streams) <= Field /\ Field \in Nat
  BY StreamAssumption
<1>3. Opened \subseteq Streams
  BY DEF Opened
<1>4. PICK c \in Nat, m \in Nat : c = Cardinality(Opened) /\ m = Cardinality(Streams) /\ c <= m
  BY <1>2, <1>3, FS_Subset, FS_CardinalityType
<1>5. nextFile \in Nat /\ nextFile <= c
  BY <1>1, <1>4 DEF RegistryInv
<1>6. nextFile <= Field
  BY <1>2, <1>4, <1>5
<1>7. ASSUME NEW l \in DOMAIN files PROVE files[l] \in Nat /\ files[l] < Field
  <2>1. files[l] \in Nat /\ files[l] < nextFile
    BY <1>1 DEF RegistryInv
  <2> QED BY <1>2, <1>5, <1>6, <2>1
<1>8. \A k, l \in DOMAIN files : files[k] = files[l] => k = l
  BY <1>1 DEF RegistryInv
<1> QED BY <1>7, <1>8 DEF Registered

\* A step of one stream leaves the others as they are.
LEMMA StepKeeps ==
  ASSUME Inv, NEW s \in Streams, NEW t2, NEW o2,
         st' = [st EXCEPT ![s] = t2], out' = [out EXCEPT ![s] = o2],
         UNCHANGED <<files, nextFile, query>>, DOMAIN cached \subseteq DOMAIN cached',
         st[s].pc # "new", t2.pc # "new", CacheInv(files, cached'), StreamInv(t2, query[s], o2, files, cached')
  PROVE  Inv'
<1>1. st = [r \in Streams |-> st[r]] /\ out = [r \in Streams |-> out[r]]
  BY DEF Inv
<1>2. st' = [r \in Streams |-> st'[r]] /\ out' = [r \in Streams |-> out'[r]]
  <2>1. PICK x, y : x = st' /\ y = out'
    OBVIOUS
  <2>2. x = [r \in Streams |-> IF r = s THEN t2 ELSE st[r]] /\ y = [r \in Streams |-> IF r = s THEN o2 ELSE out[r]]
    BY <1>1, <2>1
  <2>3. x = [r \in Streams |-> x[r]] /\ y = [r \in Streams |-> y[r]]
    BY <2>2, Zenon
  <2> QED BY <2>1, <2>3, Zenon
<1>3. st'[s] = t2 /\ out'[s] = o2 /\ \A r \in Streams : r # s => st'[r] = st[r] /\ out'[r] = out[r]
  BY <1>1
<1>4. Opened' = Opened
  BY <1>3 DEF Opened
<1>5. RegistryInv'
  BY <1>4 DEF Inv, RegistryInv
<1>6. ASSUME NEW r \in Streams PROVE WellFormed(query'[r]) /\ StreamInv(st'[r], query'[r], out'[r], files', cached')
  <2>1. WellFormed(query[r]) /\ StreamInv(st[r], query[r], out[r], files, cached)
    BY DEF Inv
  <2>2. CASE r = s
    BY <1>3, <2>1, <2>2
  <2>3. CASE r # s
    <3>1. StreamInv(st[r], query[r], out[r], files, cached')
      BY <2>1, StreamStable
    <3> QED BY <1>3, <2>1, <2>3, <3>1
  <2> QED BY <2>2, <2>3
<1>7. CacheInv(files', cached')
  OBVIOUS
<1> QED BY <1>2, <1>5, <1>6, <1>7 DEF Inv

\* Nothing happens.
LEMMA StutterKeeps == Inv /\ UNCHANGED vars => Inv'
<1> SUFFICES ASSUME Inv, UNCHANGED vars PROVE Inv'
  OBVIOUS
<1>1. UNCHANGED <<files, nextFile, cached, query, st, out>>
  BY DEF vars
<1>2. Opened' = Opened
  BY <1>1 DEF Opened
<1>3. RegistryInv'
  BY <1>1, <1>2 DEF Inv, RegistryInv
<1> QED BY <1>1, <1>3 DEF Inv

\* The cache is reset while no stream runs.
LEMMA ResetKeeps == Inv /\ Reset => Inv'
<1> SUFFICES ASSUME Inv, Reset PROVE Inv'
  OBVIOUS
<1>1. /\ UNCHANGED <<nextFile, query, st, out>> /\ files' = <<>> /\ cached' = <<>>
      /\ \A s \in Streams : st[s].pc \in {"new", "end"}
  BY DEF Reset, ResetCache
<1>2. Opened' = Opened
  BY <1>1 DEF Opened
<1>3. DOMAIN files' = {} /\ DOMAIN cached' = {}
  BY <1>1
<1>4. RegistryInv'
  BY <1>1, <1>2, <1>3 DEF Inv, RegistryInv
<1>5. CacheInv(files', cached')
  BY <1>3 DEF CacheInv
<1>6. ASSUME NEW s \in Streams PROVE WellFormed(query[s]) /\ StreamInv(st[s], query[s], out[s], files', cached')
  <2>1. WellFormed(query[s]) /\ StreamInv(st[s], query[s], out[s], files, cached)
    BY DEF Inv
  <2> QED BY <1>1, <2>1, StreamIdle
<1> QED BY <1>1, <1>4, <1>5, <1>6 DEF Inv

\* The invariant holds at first: nothing is cached and every stream is new.
LEMMA InitInv == Init => Inv
<1> SUFFICES ASSUME Init PROVE Inv
  OBVIOUS
<1>1. files = <<>> /\ nextFile = 0 /\ cached = <<>>
  BY DEF Init, CacheInit
<1>2. ASSUME NEW s \in Streams
      PROVE  /\ WellFormed(query[s]) /\ st[s].pc = "new" /\ out[s] = <<>>
             /\ StreamInv(st[s], query[s], out[s], files, cached)
  <2>1. query[s] \in Queries[s]
    BY DEF Init
  <2>2. WellFormed(query[s])
    BY <2>1, QueriesWellFormed
  <2>3. st[s] = [pc |-> "new", file |-> 0, groups |-> query[s].groups,
              selection |-> query[s].selection, limit |-> query[s].limit,
              group |-> 0, queue |-> <<>>, missing |-> <<>>, done |-> 0, col |-> 1,
              batch |-> 0, mask |-> <<>>, pred |-> 1, arrays |-> <<>>]
    BY DEF Init
  <2>4. out[s] = <<>>
    BY DEF Init
  <2>5. StreamInv(st[s], query[s], <<>>, files, cached)
    BY <2>2, <2>3, NewStream
  <2>6. st[s].pc = "new"
    BY <2>3
  <2> QED BY <2>2, <2>4, <2>5, <2>6
<1>3. DOMAIN files = {} /\ DOMAIN cached = {}
  BY <1>1
<1>4. RegistryInv
  <2>1. Opened = {}
    BY <1>2 DEF Opened
  <2>2. Cardinality(Opened) = 0
    BY <2>1, FS_EmptySet
  <2> QED BY <1>1, <1>3, <2>2 DEF RegistryInv
<1>5. CacheInv(files, cached)
  BY <1>3 DEF CacheInv
<1>6. st = [s \in Streams |-> st[s]] /\ out = [s \in Streams |-> out[s]]
  <2>1. st = [s \in Streams |-> st[s]]
    BY DEF Init
  <2>2. out = [s \in Streams |-> <<>>]
    BY DEF Init
  <2> QED BY <2>1, <2>2, Zenon
<1> QED BY <1>2, <1>4, <1>5, <1>6 DEF Inv

\* LiquidParquetOpener::open gives a new location the next identifier.
LEMMA OpenKeeps ==
  ASSUME Inv, NEW s \in Streams, Open(s)
  PROVE  Inv'
<1>1. PICK l : l = Location[query[s].file]
  OBVIOUS
<1>2. PICK id : id = FileIdOf(query[s].file)
  OBVIOUS
<1>3. /\ files' = Extend(files, l, id) /\ nextFile' = (IF l \in DOMAIN files THEN nextFile ELSE nextFile + 1)
      /\ st[s].pc = "new" /\ UNCHANGED <<cached, query, out>> /\ id = (IF l \in DOMAIN files THEN files[l] ELSE nextFile)
  BY <1>1, <1>2 DEF Open, RegisterOrGetFile, FileIdOf
<1>4. PICK t2 : t2 = Opening(st[s], id)
  OBVIOUS
<1>5. st' = [st EXCEPT ![s] = t2]
  BY <1>2, <1>4 DEF Open, Become, Opening
<1>6. RegistryInv /\ CacheInv(files, cached) /\ st = [r \in Streams |-> st[r]] /\ out = [r \in Streams |-> out[r]]
  BY DEF Inv
<1>7. WellFormed(query[s]) /\ StreamInv(st[s], query[s], out[s], files, cached)
  BY DEF Inv
<1>8. /\ nextFile \in Nat /\ nextFile <= Cardinality(Opened)
      /\ \A k \in DOMAIN files : files[k] \in Nat /\ files[k] < nextFile
      /\ \A j, k \in DOMAIN files : files[j] = files[k] => j = k
  BY <1>6 DEF RegistryInv
<1>9. id \in Nat
  BY <1>3, <1>8
<1>10. DOMAIN files' = DOMAIN files \cup {l} /\ files'[l] = id /\ \A k \in DOMAIN files : files'[k] = files[k]
  BY <1>3 DEF Extend
<1>11. st'[s] = t2 /\ \A r \in Streams : r # s => st'[r] = st[r]
  BY <1>5, <1>6
<1>12. t2.pc = "init"
  <2>1. st[s] \in StreamRecord
    BY <1>7 DEF StreamInv, TypeInv
  <2> QED BY <1>4, <2>1 DEF StreamRecord, Opening
<1>13. Opened' = Opened \cup {s} /\ s \notin Opened
  BY <1>3, <1>11, <1>12 DEF Opened
<1>14. PICK c \in Nat : c = Cardinality(Opened) /\ Cardinality(Opened') = c + 1
  <2>1. IsFiniteSet(Opened)
    BY StreamAssumption, FS_Subset DEF Opened
  <2> QED BY <1>13, <2>1, FS_AddElement, FS_CardinalityType
<1>15. RegistryInv'
  <2>1. nextFile' \in Nat /\ nextFile' <= c + 1 /\ nextFile <= nextFile' /\ id < nextFile'
    BY <1>3, <1>8, <1>14
  <2>2. \A k \in DOMAIN files' : files'[k] \in Nat /\ files'[k] < nextFile'
    BY <1>8, <1>9, <1>10, <2>1
  <2>3. \A k \in DOMAIN files : files[k] = id => k = l
    BY <1>3, <1>8
  <2>4. \A j, k \in DOMAIN files' : files'[j] = files'[k] => j = k
    BY <1>8, <1>10, <2>3
  <2> QED BY <1>14, <2>1, <2>2, <2>4 DEF RegistryInv
<1>16. CacheInv(files', cached')
  <2>1. ASSUME NEW e \in DOMAIN cached, NEW f, NEW g, NEW x, NEW b, Holds(e, files, cached, f, g, x, b)
        PROVE  Holds(e, files', cached, f, g, x, b)
    BY <1>10, <2>1 DEF Holds
  <2> QED BY <1>3, <1>6, <2>1 DEF CacheInv
<1>17. ASSUME NEW r \in Streams PROVE WellFormed(query[r]) /\ StreamInv(st'[r], query[r], out[r], files', cached)
  <2>1. WellFormed(query[r]) /\ StreamInv(st[r], query[r], out[r], files, cached)
    BY DEF Inv
  <2>2. CASE r = s
    <3>1. StreamInv(t2, query[s], out[s], files', cached)
      <4>1. PICK F2 : F2 = files'
        OBVIOUS
      <4>2. Location[query[s].file] \in DOMAIN F2 /\ F2[Location[query[s].file]] = id
        BY <1>1, <1>10, <4>1
      <4>3. st[s].pc = "new"
        BY <1>3
      <4>4. StreamInv(t2, query[s], out[s], F2, cached)
        BY <1>4, <1>7, <1>9, <4>2, <4>3, OpenStream
      <4> QED BY <4>1, <4>4
    <3> QED BY <1>11, <2>1, <2>2, <3>1
  <2>3. CASE r # s
    <3>1. StreamInv(st[r], query[r], out[r], files', cached)
      <4>1. \A k \in DOMAIN files : k \in DOMAIN files' /\ files'[k] = files[k]
        BY <1>10
      <4> QED BY <2>1, <4>1, StreamStable
    <3> QED BY <1>11, <2>1, <2>3, <3>1
  <2> QED BY <2>2, <2>3
<1>18. st' = [r \in Streams |-> st'[r]]
  <2>1. PICK x : x = st'
    OBVIOUS
  <2>2. x = [r \in Streams |-> IF r = s THEN t2 ELSE st[r]]
    BY <1>5, <1>6, <2>1
  <2>3. x = [r \in Streams |-> x[r]]
    BY <2>2, Zenon
  <2> QED BY <2>1, <2>3, Zenon
<1> QED BY <1>3, <1>6, <1>15, <1>16, <1>17, <1>18 DEF Inv

\* A step of one stream that changes neither the cache nor what was handed out
LEMMA QuietStep ==
  ASSUME Inv, NEW s \in Streams, NEW t2, Become(s, t2), UNCHANGED <<files, nextFile, cached, query, out>>,
         st[s].pc # "new", t2.pc # "new", StreamInv(t2, query[s], out[s], files, cached)
  PROVE  Inv'
<1>1. out = [r \in Streams |-> out[r]] /\ CacheInv(files, cached)
  BY DEF Inv
<1>2. out' = [out EXCEPT ![s] = out[s]]
  BY <1>1
<1>3. st' = [st EXCEPT ![s] = t2]
  BY DEF Become
<1>4. CacheInv(files, cached') /\ DOMAIN cached \subseteq DOMAIN cached'
  BY <1>1
<1>5. StreamInv(t2, query[s], out[s], files, cached')
  OBVIOUS
<1> QED BY <1>2, <1>3, <1>4, <1>5, StepKeeps

\* poll_next in StreamState::Init
LEMMA PlanKeeps ==
  ASSUME Inv, NEW s \in Streams, Plan(s)
  PROVE  Inv'
<1>1. PICK t, q, o : t = st[s] /\ q = query[s] /\ o = out[s]
  OBVIOUS
<1>2. WellFormed(q) /\ StreamInv(t, q, o, files, cached) /\ TypeInv(t, q) /\ t \in StreamRecord
  BY <1>1 DEF Inv, StreamInv, TypeInv
<1>3. t.pc = "init" /\ UNCHANGED <<files, nextFile, cached, query, out>>
  BY <1>1, Zenon DEF Plan
<1>4. CASE t.groups = <<>>
  <2>1. PICK t2 : t2 = Ending(t)
    OBVIOUS
  <2>2. Become(s, t2)
    BY <1>1, <1>4, <2>1 DEF Plan, Ending
  <2>3. StreamInv(t2, q, o, files, cached)
    BY <1>2, <1>3, <1>4, <2>1, EndStream
  <2>4. t2.pc = "end"
    BY <1>2, <2>1 DEF Ending, StreamRecord
  <2> QED BY <1>1, <1>3, <2>2, <2>3, <2>4, QuietStep
<1>5. CASE t.groups # <<>>
  <2>1. PICK group : group = Head(t.groups)
    OBVIOUS
  <2>2. PICK rows : rows = NumRows[q.file][group]
    OBVIOUS
  <2>3. PICK split : split = SplitSelection(t, rows)
    OBVIOUS
  <2>4. PICK plan : plan = Limited(t, split.first)
    OBVIOUS
  <2>5. PICK left : left = IF t.limit = None THEN None ELSE t.limit - RowCount(plan)
    OBVIOUS
  <2>6. Planned(t, q, group, split, plan, left)
    BY <1>2, <1>5, <2>1, <2>2, <2>3, <2>4, <2>5, PlanAsk
  <2>7. CASE RowCount(plan) = 0
    <3>1. PICK t2 : t2 = Skipping(t, split.rest)
      OBVIOUS
    <3>2. Become(s, t2)
      BY <1>1, <1>5, <2>1, <2>2, <2>3, <2>4, <2>7, <3>1, Zenon DEF Plan, Skipping
    <3>3. StreamInv(t2, q, o, files, cached)
      BY <1>2, <1>3, <2>6, <2>7, <3>1, SkipGroup
    <3>4. t2.pc # "new"
      BY <1>2, <1>3, <3>1 DEF Skipping, StreamRecord
    <3> QED BY <1>1, <1>3, <3>2, <3>3, <3>4, QuietStep
  <2>8. CASE RowCount(plan) # 0
    <3>1. PICK w : w = CollectSelectionBatches(plan, BatchSize, rows)
      OBVIOUS
    <3>2. PICK missing : missing = FilterBy(w, Uncached(w, t.file, group, Cols(q), cached))
      OBVIOUS
    <3>3. MissingBatches(s, group, w) = missing
      BY <1>1, <3>2 DEF MissingBatches, Uncached, IsCached, CacheColumns, Cols
    <3>4. PICK t2 : t2 = Planning(t, split.rest, group, plan, missing)
      OBVIOUS
    <3>5. Become(s, t2)
      BY <1>1, <1>5, <2>1, <2>2, <2>3, <2>4, <2>8, <3>1, <3>3, <3>4, Zenon DEF Plan, Planning
    <3>6. Lacking(missing, plan, t.file, group, Cols(q), NumRows[q.file][group], cached)
      <4>1. /\ q.file \in Files /\ group \in DOMAIN NumRows[q.file] /\ plan \in Seq(Run)
            /\ Len(Bits(plan)) <= rows
        BY <1>2, <2>2, <2>6 DEF Planned, WellFormed
      <4>2. Cols(q) \in Seq(Nat)
        BY <1>2, ColsIs
      <4>3. Lacking(FilterBy(w, Uncached(w, t.file, group, Cols(q), cached)), plan, t.file, group, Cols(q), rows, cached)
        BY <2>2, <3>1, <4>1, <4>2, MissingIs
      <4> QED BY <2>2, <3>2, <4>3
    <3>7. StreamInv(t2, q, o, files, cached)
      BY <1>2, <1>3, <2>5, <2>6, <3>4, <3>6, PlanGroup
    <3>8. t2.pc # "new"
      <4>1. t2.pc = IF missing = <<>> THEN "read" ELSE "fill"
        BY <1>2, <3>4 DEF Planning, StreamRecord
      <4> QED BY <4>1
    <3> QED BY <1>1, <1>3, <3>5, <3>7, <3>8, QuietStep
  <2> QED BY <2>7, <2>8
<1> QED BY <1>4, <1>5

\* the state of a stream that fills the cache
Fills(s, t, q, o) ==
  /\ t = st[s] /\ q = query[s] /\ o = out[s]
  /\ WellFormed(q) /\ StreamInv(t, q, o, files, cached) /\ t \in StreamRecord
  /\ q.file \in Files /\ t.group \in DOMAIN NumRows[q.file] /\ t.done \in Nat /\ t.missing \in Seq(Nat)
  /\ t.done <= Len(t.missing) /\ (t.pc = "insert" => t.done < Len(t.missing)) /\ t.col \in DOMAIN Cols(q)
  /\ \A k \in DOMAIN t.missing : t.missing[k] * BatchSize < NumRows[q.file][t.group]
  /\ Len(ParquetBatches(s)) = Len(t.missing)
  /\ \A k \in DOMAIN t.missing : ParquetBatches(s)[k] = BatchRows(q.file, t.group, t.missing[k])

\* What the invariant says of a stream that fills the cache
LEMMA FillState ==
  ASSUME Inv, NEW s \in Streams, st[s].pc \in Filling
  PROVE  Fills(s, st[s], query[s], out[s])
<1>1. PICK t, q, o : t = st[s] /\ q = query[s] /\ o = out[s]
  OBVIOUS
<1>2. WellFormed(q) /\ StreamInv(t, q, o, files, cached) /\ t \in StreamRecord /\ t.pc \in Filling /\ t.pc \in Scanning
  BY <1>1 DEF Inv, StreamInv, TypeInv, Filling, Scanning
<1>3. q.file \in Files /\ t.group \in DOMAIN NumRows[q.file] /\ t.done \in Nat /\ t.missing \in Seq(Nat)
  BY <1>2 DEF WellFormed, StreamInv, QueueInv, StreamRecord
<1>4. /\ t.done <= Len(t.missing) /\ (t.pc = "insert" => t.done < Len(t.missing)) /\ t.col \in DOMAIN Cols(q)
      /\ Batches(t.missing, BatchSize, NumRows[q.file][t.group])
  BY <1>2 DEF StreamInv, FillInv
<1>5. \A k \in DOMAIN t.missing : t.missing[k] * BatchSize < NumRows[q.file][t.group]
  BY <1>4 DEF Batches
<1>6. /\ Len(ParquetBatches(s)) = Len(t.missing)
      /\ \A k \in DOMAIN t.missing : ParquetBatches(s)[k] = BatchRows(q.file, t.group, t.missing[k])
  <2>0. PICK f \in Files : f = query[s].file
    BY <1>1, <1>3
  <2>1. PICK g \in DOMAIN NumRows[f] : g = st[s].group
    BY <1>1, <1>3, <2>0
  <2>4. PICK missing : missing = st[s].missing
    OBVIOUS
  <2>2. Batches(missing, BatchSize, NumRows[f][g])
    BY <1>1, <1>4, <2>0, <2>1, <2>4
  <2>3. Len(ParquetBatches(s)) = Len(missing) /\ \A k \in DOMAIN missing : ParquetBatches(s)[k] = BatchRows(f, g, missing[k])
    BY <2>0, <2>1, <2>2, <2>4, FileDelivers
  <2> QED BY <1>1, <2>0, <2>1, <2>3, <2>4
<1> QED BY <1>1, <1>2, <1>3, <1>4, <1>5, <1>6 DEF Fills

\* NextColumn is Forward.
LEMMA NextColumnIs ==
  ASSUME NEW s, NEW t, NEW q, t = st[s], q = query[s] PROVE NextColumn(s) = Forward(t, q)
  BY DEF NextColumn, Forward, CacheColumns, Cols

\* The file ends where the missing batches do, or there is one more to look at.
LEMMA FillBatchKeeps ==
  ASSUME Inv, NEW s \in Streams, FillBatch(s)
  PROVE  Inv'
<1>1. PICK t, q, o : t = st[s] /\ q = query[s] /\ o = out[s]
  OBVIOUS
<1>2. t.pc = "fill" /\ UNCHANGED <<files, nextFile, cached, query, out>>
  BY <1>1 DEF FillBatch
<1>3. Fills(s, t, q, o) /\ t.pc \in Filling
  BY <1>1, <1>2, FillState DEF Filling
<1>4. /\ WellFormed(q) /\ StreamInv(t, q, o, files, cached) /\ t \in StreamRecord /\ t.done \in Nat /\ t.missing \in Seq(Nat)
      /\ t.done <= Len(t.missing) /\ Len(ParquetBatches(s)) = Len(t.missing)
  BY <1>3 DEF Fills
<1>5. CASE t.done = Len(t.missing)
  <2>1. PICK t2 : t2 = Filled(t)
    OBVIOUS
  <2>2. Become(s, t2)
    BY <1>1, <1>4, <1>5, <2>1 DEF FillBatch, Filled
  <2>3. StreamInv(t2, q, o, files, cached)
    BY <1>2, <1>4, <1>5, <2>1, FillEnds
  <2>4. t2.pc # "new"
    BY <1>4, <2>1 DEF Filled, StreamRecord
  <2> QED BY <1>1, <1>2, <2>2, <2>3, <2>4, QuietStep
<1>6. CASE t.done # Len(t.missing)
  <2>1. t.done < Len(t.missing)
    BY <1>4, <1>6
  <2>2. PICK id : id = EntryId(t.file, t.group, Cols(q)[t.col], t.missing[t.done + 1])
    OBVIOUS
  <2>3. id = Entry(s, CacheColumns(s)[t.col], t.missing[t.done + 1])
    BY <1>1, <2>2 DEF Entry, CacheColumns, Cols
  <2>4. CASE id \in DOMAIN cached
    <3>1. PICK t2 : t2 = Forward(t, q)
      OBVIOUS
    <3>2. Become(s, NextColumn(s))
      BY <1>1, <1>4, <1>6, <2>1, <2>3, <2>4 DEF FillBatch, IsCached
    <3>3. Become(s, t2)
      BY <1>1, <3>1, <3>2, NextColumnIs
    <3>4. StreamInv(t2, q, o, files, cached)
      BY <1>3, <1>4, <2>1, <2>2, <2>4, <3>1, FillNext
    <3>5. t2.pc # "new"
      BY <1>4, <3>1 DEF Forward, StreamRecord
    <3> QED BY <1>1, <1>2, <3>3, <3>4, <3>5, QuietStep
  <2>5. CASE id \notin DOMAIN cached
    <3>1. PICK t2 : t2 = Inserting(t)
      OBVIOUS
    <3>2. Become(s, t2)
      BY <1>1, <1>4, <1>6, <2>1, <2>3, <2>5, <3>1 DEF FillBatch, IsCached, Inserting
    <3>3. StreamInv(t2, q, o, files, cached)
      BY <1>2, <1>4, <2>1, <3>1, FillMisses
    <3>4. t2.pc # "new"
      BY <1>4, <3>1 DEF Inserting, StreamRecord
    <3> QED BY <1>1, <1>2, <3>2, <3>3, <3>4, QuietStep
  <2> QED BY <2>4, <2>5
<1> QED BY <1>5, <1>6

\* CachedColumn::insert stores the rows of the batch under its identifier.
LEMMA FillInsertKeeps ==
  ASSUME Inv, NEW s \in Streams, FillInsert(s)
  PROVE  Inv'
<1>1. PICK t, q, o : t = st[s] /\ q = query[s] /\ o = out[s]
  OBVIOUS
<1>2. t.pc = "insert" /\ UNCHANGED <<files, nextFile, query, out>>
  BY <1>1 DEF FillInsert
<1>3. Fills(s, t, q, o) /\ t.pc \in Filling /\ t.pc \notin {"new", "end"}
  BY <1>1, <1>2, FillState DEF Filling
<1>4. /\ WellFormed(q) /\ StreamInv(t, q, o, files, cached) /\ t \in StreamRecord /\ t.done \in Nat /\ t.missing \in Seq(Nat)
      /\ t.done < Len(t.missing) /\ q.file \in Files /\ t.group \in DOMAIN NumRows[q.file] /\ t.col \in DOMAIN Cols(q)
  BY <1>2, <1>3 DEF Fills
<1>5. PICK b : b = t.missing[t.done + 1]
  OBVIOUS
<1>6. PICK id : id = EntryId(t.file, t.group, Cols(q)[t.col], b)
  OBVIOUS
<1>7. PICK C2 : C2 = Extend(cached, id, BatchRows(q.file, t.group, b))
  OBVIOUS
<1>8. t.done + 1 \in DOMAIN t.missing
  BY <1>4
<1>9. b \in Nat /\ b * BatchSize < NumRows[q.file][t.group] /\ ParquetBatches(s)[t.done + 1] = BatchRows(q.file, t.group, b)
  BY <1>3, <1>4, <1>5, <1>8 DEF Fills
<1>10. cached' = C2
  <2>1. id = Entry(s, CacheColumns(s)[t.col], t.missing[t.done + 1])
    BY <1>1, <1>5, <1>6 DEF Entry, CacheColumns, Cols
  <2> QED BY <1>1, <1>7, <1>9, <2>1 DEF FillInsert
<1>11. DOMAIN C2 = DOMAIN cached \cup {id} /\ C2[id] = BatchRows(q.file, t.group, b) /\ \A e \in DOMAIN cached : e # id => C2[e] = cached[e]
  BY <1>7 DEF Extend
<1>12. CacheInv(files, C2)
  <2> SUFFICES ASSUME NEW e \in DOMAIN C2
               PROVE  \E f \in Files : \E g \in DOMAIN NumRows[f] : \E c \in 0..(NumColumns - 1), x \in Nat :
                        Holds(e, files, C2, f, g, c, x)
    BY DEF CacheInv
  <2>1. CASE e = id
    <3>1. Location[q.file] \in DOMAIN files /\ files[Location[q.file]] = t.file
      BY <1>3, <1>4 DEF StreamInv, FileInv
    <3>2. PICK c \in 0..(NumColumns - 1) : c = Cols(q)[t.col]
      BY <1>4, ColsIs
    <3>3. Holds(e, files, C2, q.file, t.group, c, b)
      BY <1>6, <1>9, <1>11, <2>1, <3>1, <3>2 DEF Holds
    <3> QED BY <1>4, <1>9, <3>3
  <2>2. CASE e # id
    <3>1. e \in DOMAIN cached
      BY <1>11, <2>2
    <3>2. PICK f \in Files : \E g \in DOMAIN NumRows[f] : \E c \in 0..(NumColumns - 1), x \in Nat :
            Holds(e, files, cached, f, g, c, x)
      BY <3>1 DEF Inv, CacheInv
    <3>3. PICK g \in DOMAIN NumRows[f], c \in 0..(NumColumns - 1), x \in Nat : Holds(e, files, cached, f, g, c, x)
      BY <3>2
    <3>4. Holds(e, files, C2, f, g, c, x)
      BY <1>11, <2>2, <3>1, <3>3 DEF Holds
    <3> QED BY <3>4
  <2> QED BY <2>1, <2>2
<1>13. StreamInv(t, q, o, files, C2)
  <2>1. DOMAIN cached \subseteq DOMAIN C2
    BY <1>11
  <2> QED BY <1>4, <2>1, StreamStable
<1>14. PICK t2 : t2 = Forward(t, q)
  OBVIOUS
<1>15. StreamInv(t2, q, o, files, C2)
  <2>1. EntryId(t.file, t.group, Cols(q)[t.col], t.missing[t.done + 1]) \in DOMAIN C2
    BY <1>5, <1>6, <1>11
  <2> QED BY <1>3, <1>4, <1>13, <1>14, <2>1, FillNext
<1>16. t2.pc # "new"
  BY <1>4, <1>14 DEF Forward, StreamRecord
<1>17. st' = [st EXCEPT ![s] = t2]
  <2>1. Become(s, NextColumn(s))
    BY DEF FillInsert
  <2> QED BY <1>1, <1>14, <2>1, NextColumnIs DEF Become
<1>18. out' = [out EXCEPT ![s] = o]
  BY <1>1, <1>2 DEF Inv
<1>19. CacheInv(files, cached') /\ DOMAIN cached \subseteq DOMAIN cached' /\ StreamInv(t2, query[s], o, files, cached')
  BY <1>1, <1>10, <1>11, <1>12, <1>15
<1>20. st[s].pc # "new"
  BY <1>1, <1>2
<1> QED BY <1>2, <1>16, <1>17, <1>18, <1>19, <1>20, StepKeeps

\* take_next_batch, or the row group is finished
LEMMA ReadNextKeeps ==
  ASSUME Inv, NEW s \in Streams, ReadNext(s)
  PROVE  Inv'
<1>1. PICK t, q, o : t = st[s] /\ q = query[s] /\ o = out[s]
  OBVIOUS
<1>2. t.pc = "read" /\ UNCHANGED <<files, nextFile, cached, query, out>>
  BY <1>1, Zenon DEF ReadNext
<1>3. WellFormed(q) /\ StreamInv(t, q, o, files, cached) /\ t \in StreamRecord /\ TypeInv(t, q) /\ QueueInv(t, q)
  BY <1>1 DEF Inv, StreamInv, TypeInv
<1>4. q.file \in Files /\ t.group \in DOMAIN NumRows[q.file] /\ Len(Bits(t.queue)) <= Len(Onward(t, q))
  BY <1>2, <1>3 DEF WellFormed, QueueInv, Scanning
<1>5. PICK queue \in Seq(Run) : queue = t.queue
  BY <1>3 DEF StreamRecord
<1>6. PICK size \in Nat : size = Lesser(BatchSize, FileRows(q.file))
  <2>1. BatchSize \in Nat /\ FileRows(q.file) \in Nat
    BY <1>4, StreamAssumption, FileRowsIs
  <2> QED BY <2>1, LesserIs
<1>7. PICK next : next = TakeNextBatch(queue, size)
  OBVIOUS
<1>8. PICK n : n = Lesser(size, Len(Bits(queue)))
  OBVIOUS
<1>9. /\ next.batch \in Seq(Run) /\ next.rest \in Seq(Run) /\ n \in 0 .. Len(Bits(queue))
      /\ Bits(next.batch) = SubSeq(Bits(queue), 1, n)
      /\ Bits(next.rest) = SubSeq(Bits(queue), n + 1, Len(Bits(queue)))
  BY <1>7, <1>8, TakeNextBatchBits
<1>10. RowsUpTo(next.batch, Len(next.batch)) = n
  <2>1. RowsUpTo(next.batch, Len(next.batch)) = Len(Bits(next.batch))
    BY <1>9, RowsUpToIs
  <2>2. PICK B \in Seq(BOOLEAN) : B = Bits(queue)
    BY BitsType
  <2>3. n \in 0 .. Len(B)
    BY <1>9, <2>2
  <2>4. Len(SubSeq(B, 1, n)) = n
    BY <2>3, SplitSeq
  <2> QED BY <1>9, <2>1, <2>2, <2>4
<1>11. next = TakeNextBatch(t.queue, StreamBatchSize(s))
  BY <1>1, <1>5, <1>6, <1>7 DEF StreamBatchSize
<1>12. Len(Bits(queue)) \in Nat /\ Len(Bits(queue)) <= NumRows[q.file][t.group]
  <2>1. PICK R \in Seq(AnyRow), rows \in Nat : R = GroupRows(q.file, t.group) /\ rows = NumRows[q.file][t.group] /\ Len(R) = rows
    BY <1>4, GroupRowsType
  <2>2. PICK a \in Nat : a = Ahead(t) * BatchSize
    BY <1>3, <1>4, OnwardType
  <2>3. PICK d \in Nat : d = Len(Drop(R, a)) /\ d = (IF a <= rows THEN rows - a ELSE 0)
    BY <2>1, DropIs
  <2>4. Len(Bits(queue)) <= d
    BY <1>4, <1>5, <2>1, <2>2, <2>3 DEF Onward
  <2>5. PICK l \in Nat : l = Len(Bits(queue))
    BY BitsType
  <2>6. l <= rows
    BY <2>3, <2>4, <2>5
  <2> QED BY <2>1, <2>5, <2>6
<1>13. n \in Nat /\ (n = 0 => Len(Bits(queue)) = 0)
  <2>1. PICK l \in Nat : l = Len(Bits(queue)) /\ l <= NumRows[q.file][t.group]
    BY <1>12
  <2>2. n = Lesser(Lesser(BatchSize, FileRows(q.file)), l)
    BY <1>6, <1>8, <2>1
  <2> QED BY <1>4, <2>1, <2>2, BatchTaken
<1>14. CASE n = 0
  <2>1. PICK t2 : t2 = Finishing(t)
    OBVIOUS
  <2>2. Become(s, t2)
    BY <1>1, <1>10, <1>11, <1>14, <2>1, Zenon DEF ReadNext, Finishing
  <2>3. Bits(t.queue) = <<>>
    <3>1. Bits(queue) \in Seq(BOOLEAN) /\ Len(Bits(queue)) = 0
      BY <1>13, <1>14, BitsType
    <3> QED BY <1>5, <3>1
  <2>4. StreamInv(t2, q, o, files, cached)
    BY <1>2, <1>3, <2>1, <2>3, ReadEnds
  <2>5. t2.pc # "new"
    BY <1>3, <2>1 DEF Finishing, StreamRecord
  <2> QED BY <1>1, <1>2, <2>2, <2>4, <2>5, QuietStep
<1>15. CASE n # 0
  <2>1. PICK mask : mask = Bits(next.batch)
    OBVIOUS
  <2>2. PICK t2 : t2 = ReadTo(t, mask, next.rest)
    OBVIOUS
  <2>3. Become(s, t2)
    BY <1>1, <1>10, <1>11, <1>15, <2>1, <2>2, Zenon DEF ReadNext, ReadTo, Bits
  <2>4. Taken(t, q, n, mask, next.rest)
    BY <1>5, <1>6, <1>8, <1>9, <1>15, <2>1, Zenon DEF Taken
  <2>5. StreamInv(t2, q, o, files, cached)
    BY <1>2, <1>3, <2>2, <2>4, ReadBatch
  <2>6. t2.pc # "new"
    BY <1>3, <2>2 DEF ReadTo, StreamRecord
  <2> QED BY <1>1, <1>2, <2>3, <2>5, <2>6, QuietStep
<1> QED BY <1>14, <1>15

\* A column that a stream reads under a mask is cached, and holds the rows of the
\* batch.
LEMMA ReadableColumn ==
  ASSUME Inv, NEW s \in Streams, st[s].pc \in Reading, SetBits(st[s].mask) # {},
         NEW c, \E j \in DOMAIN Cols(query[s]) : Cols(query[s])[j] = c
  PROVE  Readable(s, c) /\ ColumnRows(s, c) = FilterBy(Rows(st[s], query[s]), st[s].mask)
<1>1. PICK t, q, o : t = st[s] /\ q = query[s] /\ o = out[s]
  OBVIOUS
<1>2. /\ WellFormed(q) /\ StreamInv(t, q, o, files, cached) /\ CacheInv(files, cached) /\ Registered(files)
      /\ t.pc \in Reading /\ SetBits(t.mask) # {}
  BY <1>1, FilesFit DEF Inv
<1>3. PICK j \in DOMAIN Cols(q) : Cols(q)[j] = c
  BY <1>1
<1>4. PICK id : id = EntryId(t.file, t.group, Cols(q)[j], t.batch)
  OBVIOUS
<1>5. id \in DOMAIN cached /\ cached[id] = Rows(t, q)
  BY <1>2, <1>4, HeldRows
<1>6. id = Entry(s, c, st[s].batch)
  BY <1>1, <1>3, <1>4 DEF Entry
<1>7. Len(t.mask) <= Len(Rows(t, q))
  BY <1>2, BatchType
<1> QED BY <1>1, <1>5, <1>6, <1>7 DEF Readable, ColumnRows, IsCached

\* The i-th row under the mask passes the predicate, in each column of it.
Passes(s, p, i) == \A c \in p.cols : ColumnRows(s, c)[i] \in p.pass

\* evaluate_selection_with_predicate tests the rows under the mask.
LEMMA EvaluateIs ==
  ASSUME Inv, NEW s \in Streams, st[s].pc \in Reading, SetBits(st[s].mask) # {},
         NEW k \in DOMAIN query[s].predicates, NEW p, p = query[s].predicates[k]
  PROVE  /\ \A c \in p.cols : Readable(s, c)
         /\ EvaluateSelection(s, p) = Tested(FilterBy(Rows(st[s], query[s]), st[s].mask), p.pass)
<1>1. PICK X : X = FilterBy(Rows(st[s], query[s]), st[s].mask)
  OBVIOUS
<1>2. WellFormed(query[s])
  BY DEF Inv
<1>3. \A c \in p.cols : \E j \in DOMAIN Cols(query[s]) : Cols(query[s])[j] = c
  BY <1>2, ColsIs
<1>4. \A c \in p.cols : Readable(s, c) /\ ColumnRows(s, c) = X
  BY <1>1, <1>3, ReadableColumn
<1>5. p \in Predicate
  BY <1>2 DEF WellFormed
<1>6. PICK some : some = CHOOSE c \in p.cols : TRUE
  OBVIOUS
<1>7. some \in p.cols
  BY <1>5, <1>6 DEF Predicate
<1>8. EvaluateSelection(s, p) = [i \in DOMAIN ColumnRows(s, some) |-> Passes(s, p, i)]
  BY <1>6 DEF EvaluateSelection, Passes
<1>9. DOMAIN ColumnRows(s, some) = DOMAIN X
  BY <1>4, <1>7
<1>10. ASSUME NEW i \in DOMAIN X PROVE (X[i] \in p.pass) = Passes(s, p, i)
  <2>1. \A c \in p.cols : ColumnRows(s, c)[i] = X[i]
    BY <1>4
  <2>2. (X[i] \in p.pass) <=> Passes(s, p, i)
    BY <1>7, <2>1, Zenon DEF Passes
  <2>3. Passes(s, p, i) \in BOOLEAN
    BY DEF Passes
  <2> QED BY <2>2, <2>3
<1>11. EvaluateSelection(s, p) = [i \in DOMAIN X |-> X[i] \in p.pass]
  BY <1>8, <1>9, <1>10, Zenon
<1> QED BY <1>1, <1>4, <1>11 DEF Tested

\* one turn of build_predicate_filter
LEMMA EvalPredicateKeeps ==
  ASSUME Inv, NEW s \in Streams, EvalPredicate(s)
  PROVE  Inv'
<1>1. PICK t, q, o : t = st[s] /\ q = query[s] /\ o = out[s]
  OBVIOUS
<1>2. t.pc = "filter" /\ UNCHANGED <<files, nextFile, cached, query, out>>
  BY <1>1, Zenon DEF EvalPredicate
<1>3. WellFormed(q) /\ StreamInv(t, q, o, files, cached) /\ t \in StreamRecord /\ t.pc \in Reading
  BY <1>1, <1>2 DEF Inv, StreamInv, TypeInv, Reading
<1>4. CASE t.pred > Len(q.predicates) \/ SetBits(t.mask) = {}
  <2>1. PICK t2 : t2 = Projecting(t)
    OBVIOUS
  <2>2. Become(s, t2)
    BY <1>1, <1>4, <2>1, Zenon DEF EvalPredicate, Projecting
  <2>3. StreamInv(t2, q, o, files, cached)
    BY <1>2, <1>3, <1>4, <2>1, FilterEnds
  <2>4. t2.pc # "new"
    BY <1>3, <2>1 DEF Projecting, StreamRecord
  <2> QED BY <1>1, <1>2, <2>2, <2>3, <2>4, QuietStep
<1>5. CASE ~(t.pred > Len(q.predicates) \/ SetBits(t.mask) = {})
  <2>1. t.pred \in DOMAIN q.predicates
    <3>1. q.predicates \in Seq(Predicate) /\ t.pred \in Nat /\ t.pred # 0
      BY <1>3, BatchType DEF WellFormed, StreamInv, MaskInv
    <3> QED BY <1>5, <3>1
  <2>2. PICK p : p = q.predicates[t.pred]
    OBVIOUS
  <2>3. /\ \A c \in p.cols : Readable(s, c)
        /\ EvaluateSelection(s, p) = Tested(FilterBy(Rows(t, q), t.mask), p.pass)
    <3>1. st[s].pc \in Reading /\ SetBits(st[s].mask) # {} /\ st[s].pred \in DOMAIN query[s].predicates
          /\ p = query[s].predicates[st[s].pred]
      BY <1>1, <1>3, <1>5, <2>1, <2>2
    <3>2. /\ \A c \in p.cols : Readable(s, c)
          /\ EvaluateSelection(s, p) = Tested(FilterBy(Rows(st[s], query[s]), st[s].mask), p.pass)
      BY <3>1, EvaluateIs
    <3> QED BY <1>1, <3>2
  <2>4. PICK mask : mask = Masked(Rows(t, q), t.mask, p.pass)
    OBVIOUS
  <2>5. BooleanBufferAndThen(t.mask, EvaluateSelection(s, p)) = mask
    <3>1. Rows(t, q) \in Seq(AnyRow) /\ t.mask \in Seq(BOOLEAN) /\ Len(t.mask) <= Len(Rows(t, q))
      BY <1>3, BatchType
    <3>2. BooleanBufferAndThen(t.mask, Tested(FilterBy(Rows(t, q), t.mask), p.pass)) = Masked(Rows(t, q), t.mask, p.pass)
      BY <3>1, AndThenMask
    <3> QED BY <2>3, <2>4, <3>2
  <2>6. PICK t2 : t2 = Filtering(t, mask)
    OBVIOUS
  <2>7. Become(s, t2)
    BY <1>1, <1>5, <2>2, <2>3, <2>5, <2>6, Zenon DEF EvalPredicate, Filtering
  <2>8. StreamInv(t2, q, o, files, cached)
    BY <1>2, <1>3, <2>1, <2>2, <2>4, <2>6, FilterStep
  <2>9. t2.pc # "new"
    BY <1>2, <1>3, <2>6 DEF Filtering, StreamRecord
  <2> QED BY <1>1, <1>2, <2>7, <2>8, <2>9, QuietStep
<1> QED BY <1>4, <1>5

\* A step of one stream that hands out rows
LEMMA HandOut ==
  ASSUME Inv, NEW s \in Streams, NEW t2, Become(s, t2), NEW o2, out' = [out EXCEPT ![s] = o2],
         UNCHANGED <<files, nextFile, cached, query>>,
         st[s].pc # "new", t2.pc # "new", StreamInv(t2, query[s], o2, files, cached)
  PROVE  Inv'
<1>1. CacheInv(files, cached)
  BY DEF Inv
<1>2. st' = [st EXCEPT ![s] = t2]
  BY DEF Become
<1>3. CacheInv(files, cached') /\ DOMAIN cached \subseteq DOMAIN cached' /\ StreamInv(t2, query[s], o2, files, cached')
  BY <1>1
<1> QED BY <1>2, <1>3, StepKeeps

\* read_from_cache
LEMMA ProjectKeeps ==
  ASSUME Inv, NEW s \in Streams, Project(s)
  PROVE  Inv'
<1>1. PICK t, q, o : t = st[s] /\ q = query[s] /\ o = out[s]
  OBVIOUS
<1>2. t.pc = "project" /\ UNCHANGED <<files, nextFile, cached, query>>
  BY <1>1, Zenon DEF Project
<1>3. WellFormed(q) /\ StreamInv(t, q, o, files, cached) /\ t \in StreamRecord /\ t.pc \in Reading
  BY <1>1, <1>2 DEF Inv, StreamInv, TypeInv, Reading
<1>4. PICK cols : cols = RootColumns(q.projection) /\ cols = Projection(s)
  BY <1>1 DEF Projection
<1>5. cols \in Seq(Nat) /\ t.arrays \in Seq(Seq(AnyRow)) /\ Len(t.arrays) <= Len(cols)
  BY <1>2, <1>3, <1>4, ColsIs, ZenonT(60) DEF StreamRecord, StreamInv, ArrayInv
<1>6. PICK t2 : t2 = Advancing(t)
  OBVIOUS
<1>7. t2.pc # "new"
  BY <1>3, <1>6 DEF Advancing, StreamRecord
<1>8. PICK o2 : o2 = Cat(o, Tuples(q, Now(t, q)))
  OBVIOUS
<1>9. StreamInv(t2, q, o2, files, cached)
  BY <1>2, <1>3, <1>6, <1>8, BatchEnds
<1>10. CASE SetBits(t.mask) = {}
  <2>1. Become(s, t2) /\ UNCHANGED out
    BY <1>1, <1>6, <1>10, Zenon DEF Project, Advancing
  <2>2. o2 = o
    BY <1>2, <1>3, <1>8, <1>10, NothingNow
  <2> QED BY <1>1, <1>2, <1>7, <1>9, <2>1, <2>2, QuietStep
<1>11. CASE SetBits(t.mask) # {} /\ Len(t.arrays) = Len(cols)
  <2>1. PICK new : new = [k \in 1..Cardinality(SetBits(t.mask)) |-> [i \in DOMAIN cols |-> t.arrays[i][k]]]
    OBVIOUS
  <2>2. Become(s, t2) /\ out' = [out EXCEPT ![s] = @ \o new]
    BY <1>1, <1>4, <1>6, <1>11, <2>1, Zenon DEF Project, Advancing
  <2>3. new = Tuples(q, Now(t, q))
    BY <1>2, <1>3, <1>4, <1>11, <2>1, BatchNow
  <2>4. out[s] \o new = o2
    BY <1>1, <1>8, <2>3 DEF Cat
  <2>5. out' = [out EXCEPT ![s] = o2]
    BY <2>2, <2>4
  <2> QED BY <1>1, <1>2, <1>7, <1>9, <2>2, <2>5, HandOut
<1>12. CASE SetBits(t.mask) # {} /\ Len(t.arrays) # Len(cols)
  <2>1. Len(t.arrays) < Len(cols) /\ Len(t.arrays) + 1 \in DOMAIN cols
    BY <1>5, <1>12
  <2>2. PICK col : col = cols[Len(t.arrays) + 1]
    OBVIOUS
  <2>3. \E j \in DOMAIN Cols(q) : Cols(q)[j] = col
    <3>1. \A i \in DOMAIN RootColumns(q.projection) : \E j \in DOMAIN Cols(q) : Cols(q)[j] = RootColumns(q.projection)[i]
      BY <1>3, ColsIs
    <3> QED BY <1>4, <2>1, <2>2, <3>1
  <2>4. Readable(s, col) /\ ColumnRows(s, col) = FilterBy(Rows(t, q), t.mask)
    <3>1. st[s].pc \in Reading /\ SetBits(st[s].mask) # {} /\ \E j \in DOMAIN Cols(query[s]) : Cols(query[s])[j] = col
      BY <1>1, <1>3, <1>12, <2>3
    <3>2. Readable(s, col) /\ ColumnRows(s, col) = FilterBy(Rows(st[s], query[s]), st[s].mask)
      BY <3>1, ReadableColumn
    <3> QED BY <1>1, <3>2
  <2>5. PICK t3 : t3 = Collecting(t, FilterBy(Rows(t, q), t.mask))
    OBVIOUS
  <2>6. Become(s, t3) /\ UNCHANGED out
    BY <1>1, <1>4, <1>12, <2>2, <2>4, <2>5, Zenon DEF Project, Collecting
  <2>7. StreamInv(t3, q, o, files, cached)
    BY <1>2, <1>3, <1>4, <2>1, <2>5, ColumnRead
  <2>8. t3.pc # "new"
    BY <1>2, <1>3, <2>5 DEF Collecting, StreamRecord
  <2> QED BY <1>1, <1>2, <2>6, <2>7, <2>8, QuietStep
<1> QED BY <1>10, <1>11, <1>12

\* Every step keeps the invariant.
LEMMA NextInv == Inv /\ [Next]_vars => Inv'
<1> SUFFICES ASSUME Inv, [Next]_vars PROVE Inv'
  OBVIOUS
<1>1. CASE UNCHANGED vars
  BY <1>1, StutterKeeps
<1>2. CASE Reset
  BY <1>2, ResetKeeps
<1>3. ASSUME NEW s \in Streams, Open(s) PROVE Inv'
  BY <1>3, OpenKeeps
<1>4. ASSUME NEW s \in Streams, Step(s) PROVE Inv'
  <2>1. CASE Plan(s)
    BY <2>1, PlanKeeps
  <2>2. CASE FillBatch(s)
    BY <2>2, FillBatchKeeps
  <2>3. CASE FillInsert(s)
    BY <2>3, FillInsertKeeps
  <2>4. CASE ReadNext(s)
    BY <2>4, ReadNextKeeps
  <2>5. CASE EvalPredicate(s)
    BY <2>5, EvalPredicateKeeps
  <2>6. CASE Project(s)
    BY <2>6, ProjectKeeps
  <2> QED BY <1>4, <2>1, <2>2, <2>3, <2>4, <2>5, <2>6 DEF Step
<1> QED BY <1>1, <1>2, <1>3, <1>4 DEF Next

\* The invariant has no state for a panic.
LEMMA InvNeverPanics == Inv => NeverPanics
<1> SUFFICES ASSUME Inv, NEW s \in Streams PROVE st[s].pc # "panic"
  BY DEF NeverPanics
<1>1. st[s] \in StreamRecord
  BY DEF Inv, StreamInv, TypeInv
<1>2. st[s].pc \in {"new", "init", "end"} \cup Scanning
  BY <1>1 DEF StreamRecord
<1> QED BY <1>2 DEF Scanning

\* By the invariant an entry holds the rows that its identifier names.
LEMMA InvHolds == Inv => CacheHoldsItsRows
<1> SUFFICES ASSUME Inv, NEW f \in Files, NEW g \in DOMAIN NumRows[f], NEW c \in 0..(Field - 1), NEW b \in 0..(Field - 1),
                    Location[f] \in DOMAIN files, NEW id, id = EntryId(FileIdOf(f), g, c, b), IsCached(id)
             PROVE  cached[id] = BatchRows(f, g, b)
  BY DEF CacheHoldsItsRows
<1>1. id = EntryId(files[Location[f]], g, c, b) /\ id \in DOMAIN cached
  BY DEF FileIdOf, IsCached
<1>2. Registered(files) /\ CacheInv(files, cached)
  BY FilesFit DEF Inv
<1>3. c \in Nat /\ c < Field /\ b \in Nat /\ b < Field
  BY StreamAssumption
<1> QED BY <1>1, <1>2, <1>3, EntryRows

\* What was handed out is a prefix of what is expected.
LEMMA PrefixIs ==
  ASSUME NEW X, NEW x \in Seq(X), NEW y \in Seq(X), NEW e, e = Cat(x, y) PROVE IsPrefix(x, e)
<1>1. /\ Len(x \o y) = Len(x) + Len(y) /\ SubSeq(x \o y, 1, Len(x)) = x
  BY ConcatParts
<1>2. SubSeq(x, 1, Len(x)) = x
  BY SubSeqFull
<1>3. e = x \o y
  BY DEF Cat
<1>4. Len(x) <= Len(e)
  BY <1>1, <1>3
<1>5. SubSeq(x, 1, Len(x)) = SubSeq(e, 1, Len(x))
  BY <1>1, <1>2, <1>3
<1> QED BY <1>4, <1>5 DEF IsPrefix

\* By the invariant what was handed out is a prefix of what the query asks for, and
\* all of it at the end.
LEMMA InvExact == Inv => RowsExact
<1> SUFFICES ASSUME Inv, NEW s \in Streams
             PROVE  IsPrefix(out[s], Expected(query[s])) /\ (st[s].pc = "end" => out[s] = Expected(query[s]))
  BY DEF RowsExact
<1>1. PICK t, q, o : t = st[s] /\ q = query[s] /\ o = out[s]
  OBVIOUS
<1>2. /\ WellFormed(q) /\ StreamInv(t, q, o, files, cached) /\ TypeInv(t, q) /\ QueueInv(t, q) /\ MaskInv(t, q, cached)
      /\ OutInv(t, q, o)
  BY <1>1 DEF Inv, StreamInv
<1>3. PICK x, y, z : x = Now(t, q) /\ y = Soon(t, q) /\ z = Late(t, q)
  OBVIOUS
<1>4. Typed(AnyRow, x) /\ Typed(AnyRow, y) /\ Typed(AnyRow, z)
  BY <1>2, <1>3, LeftType DEF Typed
<1>5. PICK l \in Seq(AnyRow) : l = Left(t, q)
  <2>1. Typed(AnyRow, Cat(y, z))
    BY <1>4, CatType
  <2>2. Typed(AnyRow, Cat(x, Cat(y, z)))
    BY <1>4, <2>1, CatType
  <2> QED BY <1>3, <2>2 DEF Typed, Left
<1>6. PICK r \in Seq(Tuple(q)) : r = Tuples(q, l) /\ Len(r) = Len(l)
  BY TuplesType
<1>7. o \in Seq(Tuple(q)) /\ Cat(o, r) = Expected(q)
  BY <1>2, <1>5, <1>6 DEF OutInv
<1>8. IsPrefix(o, Expected(q))
  BY <1>7, PrefixIs
<1>9. ASSUME t.pc = "end" PROVE o = Expected(q)
  <2>1. t.groups = <<>> /\ t.pc \notin Scanning /\ t.pc \notin Reading
    BY <1>2, <1>9 DEF TypeInv, Scanning, Reading
  <2>2. x = <<>> /\ y = <<>>
    BY <1>3, <2>1 DEF Now, Soon
  <2>3. Ask(q.file, <<>>, t.selection, t.limit) = <<>>
    <3>1. RowsOf(q.file, <<>>) = <<>>
      BY FlattenEmpty DEF RowsOf
    <3>2. Chosen(t.selection, <<>>) = <<>>
      <4>1. CASE t.selection = None
        BY <4>1 DEF Chosen
      <4>2. CASE t.selection # None
        <5>1. PICK sel \in Seq(Run) : sel = t.selection /\ Len(Bits(sel)) <= Len(RowsOf(q.file, t.groups))
          BY <1>2, <4>2, RunsAre DEF TypeInv, Selects
        <5>2. Bits(sel) \in Seq(BOOLEAN) /\ Len(Bits(sel)) <= 0
          BY <2>1, <3>1, <5>1, BitsType
        <5>3. Bits(sel) = <<>>
          BY <5>2
        <5> QED BY <4>2, <5>1, <5>3, FilterEmpty DEF Chosen
      <4> QED BY <4>1, <4>2
    <3>3. Take(t.limit, <<>>) = <<>>
      <4>1. CASE t.limit = None
        BY <4>1 DEF Take
      <4>2. CASE t.limit # None
        <5>1. t.limit \in Nat
          BY <1>2, <4>2 DEF TypeInv, StreamRecord
        <5>2. Lesser(t.limit, Len(<<>>)) = 0
          BY <5>1 DEF Lesser
        <5> QED BY <4>2, <5>2 DEF Take
      <4> QED BY <4>1, <4>2
    <3> QED BY <3>1, <3>2, <3>3 DEF Ask
  <2>4. z = <<>>
    BY <1>3, <2>1, <2>3, OnlyEmpty DEF Late
  <2>5. l = <<>>
    BY <1>3, <1>5, <2>2, <2>4 DEF Left, Cat
  <2>6. r = <<>>
    BY <1>6, <2>5
  <2> QED BY <1>7, <2>6, CatNone
<1> QED BY <1>1, <1>8, <1>9

\* The inductive invariant holds in every reachable state, for any files, queries,
\* number of streams and batch size.
THEOREM StreamInvariant == Spec => []Inv
<1>1. Init => Inv
  BY InitInv
<1>2. Inv /\ [Next]_vars => Inv'
  BY NextInv
<1> QED BY <1>1, <1>2, PTL DEF Spec

\* NeverPanics: no stream meets an entry that its plan counted on and that is not
\* cached ("item must be in cache"), and the file delivers as many batches as the
\* plan found missing, whatever other streams cache meanwhile.
THEOREM StreamsNeverPanic == Spec => []NeverPanics
  BY StreamInvariant, InvNeverPanics, PTL

\* CacheHoldsItsRows: what fill_cache_from_parquet stores under an identifier are
\* the rows of that batch, complete and in order.
THEOREM CacheIsRight == Spec => []CacheHoldsItsRows
  BY StreamInvariant, InvHolds, PTL

\* RowsExact: LiquidStream hands out the rows that its query asks for, each once
\* and in order, for any row groups, selection, limit and predicates.
THEOREM ScansAreExact == Spec => []RowsExact
  BY StreamInvariant, InvExact, PTL
=============================================================================
