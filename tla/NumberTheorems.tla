--------------------------- MODULE NumberTheorems ---------------------------
(***************************************************************************)
(* What the proofs share: changing one value of a function into Nat        *)
(* changes its total by the difference; a set of natural numbers has a     *)
(* least element, and a greatest one if it is bounded; induction over Nat  *)
(* with a set in place of the predicate, and from it what a recursive      *)
(* function and FlattenSeq compute.                                        *)
(***************************************************************************)
EXTENDS Footprint, Integers, SequencesExt, FiniteSetTheorems, SequenceTheorems, WellFoundedInduction, TLAPS

\* The units of one element are counted by its value: an entry of n bytes
\* contributes n to the budget.
LEMMA UnitsOfOne ==
  ASSUME NEW x, NEW n \in Nat
  PROVE  IsFiniteSet({x} \X (1..n)) /\ Cardinality({x} \X (1..n)) = n
<1>1. IsFiniteSet({x}) /\ Cardinality({x}) = 1
  BY FS_Singleton
<1>2. IsFiniteSet(1..n) /\ Cardinality(1..n) = n
  BY FS_Interval
<1>3. Cardinality({x} \X (1..n)) = Cardinality({x}) * Cardinality(1..n)
  BY <1>1, <1>2, FS_Product
<1> QED
  BY <1>1, <1>2, <1>3, FS_Product

\* The units of finitely many elements are finitely many: the budget total
\* over the finite set of entries is a number.
LEMMA UnitsFinite ==
  ASSUME NEW S, IsFiniteSet(S), NEW f, \A x \in S : f[x] \in Nat
  PROVE  IsFiniteSet(Units(f, S))
<1> DEFINE T == {{x} \X (1..f[x]) : x \in S}
           g == [x \in S |-> {x} \X (1..f[x])]
<1>1. g \in Surjection(S, T)
  BY DEF Surjection
<1>2. IsFiniteSet(T)
  BY <1>1, FS_Surjection
<1>3. ASSUME NEW U \in T PROVE IsFiniteSet(U)
  <2>1. PICK x \in S : U = {x} \X (1..f[x])
    BY <1>3
  <2>2. f[x] \in Nat
    OBVIOUS
  <2> QED BY <2>1, <2>2, UnitsOfOne
<1> QED
  BY <1>2, <1>3, FS_UNION DEF Units

\* One element's units can be split off the total: used_memory_bytes is one
\* entry's size plus the rest.
LEMMA TotalSplit ==
  ASSUME NEW S, IsFiniteSet(S), NEW f \in [S -> Nat], NEW x \in S
  PROVE  /\ Cardinality(Units(f, S \ {x})) \in Nat
         /\ Total(f) = Cardinality(Units(f, S \ {x})) + f[x]
<1> DEFINE R == Units(f, S \ {x})
           X == {x} \X (1..f[x])
<1>1. DOMAIN f = S /\ f[x] \in Nat
  OBVIOUS
<1>2. IsFiniteSet(S \ {x})
  BY FS_RemoveElement
<1>3. IsFiniteSet(R)
  BY <1>2, UnitsFinite
<1>4. IsFiniteSet(X) /\ Cardinality(X) = f[x]
  BY <1>1, UnitsOfOne
<1>5. Units(f, S) = R \cup X
  BY DEF Units
<1>6. R \cap X = {}
  BY DEF Units
<1>7. Cardinality(R \cup X) = Cardinality(R) + Cardinality(X) - Cardinality(R \cap X)
  BY <1>3, <1>4, FS_Union
<1>8. Cardinality(R) \in Nat /\ Cardinality(R \cap X) = 0
  BY <1>3, <1>6, FS_CardinalityType, FS_EmptySet
<1> QED
  BY <1>1, <1>4, <1>5, <1>7, <1>8 DEF Total

\* Replacing one entry's size changes the total by exactly the difference,
\* and no entry is larger than the total (so giving it back cannot wrap).
THEOREM TotalUpdate ==
  ASSUME NEW S, IsFiniteSet(S), NEW f \in [S -> Nat], NEW x \in S, NEW v \in Nat
  PROVE  /\ Total(f) \in Nat
         /\ f[x] <= Total(f)
         /\ Total([f EXCEPT ![x] = v]) = Total(f) - f[x] + v
<1> DEFINE h == [f EXCEPT ![x] = v]
<1>1. h \in [S -> Nat] /\ h[x] = v /\ f[x] \in Nat
  OBVIOUS
<1>2. Units(h, S \ {x}) = Units(f, S \ {x})
  <2>1. \A y \in S \ {x} : h[y] = f[y]
    OBVIOUS
  <2> QED BY <2>1 DEF Units
<1>3. /\ Cardinality(Units(f, S \ {x})) \in Nat
      /\ Total(f) = Cardinality(Units(f, S \ {x})) + f[x]
  BY TotalSplit
<1>4. Total(h) = Cardinality(Units(h, S \ {x})) + h[x]
  BY <1>1, TotalSplit
<1> QED
  BY <1>1, <1>2, <1>3, <1>4

\* Nothing cached, nothing charged.
LEMMA TotalZero ==
  ASSUME NEW S
  PROVE  Total([x \in S |-> 0]) = 0
<1>1. Units([x \in S |-> 0], S) = {}
  BY DEF Units
<1> QED
  BY <1>1, FS_EmptySet DEF Total

\* As many numbers are in an interval as its ends say.
LEMMA IntervalSize ==
  ASSUME NEW a \in Int, NEW b \in Int, a <= b + 1
  PROVE  IsFiniteSet(a .. b) /\ Cardinality(a .. b) = b - a + 1
<1>1. IsFiniteSet(a .. b) /\ Cardinality(a .. b) = IF a > b THEN 0 ELSE b - a + 1
  BY FS_Interval, Zenon
<1> QED BY <1>1

\* A set of one element has size one.
LEMMA SingletonSize == \A x : Cardinality({x}) = 1
  BY FS_Singleton

\* A nonempty set of natural numbers has a least element.
LEMMA LeastNumber ==
  ASSUME NEW S \in SUBSET Nat, S # {} PROVE \E n \in S : \A m \in S : n <= m
<1> DEFINE R == OpToRel(<, Nat)
<1>1. IsWellFoundedOn(R, Nat)
  BY NatLessThanWellFounded
<1>2. R = {ss \in Nat \X Nat : ss[1] < ss[2]}
  BY DEF OpToRel
<1> HIDE DEF R
<1>3. PICK n \in S : \A m \in S : <<m, n>> \notin R
  BY <1>1, WFMin
<1>4. ASSUME NEW m \in S PROVE n <= m
  <2>1. m \in Nat /\ n \in Nat
    OBVIOUS
  <2>2. <<m, n>> \notin {ss \in Nat \X Nat : ss[1] < ss[2]}
    BY <1>2, <1>3
  <2> QED BY <2>1, <2>2
<1> QED BY <1>4

\* A bounded one has a greatest element, such as the last position of an
\* expression in the history of a column.
LEMMA GreatestNumber ==
  ASSUME NEW S \in SUBSET Nat, S # {}, NEW b \in Nat, \A n \in S : n <= b
  PROVE  \E n \in S : \A m \in S : m <= n
<1> DEFINE T == {b - n : n \in S}
<1>1. T \in SUBSET Nat /\ T # {}
  <2>1. \A n \in S : b - n \in Nat
    OBVIOUS
  <2> QED BY <2>1
<1> HIDE DEF T
<1>2. PICK d \in T : \A e \in T : d <= e
  BY <1>1, LeastNumber
<1>3. PICK n \in S : d = b - n
  BY DEF T
<1>4. ASSUME NEW m \in S PROVE m <= n
  <2>1. b - m \in T
    BY DEF T
  <2>2. b - n <= b - m
    BY <1>2, <1>3, <2>1
  <2> QED BY <2>2
<1> QED BY <1>4

\* Induction, with a set in place of the predicate.
LEMMA NumberInduction ==
  ASSUME NEW P \in SUBSET Nat, 0 \in P, \A n \in P : n + 1 \in P PROVE P = Nat
<1> SUFFICES ASSUME P # Nat PROVE FALSE
  OBVIOUS
<1> DEFINE R == Nat \ P
<1>1. R \in SUBSET Nat /\ R # {}
  OBVIOUS
<1>2. PICK n \in R : \A m \in R : n <= m
  BY <1>1, LeastNumber
<1>3. n # 0 /\ n \in Nat
  OBVIOUS
<1>4. n - 1 \in Nat /\ n - 1 \notin R
  BY <1>2, <1>3
<1>5. (n - 1) + 1 \in P
  BY <1>4
<1> QED BY <1>3, <1>5

\* Recursion: a function of the numbers is given by its value at 0 and by a
\* step from each value to the next.
Iterates(f, S, base, step) ==
  f \in [Nat -> S] /\ f[0] = base /\ \A n \in Nat : f[n + 1] = step[<<n, f[n]>>]

\* A function defined by a base and a step exists.
LEMMA Iteration ==
  ASSUME NEW S, NEW base \in S, NEW step \in [Nat \X S -> S]
  PROVE  \E f : Iterates(f, S, base, step)
<1> DEFINE Good(n, g) == g[0] = base /\ \A i \in 0 .. n - 1 : g[i + 1] = step[<<i, g[i]>>]
           P == {n \in Nat : \E g \in [0 .. n -> S] : Good(n, g)}
<1>1. 0 \in P
  <2>1. [i \in 0 .. 0 |-> base] \in [0 .. 0 -> S] /\ Good(0, [i \in 0 .. 0 |-> base])
    OBVIOUS
  <2> QED BY <2>1
<1>2. ASSUME NEW n \in P PROVE n + 1 \in P
  <2>1. n \in Nat
    OBVIOUS
  <2>2. PICK g \in [0 .. n -> S] : Good(n, g)
    BY <1>2
  <2> DEFINE h == [i \in 0 .. n + 1 |-> IF i <= n THEN g[i] ELSE step[<<n, g[n]>>]]
  <2>3. h \in [0 .. n + 1 -> S]
    <3>1. g[n] \in S /\ step[<<n, g[n]>>] \in S
      BY <2>1
    <3>2. \A i \in 0 .. n + 1 : i <= n => g[i] \in S
      BY <2>1
    <3> QED BY <3>1, <3>2
  <2>4. h[0] = base
    BY <2>1, <2>2
  <2>5. ASSUME NEW i \in 0 .. n PROVE h[i + 1] = step[<<i, h[i]>>]
    <3>1. h[i] = g[i]
      BY <2>1
    <3>2. CASE i < n
      <4>1. h[i + 1] = g[i + 1]
        BY <2>1, <3>2
      <4> QED BY <2>1, <2>2, <3>1, <3>2, <4>1
    <3>3. CASE i = n
      <4>1. n + 1 \in 0 .. n + 1 /\ ~(n + 1 <= n)
        BY <2>1
      <4>2. h[n + 1] = step[<<n, g[n]>>]
        BY <4>1
      <4> QED BY <3>1, <3>3, <4>2
    <3>4. i < n \/ i = n
      BY <2>1
    <3> QED BY <3>2, <3>3, <3>4
  <2> HIDE DEF h
  <2>6. Good(n + 1, h)
    <3>1. (n + 1) - 1 = n
      BY <2>1
    <3> QED BY <3>1, <2>4, <2>5
  <2>7. n + 1 \in Nat /\ \E x \in [0 .. n + 1 -> S] : Good(n + 1, x)
    BY <2>1, <2>3, <2>6, SMTT(40)
  <2> QED BY <2>7, Zenon
<1>3. P = Nat
  <2> HIDE DEF P
  <2>1. P \in SUBSET Nat
    BY DEF P
  <2> QED BY <2>1, <1>1, <1>2, NumberInduction
<1>4. ASSUME NEW n \in Nat, NEW m \in Nat, n <= m, NEW g, NEW h, Good(n, g), Good(m, h)
      PROVE  \A i \in 0 .. n : g[i] = h[i]
  <2> DEFINE Q == {i \in Nat : i <= n => g[i] = h[i]}
  <2>1. 0 \in Q
    BY <1>4
  <2>2. ASSUME NEW i \in Q PROVE i + 1 \in Q
    <3> SUFFICES ASSUME i + 1 <= n PROVE g[i + 1] = h[i + 1]
      OBVIOUS
    <3>1. i \in Nat /\ g[i] = h[i] /\ i \in 0 .. n - 1 /\ i \in 0 .. m - 1
      BY <1>4, <2>2
    <3>2. g[i + 1] = step[<<i, g[i]>>]
      BY <1>4, <3>1
    <3>3. h[i + 1] = step[<<i, h[i]>>]
      BY <1>4, <3>1
    <3> QED BY <3>1, <3>2, <3>3
  <2>3. Q = Nat
    <3> HIDE DEF Q
    <3>1. Q \in SUBSET Nat
      BY DEF Q
    <3> QED BY <3>1, <2>1, <2>2, NumberInduction
  <2> QED BY <2>3
<1> DEFINE G(n) == CHOOSE g \in [0 .. n -> S] : Good(n, g)
           f == [n \in Nat |-> G(n)[n]]
<1>5. ASSUME NEW n \in Nat PROVE G(n) \in [0 .. n -> S] /\ Good(n, G(n))
  <2>1. \E g \in [0 .. n -> S] : Good(n, g)
    BY <1>3
  <2> HIDE DEF Good
  <2> QED BY <2>1
<1> HIDE DEF G
<1>6. f \in [Nat -> S]
  BY <1>5
<1>7. f[0] = base
  BY <1>5
<1>8. ASSUME NEW n \in Nat PROVE f[n + 1] = step[<<n, f[n]>>]
  <2>1. Good(n, G(n)) /\ Good(n + 1, G(n + 1))
    BY <1>5
  <2>2. G(n)[n] = G(n + 1)[n]
    <3> HIDE DEF Good
    <3>1. n \in 0 .. n /\ n + 1 \in Nat /\ n <= n + 1
      OBVIOUS
    <3> QED BY <2>1, <3>1, <1>4
  <2>3. G(n + 1)[n + 1] = step[<<n, G(n + 1)[n]>>]
    BY <2>1
  <2> QED BY <2>2, <2>3
<1> HIDE DEF f
<1> QED BY <1>6, <1>7, <1>8 DEF Iterates

\* A loop of n turns that starts in s and stays in S.
IsLoop(g, n, S, s, step) ==
  g \in [0 .. n -> S] /\ g[0] = s /\ \A k \in 1 .. n : g[k - 1] \in S /\ g[k] = step[g[k - 1]]

\* A step makes a loop.
LEMMA LoopExists ==
  ASSUME NEW S, NEW s \in S, NEW n \in Nat, NEW step \in [S -> S]
  PROVE  \E g : IsLoop(g, n, S, s, step)
<1> DEFINE next2 == [p \in Nat \X S |-> step[p[2]]]
<1>1. next2 \in [Nat \X S -> S]
  OBVIOUS
<1>2. PICK f : Iterates(f, S, s, next2)
  BY <1>1, Iteration
<1>3. f \in [Nat -> S] /\ f[0] = s
  BY <1>2 DEF Iterates
<1> DEFINE g == [k \in 0 .. n |-> f[k]]
<1>4. g \in [0 .. n -> S] /\ g[0] = s
  BY <1>3
<1>5. ASSUME NEW k \in 1 .. n PROVE g[k - 1] \in S /\ g[k] = step[g[k - 1]]
  <2>1. k - 1 \in Nat /\ k - 1 \in 0 .. n /\ (k - 1) + 1 = k
    OBVIOUS
  <2>2. f[(k - 1) + 1] = next2[<<k - 1, f[k - 1]>>] /\ f[k - 1] \in S
    BY <1>2, <1>3, <2>1 DEF Iterates
  <2>3. next2[<<k - 1, f[k - 1]>>] = step[f[k - 1]]
    BY <2>1, <2>2
  <2> QED BY <2>1, <2>2, <2>3
<1> HIDE DEF g
<1>6. IsLoop(g, n, S, s, step)
  BY <1>4, <1>5 DEF IsLoop
<1> QED BY <1>6

\* The states of a loop are in S, if the first is and a turn stays there.
LEMMA LoopStays ==
  ASSUME NEW S, NEW n \in Nat, NEW g, g[0] \in S, \A k \in 1 .. n : g[k - 1] \in S => g[k] \in S
  PROVE  \A k \in 0 .. n : g[k] \in S
<1> DEFINE P == {k \in Nat : k <= n => g[k] \in S}
<1>1. 0 \in P
  OBVIOUS
<1>2. ASSUME NEW k \in P PROVE k + 1 \in P
  <2>1. k + 1 <= n => k + 1 \in 1 .. n /\ (k + 1) - 1 = k /\ g[k] \in S
    BY <1>2
  <2> QED BY <2>1
<1>3. P = Nat
  <2>1. P \in SUBSET Nat
    OBVIOUS
  <2> HIDE DEF P
  <2> QED BY <2>1, <1>1, <1>2, NumberInduction
<1> QED BY <1>3

\* FlattenSeq by its parts.
LEMMA FlattenParts ==
  ASSUME NEW X, NEW ss \in Seq(Seq(X)), ss # <<>>
  PROVE  \E f \in [1 .. Len(ss) -> Seq(X)] :
           /\ f[1] = ss[1]
           /\ \A i \in 2 .. Len(ss) : f[i] = f[i - 1] \o ss[i]
           /\ FlattenSeq(ss) = f[Len(ss)]
<1> DEFINE L == Len(ss)
           step == [p \in Nat \X Seq(X) |-> IF p[1] \in 1 .. L - 1 THEN p[2] \o ss[p[1] + 1] ELSE ss[1]]
           Eq(g) == g = [i \in 1 .. L |-> IF i = 1 THEN ss[i] ELSE g[i - 1] \o ss[i]]
           fl == CHOOSE g : Eq(g)
<1>1. L \in Nat /\ L >= 1 /\ \A i \in 1 .. L : ss[i] \in Seq(X)
  OBVIOUS
<1>2. step \in [Nat \X Seq(X) -> Seq(X)]
  <2>1. ASSUME NEW p \in Nat \X Seq(X), p[1] \in 1 .. L - 1 PROVE p[2] \o ss[p[1] + 1] \in Seq(X)
    <3>1. p[1] + 1 \in 1 .. L /\ p[2] \in Seq(X)
      BY <1>1, <2>1
    <3>2. ss[p[1] + 1] \in Seq(X)
      BY <1>1, <3>1
    <3> QED BY <3>1, <3>2, ConcatProperties
  <2>2. ss[1] \in Seq(X)
    BY <1>1
  <2> QED BY <2>1, <2>2
<1>3. PICK F \in [Nat -> Seq(X)] : \A n \in Nat : F[n + 1] = step[<<n, F[n]>>]
  <2>1. <<>> \in Seq(X)
    OBVIOUS
  <2> HIDE DEF step
  <2>2. \E g : Iterates(g, Seq(X), <<>>, step)
    BY <1>2, <2>1, Iteration
  <2> QED BY <2>2 DEF Iterates
<1> DEFINE f == [i \in 1 .. L |-> F[i]]
<1>4. f \in [1 .. L -> Seq(X)]
  BY <1>1
<1>5. F[1] = ss[1]
  <2>1. F[0 + 1] = step[<<0, F[0]>>] /\ <<0, F[0]>> \in Nat \X Seq(X)
    BY <1>3
  <2> QED BY <2>1
<1>6. ASSUME NEW i \in 2 .. L PROVE F[i] = F[i - 1] \o ss[i]
  <2>1. PICK j \in Nat : j = i - 1 /\ j \in 1 .. L - 1
    BY <1>1
  <2>2. F[j + 1] = step[<<j, F[j]>>] /\ <<j, F[j]>> \in Nat \X Seq(X)
    BY <1>3
  <2>3. step[<<j, F[j]>>] = F[j] \o ss[j + 1]
    BY <2>1, <2>2
  <2>4. j + 1 = i /\ i - 1 = j
    BY <2>1
  <2> QED BY <2>2, <2>3, <2>4
<1>7. Eq(f)
  <2>1. ASSUME NEW i \in 1 .. L PROVE f[i] = IF i = 1 THEN ss[i] ELSE f[i - 1] \o ss[i]
    <3>1. CASE i = 1
      BY <1>1, <1>5, <3>1
    <3>2. CASE i # 1
      <4>1. i \in 2 .. L /\ i - 1 \in 1 .. L
        BY <1>1, <3>2
      <4> QED BY <1>6, <3>2, <4>1
    <3> QED BY <3>1, <3>2
  <2> QED BY <2>1, Zenon
<1> HIDE DEF f, step
<1>8. Eq(fl)
  <2> HIDE DEF Eq
  <2> QED BY <1>7
<1>9. FlattenSeq(ss) = fl[L]
  BY <1>1 DEF FlattenSeq
<1> HIDE DEF fl
<1>10. /\ fl[1] = ss[1]
       /\ \A i \in 2 .. L : fl[i] = fl[i - 1] \o ss[i]
  <2>1. \A i \in 1 .. L : fl[i] = IF i = 1 THEN ss[i] ELSE fl[i - 1] \o ss[i]
    BY <1>8, Zenon
  <2>2. 1 \in 1 .. L /\ \A i \in 2 .. L : i \in 1 .. L /\ i # 1
    BY <1>1
  <2> QED BY <2>1, <2>2
<1>11. \A i \in 1 .. L : fl[i] = F[i]
  <2> DEFINE Q == {n \in Nat : n + 1 <= L => fl[n + 1] = F[n + 1]}
  <2>1. 0 \in Q
    BY <1>5, <1>10
  <2>2. ASSUME NEW n \in Q PROVE n + 1 \in Q
    <3> SUFFICES ASSUME n + 2 <= L PROVE fl[n + 2] = F[n + 2]
      OBVIOUS
    <3>1. n \in Nat /\ fl[n + 1] = F[n + 1] /\ n + 2 \in 2 .. L /\ (n + 2) - 1 = n + 1
      BY <1>1, <2>2
    <3> QED BY <1>6, <1>10, <3>1
  <2>3. Q = Nat
    <3> HIDE DEF Q
    <3>1. Q \in SUBSET Nat
      BY DEF Q
    <3> QED BY <3>1, <2>1, <2>2, NumberInduction
  <2>4. ASSUME NEW i \in 1 .. L PROVE fl[i] = F[i]
    <3>1. PICK n \in Nat : i = n + 1 /\ n + 1 <= L
      BY <1>1
    <3>2. n \in Q
      BY <2>3
    <3> QED BY <3>1, <3>2
  <2> QED BY <2>4
<1>12. f[1] = ss[1] /\ (\A i \in 2 .. L : f[i] = f[i - 1] \o ss[i]) /\ f[L] = fl[L]
  <2>1. 1 \in 1 .. L /\ L \in 1 .. L /\ \A i \in 2 .. L : i \in 1 .. L /\ i - 1 \in 1 .. L
    BY <1>1
  <2>2. \A i \in 1 .. L : f[i] = F[i]
    BY DEF f
  <2> QED BY <2>1, <2>2, <1>5, <1>6, <1>11
<1> QED BY <1>4, <1>9, <1>12

\* Joining no sequences gives the empty one.
LEMMA FlattenEmpty == FlattenSeq(<<>>) = <<>>
  BY DEF FlattenSeq

\* Joined sequences of elements are a sequence of elements.
LEMMA FlattenType ==
  ASSUME NEW X, NEW ss \in Seq(Seq(X)) PROVE FlattenSeq(ss) \in Seq(X)
<1>1. CASE ss = <<>>
  <2>1. FlattenSeq(ss) = <<>>
    BY <1>1, FlattenEmpty
  <2> QED BY <2>1
<1>2. CASE ss # <<>>
  <2>1. PICK f \in [1 .. Len(ss) -> Seq(X)] : FlattenSeq(ss) = f[Len(ss)]
    BY <1>2, FlattenParts
  <2>2. Len(ss) \in 1 .. Len(ss)
    BY <1>2
  <2> QED BY <2>1, <2>2
<1> QED BY <1>1, <1>2

\* A last sequence is joined at the end.
LEMMA FlattenAppend ==
  ASSUME NEW X, NEW ss \in Seq(Seq(X)), NEW x \in Seq(X)
  PROVE  FlattenSeq(Append(ss, x)) = FlattenSeq(ss) \o x
<1> DEFINE tt == Append(ss, x)
           L == Len(ss)
<1>1. /\ tt \in Seq(Seq(X)) /\ tt # <<>> /\ Len(tt) = L + 1 /\ tt[L + 1] = x /\ L \in Nat
      /\ \A i \in 1 .. L : tt[i] = ss[i]
  BY AppendProperties
<1> HIDE DEF tt
<1>2. PICK g \in [1 .. Len(tt) -> Seq(X)] :
        /\ g[1] = tt[1]
        /\ \A i \in 2 .. Len(tt) : g[i] = g[i - 1] \o tt[i]
        /\ FlattenSeq(tt) = g[Len(tt)]
  BY <1>1, FlattenParts
<1>3. CASE ss = <<>>
  <2>1. L = 0 /\ FlattenSeq(ss) = <<>>
    BY <1>3, FlattenEmpty
  <2>2. FlattenSeq(tt) = x
    BY <1>1, <1>2, <2>1
  <2> QED BY <2>1, <2>2, ConcatEmptySeq DEF tt
<1>4. CASE ss # <<>>
  <2>1. PICK f \in [1 .. L -> Seq(X)] :
          /\ f[1] = ss[1]
          /\ \A i \in 2 .. L : f[i] = f[i - 1] \o ss[i]
          /\ FlattenSeq(ss) = f[L]
    BY <1>4, FlattenParts
  <2>2. L >= 1
    BY <1>4, <1>1
  <2> DEFINE Q == {n \in Nat : n + 1 <= L => f[n + 1] = g[n + 1]}
  <2>3. 0 \in Q
    <3>1. 1 \in 1 .. L
      BY <1>1, <2>2
    <3> QED BY <1>1, <1>2, <2>1, <3>1
  <2>4. ASSUME NEW n \in Q PROVE n + 1 \in Q
    <3> SUFFICES ASSUME n + 2 <= L PROVE f[n + 2] = g[n + 2]
      OBVIOUS
    <3>1. n \in Nat /\ f[n + 1] = g[n + 1] /\ n + 2 \in 2 .. L /\ n + 2 \in 2 .. L + 1 /\ n + 2 \in 1 .. L /\ (n + 2) - 1 = n + 1
      BY <1>1, <2>4
    <3>2. f[n + 2] = f[n + 1] \o ss[n + 2]
      BY <2>1, <3>1
    <3>3. g[n + 2] = g[n + 1] \o tt[n + 2]
      BY <1>1, <1>2, <3>1
    <3>4. tt[n + 2] = ss[n + 2]
      BY <1>1, <3>1
    <3> QED BY <3>1, <3>2, <3>3, <3>4
  <2>5. Q = Nat
    <3> HIDE DEF Q
    <3>1. Q \in SUBSET Nat
      BY DEF Q
    <3> QED BY <3>1, <2>3, <2>4, NumberInduction
  <2>6. PICK n \in Nat : L = n + 1
    <3>1. L - 1 \in Nat /\ L = (L - 1) + 1
      BY <1>1, <2>2
    <3> QED BY <3>1
  <2>7. n \in Q
    BY <2>5
  <2>8. f[L] = g[L]
    BY <2>6, <2>7
  <2>9. L + 1 \in 2 .. L + 1 /\ (L + 1) - 1 = L
    BY <1>1, <2>2
  <2>10. g[L + 1] = g[L] \o x
    BY <1>1, <1>2, <2>9
  <2> QED BY <1>1, <1>2, <2>1, <2>8, <2>10 DEF tt
<1> QED BY <1>3, <1>4

\* Joining commutes with concatenation.
LEMMA FlattenConcat ==
  ASSUME NEW X, NEW ss \in Seq(Seq(X)), NEW tt \in Seq(Seq(X))
  PROVE  FlattenSeq(ss \o tt) = FlattenSeq(ss) \o FlattenSeq(tt)
<1> DEFINE Q == {n \in Nat : \A t \in Seq(Seq(X)) :
                   Len(t) = n => FlattenSeq(ss \o t) = FlattenSeq(ss) \o FlattenSeq(t)}
<1>1. 0 \in Q
  <2> SUFFICES ASSUME NEW t \in Seq(Seq(X)), Len(t) = 0
               PROVE  FlattenSeq(ss \o t) = FlattenSeq(ss) \o FlattenSeq(t)
    OBVIOUS
  <2>1. t = <<>>
    OBVIOUS
  <2>2. ss \o t = ss
    BY <2>1, ConcatEmptySeq
  <2>3. FlattenSeq(ss) \o <<>> = FlattenSeq(ss)
    BY FlattenType, ConcatEmptySeq
  <2> QED BY <2>1, <2>2, <2>3, FlattenEmpty
<1>2. ASSUME NEW n \in Q PROVE n + 1 \in Q
  <2> SUFFICES ASSUME NEW t \in Seq(Seq(X)), Len(t) = n + 1
               PROVE  FlattenSeq(ss \o t) = FlattenSeq(ss) \o FlattenSeq(t)
    OBVIOUS
  <2>1. t # <<>> /\ n \in Nat
    OBVIOUS
  <2>2. PICK u \in Seq(Seq(X)), x \in Seq(X) : t = Append(u, x)
    BY <2>1, SequenceEmptyOrAppend
  <2>3. Len(u) = n
    BY <2>1, <2>2, AppendProperties
  <2>4. FlattenSeq(ss \o u) = FlattenSeq(ss) \o FlattenSeq(u)
    BY <1>2, <2>3
  <2>5. ss \o t = Append(ss \o u, x)
    <3>1. ss \o u \in Seq(Seq(X)) /\ <<x>> \in Seq(Seq(X))
      BY ConcatProperties
    <3>2. Append(u, x) = u \o <<x>> /\ Append(ss \o u, x) = (ss \o u) \o <<x>>
      BY <3>1, AppendIsConcat
    <3>3. ss \o (u \o <<x>>) = (ss \o u) \o <<x>>
      BY <3>1, ConcatAssociative
    <3> QED BY <2>2, <3>2, <3>3
  <2>6. FlattenSeq(Append(ss \o u, x)) = FlattenSeq(ss \o u) \o x
    <3>1. ss \o u \in Seq(Seq(X))
      BY ConcatProperties
    <3> QED BY <3>1, FlattenAppend
  <2>7. FlattenSeq(t) = FlattenSeq(u) \o x
    BY <2>2, FlattenAppend
  <2>8. (FlattenSeq(ss) \o FlattenSeq(u)) \o x = FlattenSeq(ss) \o (FlattenSeq(u) \o x)
    <3>1. FlattenSeq(ss) \in Seq(X) /\ FlattenSeq(u) \in Seq(X)
      BY FlattenType
    <3> QED BY <3>1, ConcatAssociative, SMTT(40)
  <2> QED BY <2>4, <2>5, <2>6, <2>7, <2>8
<1>3. Q = Nat
  <2> HIDE DEF Q
  <2>1. Q \in SUBSET Nat
    BY DEF Q
  <2> QED BY <2>1, <1>1, <1>2, NumberInduction
<1>4. Len(tt) \in Q
  BY <1>3
<1> QED BY <1>4
=============================================================================
