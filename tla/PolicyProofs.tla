---------------------------- MODULE PolicyProofs ----------------------------
(***************************************************************************)
(* The intrusive list is a sequence of distinct nodes; the queue policies  *)
(* evict in their order, Clock and Sieve give second chances, and every    *)
(* policy keeps its structures in order and the contract of a CachePolicy. *)
(***************************************************************************)
EXTENDS MCCachePolicies, NumberTheorems

-----------------------------------------------------------------------------
(* The walk along the pointers                                             *)

\* The node behind the first i - 1 ones that a walk has met.
NodeAt(path, start, step, i) ==
  IF i = 1 THEN start ELSE IF Len(path[i - 1]) = i - 1 THEN step[path[i - 1][i - 1]] ELSE None
Longer(path, start, step, i) ==
  IF i = 0 THEN <<>>
  ELSE IF NodeAt(path, start, step, i) = None THEN path[i - 1]
  ELSE Append(path[i - 1], NodeAt(path, start, step, i))
IsPath(path, start, step) ==
  path = [i \in 0 .. Cardinality(Entries) |-> Longer(path, start, step, i)]

\* Following the pointers meets the nodes of the path from start.
LEMMA WalkIsPath ==
  ASSUME NEW start, NEW step, NEW p, IsPath(p, start, step)
  PROVE  \E path : IsPath(path, start, step) /\ Walk(start, step) = path[Cardinality(Entries)]
<1> DEFINE path == CHOOSE path : IsPath(path, start, step)
<1>1. IsPath(path, start, step)
  OBVIOUS
<1>2. Walk(start, step) = path[Cardinality(Entries)]
  BY DEF Walk, IsPath, Longer, NodeAt
<1> QED BY <1>1, <1>2

\* A walk along pointers that spell a sequence yields the sequence.
LEMMA WalkSpells ==
  ASSUME NEW s \in Seq(Entries), Len(s) <= Cardinality(Entries), Cardinality(Entries) \in Nat,
         NEW start, start = IF Len(s) = 0 THEN None ELSE s[1],
         NEW step, \A i \in 1 .. Len(s) : step[s[i]] = IF i = Len(s) THEN None ELSE s[i + 1]
  PROVE  Walk(start, step) = s
<1> DEFINE N == Cardinality(Entries)
           Upto(i) == IF i <= Len(s) THEN i ELSE Len(s)
           p == [i \in 0 .. N |-> SubSeq(s, 1, Upto(i))]
<1>1. PICK len \in Nat : len = Len(s) /\ len <= N
  OBVIOUS
<1>2. N \in Nat
  OBVIOUS
<1>3. \A i \in 1 .. len : s[i] \in Entries /\ s[i] # None
  BY <1>1, PolicyAssumption
<1> HIDE DEF N
\* A walk that has met the first i - 1 nodes meets node i, or stops at the end.
<1>4. ASSUME NEW path, NEW i \in 1 .. N, path[i - 1] = SubSeq(s, 1, Upto(i - 1))
      PROVE  Longer(path, start, step, i) = SubSeq(s, 1, Upto(i))
  <2>1. PICK q : q = path[i - 1]
    OBVIOUS
  <2>2. q \in Seq(Entries) /\ Len(q) = Upto(i - 1) /\ \A j \in 1 .. Upto(i - 1) : q[j] = s[j]
    BY <2>1, <1>1, <1>4
  <2>3. CASE i <= len
    <3>1. Len(q) = i - 1
      BY <2>2, <2>3, <1>1
    <3>2. NodeAt(path, start, step, i) = s[i]
      <4>1. CASE i = 1
        BY <4>1, <2>3, <1>1 DEF NodeAt
      <4>2. CASE i # 1
        <5>1. q[i - 1] = s[i - 1] /\ i - 1 \in 1 .. Len(s) /\ i - 1 # Len(s)
          BY <4>2, <2>2, <2>3, <1>1
        <5>2. step[s[i - 1]] = s[i]
          BY <5>1
        <5> QED BY <4>2, <5>1, <5>2, <2>1, <3>1 DEF NodeAt
      <4> QED BY <4>1, <4>2
    <3>3. Longer(path, start, step, i) = Append(q, s[i])
      BY <3>2, <2>1, <2>3, <1>3 DEF Longer
    <3>4. Append(q, s[i]) = SubSeq(s, 1, i)
      BY <2>2, <2>3, <3>1, <1>1, <1>3
    <3> QED BY <3>3, <3>4, <2>3, <1>1
  <2>4. CASE i > len
    <3>1. Upto(i) = len /\ Upto(i - 1) = len
      BY <2>4, <1>1
    <3>2. NodeAt(path, start, step, i) = None
      <4>1. CASE i = 1
        BY <4>1, <2>4, <1>1 DEF NodeAt
      <4>2. CASE i # 1 /\ len = i - 1
        <5>1. q[i - 1] = s[len] /\ Len(q) = i - 1 /\ len \in 1 .. Len(s)
          BY <4>2, <3>1, <2>2, <1>1
        <5>2. step[s[len]] = None
          BY <5>1, <1>1
        <5> QED BY <4>2, <5>1, <5>2, <2>1 DEF NodeAt
      <4>3. CASE i # 1 /\ len # i - 1
        BY <4>3, <3>1, <2>1, <2>2 DEF NodeAt
      <4> QED BY <4>1, <4>2, <4>3
    <3>3. Longer(path, start, step, i) = q
      BY <3>2, <2>1, <2>4 DEF Longer
    <3> QED BY <3>1, <3>3, <2>1, <1>4
  <2> QED BY <2>3, <2>4, <1>1
<1>5. SubSeq(s, 1, Upto(0)) = <<>>
  BY <1>1
<1>6. IsPath(p, start, step)
  <2>1. ASSUME NEW i \in 0 .. N PROVE SubSeq(s, 1, Upto(i)) = Longer(p, start, step, i)
    <3>1. CASE i = 0
      BY <3>1, <1>5 DEF Longer
    <3>2. CASE i # 0
      <4>1. i \in 1 .. N /\ p[i - 1] = SubSeq(s, 1, Upto(i - 1))
        BY <3>2, <1>2
      <4> HIDE DEF p, Upto
      <4> QED BY <4>1, <1>4
    <3> QED BY <3>1, <3>2
  <2>2. p = [i \in 0 .. N |-> Longer(p, start, step, i)]
    <3>1. p = [i \in 0 .. N |-> SubSeq(s, 1, Upto(i))]
      OBVIOUS
    <3> HIDE DEF p, Upto
    <3> QED BY <2>1, <3>1
  <2> QED BY <2>2 DEF IsPath, N
<1> HIDE DEF p
<1>7. PICK path : IsPath(path, start, step) /\ Walk(start, step) = path[N]
  BY <1>6, WalkIsPath DEF N
<1> DEFINE Wrong == {i \in 0 .. N : path[i] # SubSeq(s, 1, Upto(i))}
<1>8. \A i \in 0 .. N : path[i] = Longer(path, start, step, i)
  BY <1>7 DEF IsPath, N
<1>9. Wrong = {}
  <2> SUFFICES ASSUME Wrong # {} PROVE FALSE
    OBVIOUS
  <2>1. Wrong \in SUBSET Nat
    OBVIOUS
  <2>2. PICK i \in Wrong : \A j \in Wrong : i <= j
    BY <2>1, LeastNumber
  <2>3. i # 0
    BY <1>2, <1>5, <1>8 DEF Longer
  <2>4. i \in 1 .. N /\ i - 1 \in 0 .. N /\ i - 1 \notin Wrong
    BY <2>2, <2>3, <1>2
  <2>5. path[i - 1] = SubSeq(s, 1, Upto(i - 1))
    BY <2>4
  <2> HIDE DEF Upto
  <2> QED BY <2>4, <2>5, <1>4, <1>8
<1>10. path[N] = SubSeq(s, 1, Upto(N))
  BY <1>9, <1>2
<1>11. Upto(N) = Len(s)
  BY <1>1, <1>2
<1> QED BY <1>7, <1>10, <1>11

-----------------------------------------------------------------------------
(* The pointers of st spell the sequence s of the nodes of own.            *)

Nodes(s, own) ==
  /\ s \in Seq(Entries) /\ own \subseteq Entries
  /\ \A i \in 1 .. Len(s) : s[i] \in own
  /\ \A n \in own : \E i \in 1 .. Len(s) : s[i] = n
  /\ \A i, j \in 1 .. Len(s) : s[i] = s[j] => i = j

Spelled(s, st, own) ==
  /\ Nodes(s, own)
  /\ st.head = IF Len(s) = 0 THEN None ELSE s[1]
  /\ st.tail = IF Len(s) = 0 THEN None ELSE s[Len(s)]
  /\ st.next \in [Entries -> Entries \union {None}]
  /\ st.prev \in [Entries -> Entries \union {None}]
  /\ \A i \in 1 .. Len(s) : st.next[s[i]] = IF i = Len(s) THEN None ELSE s[i + 1]
  /\ \A i \in 1 .. Len(s) : st.prev[s[i]] = IF i = 1 THEN None ELSE s[i - 1]
  /\ \A n \in Entries \ own : st.next[n] = None /\ st.prev[n] = None

\* A new node in front of distinct nodes leaves them distinct.
LEMMA FrontNodes ==
  ASSUME NEW s, NEW own, Nodes(s, own), NEW n \in Entries, n \notin own
  PROVE  Nodes(<<n>> \o s, own \union {n})
<1>1. s \in Seq(Entries) /\ own \subseteq Entries
  BY DEF Nodes
<1>2. PICK len \in Nat : len = Len(s)
  BY <1>1
<1>3. PICK t : t = <<n>> \o s
  OBVIOUS
<1>4. t \in Seq(Entries) /\ Len(t) = len + 1 /\ t[1] = n /\ \A i \in 2 .. len + 1 : t[i] = s[i - 1]
  BY <1>1, <1>2, <1>3
<1>5. \A i \in 1 .. len : s[i] \in own /\ s[i] # n /\ t[i + 1] = s[i]
  BY <1>2, <1>4 DEF Nodes
<1>6. \A i \in 1 .. Len(t) : t[i] \in own \union {n}
  <2>1. \A i \in 2 .. len + 1 : i - 1 \in 1 .. len
    BY <1>2
  <2> QED BY <2>1, <1>4, <1>5
<1>7. ASSUME NEW m \in own \union {n} PROVE \E i \in 1 .. Len(t) : t[i] = m
  <2>1. CASE m = n
    BY <2>1, <1>4
  <2>2. CASE m # n
    <3>1. PICK i \in 1 .. len : s[i] = m
      BY <2>2, <1>2 DEF Nodes
    <3> QED BY <3>1, <1>4, <1>5
  <2> QED BY <2>1, <2>2
<1>8. ASSUME NEW i \in 1 .. Len(t), NEW j \in 1 .. Len(t), t[i] = t[j] PROVE i = j
  <2>1. \A k \in 2 .. len + 1 : k - 1 \in 1 .. len /\ t[k] = s[k - 1] /\ t[k] # n
    BY <1>2, <1>4, <1>5
  <2>2. CASE i = 1 \/ j = 1
    BY <2>1, <2>2, <1>8, <1>4
  <2>3. CASE i # 1 /\ j # 1
    <3>1. i - 1 \in 1 .. len /\ j - 1 \in 1 .. len /\ s[i - 1] = s[j - 1]
      BY <2>1, <2>3, <1>8, <1>4
    <3>2. i - 1 = j - 1
      BY <3>1, <1>2 DEF Nodes
    <3> QED BY <3>2
  <2> QED BY <2>2, <2>3
<1>9. Nodes(t, own \union {n})
  BY <1>6, <1>7, <1>8, <1>1, <1>4 DEF Nodes
<1> QED BY <1>3, <1>9

\* push_front puts the node in front of the spelled sequence.
LEMMA PushFrontSpells ==
  ASSUME NEW s, NEW st, NEW own, Spelled(s, st, own), NEW n \in Entries, n \notin own
  PROVE  Spelled(<<n>> \o s, PushFront(st, n), own \union {n})
<1>1. s \in Seq(Entries) /\ own \subseteq Entries /\ n # None /\ None \notin Entries
  BY PolicyAssumption DEF Spelled, Nodes
<1>2. PICK len \in Nat : len = Len(s)
  BY <1>1
<1>3. PICK t : t = <<n>> \o s
  OBVIOUS
<1>4. t \in Seq(Entries) /\ Len(t) = len + 1 /\ t[1] = n /\ \A i \in 2 .. len + 1 : t[i] = s[i - 1]
  BY <1>1, <1>2, <1>3
<1>5. \A i \in 1 .. len : s[i] \in own /\ s[i] # n /\ t[i + 1] = s[i]
  BY <1>2, <1>4 DEF Spelled, Nodes
<1>6. Nodes(t, own \union {n})
  BY <1>3, FrontNodes DEF Spelled
<1>7. PICK new : new = PushFront(st, n)
  OBVIOUS
<1>8. /\ new.head = n
      /\ new.tail = IF st.head = None THEN n ELSE st.tail
      /\ new.next = [st.next EXCEPT ![n] = st.head]
      /\ new.prev = [m \in Entries |-> IF m = n THEN None ELSE IF m = st.head THEN n ELSE st.prev[m]]
  <2>1. st.head # n
    BY <1>1, <1>2, <1>5 DEF Spelled
  <2> QED BY <2>1, <1>7 DEF PushFront
<1>9. /\ st.head = IF len = 0 THEN None ELSE s[1]
      /\ st.next \in [Entries -> Entries \union {None}] /\ st.prev \in [Entries -> Entries \union {None}]
      /\ \A i \in 1 .. len : st.next[s[i]] = IF i = len THEN None ELSE s[i + 1]
      /\ \A i \in 1 .. len : st.prev[s[i]] = IF i = 1 THEN None ELSE s[i - 1]
      /\ \A m \in Entries \ own : st.next[m] = None /\ st.prev[m] = None
      /\ st.tail = IF len = 0 THEN None ELSE s[len]
      /\ \A i, j \in 1 .. len : s[i] = s[j] => i = j
  BY <1>2 DEF Spelled, Nodes
<1>10. new.head = t[1] /\ new.tail = t[len + 1]
  BY <1>1, <1>2, <1>4, <1>5, <1>8, <1>9
<1>11. new.next \in [Entries -> Entries \union {None}] /\ new.prev \in [Entries -> Entries \union {None}]
  <2>1. st.head \in Entries \union {None}
    BY <1>1, <1>2, <1>5, <1>9
  <2> QED BY <2>1, <1>8, <1>9
<1>12. ASSUME NEW i \in 1 .. len + 1
       PROVE  new.next[t[i]] = IF i = len + 1 THEN None ELSE t[i + 1]
  <2>1. CASE i = 1
    BY <2>1, <1>2, <1>4, <1>5, <1>8, <1>9
  <2>2. CASE i # 1
    <3>1. PICK j \in 1 .. len : j = i - 1
      BY <2>2, <1>2
    <3>2. t[i] = s[j] /\ s[j] # n /\ s[j] \in Entries
      BY <3>1, <1>1, <1>4, <1>5
    <3>3. new.next[t[i]] = st.next[s[j]]
      BY <3>2, <1>8, <1>9
    <3>4. j # len => j + 1 \in 1 .. len /\ t[i + 1] = s[j + 1]
      BY <3>1, <1>2, <1>4
    <3> QED BY <3>1, <3>3, <3>4, <1>9
  <2> QED BY <2>1, <2>2
<1>13. ASSUME NEW i \in 1 .. len + 1
       PROVE  new.prev[t[i]] = IF i = 1 THEN None ELSE t[i - 1]
  <2>1. CASE i = 1
    BY <2>1, <1>4, <1>8
  <2>2. CASE i # 1
    <3>1. PICK j \in 1 .. len : j = i - 1
      BY <2>2, <1>2
    <3>2. t[i] = s[j] /\ s[j] # n /\ s[j] \in Entries
      BY <3>1, <1>1, <1>4, <1>5
    <3>3. s[j] = st.head <=> j = 1
      BY <3>1, <1>2, <1>9
    <3>4. j # 1 => t[i - 1] = s[j - 1]
      BY <3>1, <1>2, <1>4
    <3>5. new.prev[t[i]] = IF j = 1 THEN n ELSE st.prev[s[j]]
      BY <3>2, <3>3, <1>8
    <3> QED BY <2>2, <3>1, <3>4, <3>5, <1>4, <1>9
  <2> QED BY <2>1, <2>2
<1>14. ASSUME NEW m \in Entries \ (own \union {n}) PROVE new.next[m] = None /\ new.prev[m] = None
  <2>1. m # st.head /\ m # n /\ m \in Entries \ own
    BY <1>1, <1>2, <1>5, <1>9
  <2> QED BY <2>1, <1>8, <1>9
<1>15. Spelled(t, new, own \union {n})
  <2>1. Len(t) = len + 1 /\ len + 1 # 0
    BY <1>2, <1>4
  <2> QED BY <2>1, <1>6, <1>10, <1>11, <1>12, <1>13, <1>14 DEF Spelled
<1> QED BY <1>3, <1>7, <1>15

\* The list read backwards: every fact about its front is one about its back.
Mirror(st) == [head |-> st.tail, tail |-> st.head, next |-> st.prev, prev |-> st.next]

\* Reverse has the elements from back to front.
LEMMA ReverseIs ==
  ASSUME NEW s \in Seq(Entries)
  PROVE  /\ Reverse(s) \in Seq(Entries) /\ Len(Reverse(s)) = Len(s)
         /\ \A i \in 1 .. Len(s) : Reverse(s)[i] = s[Len(s) - i + 1]
<1>1. PICK len \in Nat : len = Len(s)
  OBVIOUS
<1>2. \A i \in 1 .. len : len - i + 1 \in 1 .. len
  BY <1>1
<1>3. \A i \in 1 .. len : s[len - i + 1] \in Entries
  BY <1>1, <1>2
<1>4. PICK t : t = Reverse(s)
  OBVIOUS
<1>5. t = [i \in 1 .. len |-> s[len - i + 1]]
  BY <1>1, <1>4 DEF Reverse
<1>6. t \in [1 .. len -> Entries]
  BY <1>3, <1>5
<1>7. t \in Seq(Entries) /\ Len(t) = len
  BY <1>1, <1>6
<1> QED BY <1>1, <1>4, <1>5, <1>7

\* Distinct nodes stay distinct in reverse.
LEMMA ReverseNodes ==
  ASSUME NEW s, NEW own, Nodes(s, own) PROVE Nodes(Reverse(s), own)
<1>1. s \in Seq(Entries) /\ own \subseteq Entries
  BY DEF Nodes
<1>2. PICK len \in Nat : len = Len(s)
  BY <1>1
<1>3. PICK t \in Seq(Entries) : t = Reverse(s)
  BY <1>1, ReverseIs
<1>4. Len(t) = len /\ \A i \in 1 .. len : t[i] = s[len - i + 1]
  BY <1>1, <1>2, <1>3, ReverseIs
<1>5. \A i \in 1 .. len : len - i + 1 \in 1 .. len /\ len - (len - i + 1) + 1 = i
  BY <1>2
<1>6. \A i \in 1 .. len : s[i] = t[len - i + 1]
  BY <1>4, <1>5
<1>7. /\ \A i \in 1 .. len : s[i] \in own
      /\ \A n \in own : \E i \in 1 .. len : s[i] = n
      /\ \A i, j \in 1 .. len : s[i] = s[j] => i = j
  BY <1>2 DEF Nodes
<1>8. \A i \in 1 .. len : t[i] \in own
  BY <1>4, <1>5, <1>7
<1>9. \A n \in own : \E i \in 1 .. len : t[i] = n
  BY <1>5, <1>6, <1>7
<1>10. ASSUME NEW i \in 1 .. len, NEW j \in 1 .. len, t[i] = t[j] PROVE i = j
  <2>1. PICK x \in 1 .. len, y \in 1 .. len : x = len - i + 1 /\ y = len - j + 1
    BY <1>5
  <2>2. s[x] = s[y]
    BY <2>1, <1>4, <1>10
  <2>3. x = y
    BY <2>2, <1>7
  <2> QED BY <2>1, <2>3, <1>2
<1>11. Nodes(t, own)
  BY <1>1, <1>4, <1>8, <1>9, <1>10 DEF Nodes
<1> QED BY <1>3, <1>11

\* With next and prev exchanged the pointers spell the sequence in reverse.
LEMMA MirrorSpells ==
  ASSUME NEW s, NEW st, NEW own, Spelled(s, st, own)
  PROVE  Spelled(Reverse(s), Mirror(st), own)
<1>1. s \in Seq(Entries) /\ own \subseteq Entries
  BY DEF Spelled, Nodes
<1>2. PICK len \in Nat : len = Len(s)
  BY <1>1
<1>3. PICK t \in Seq(Entries) : t = Reverse(s)
  BY <1>1, ReverseIs
<1>4. Len(t) = len /\ \A i \in 1 .. len : t[i] = s[len - i + 1]
  BY <1>1, <1>2, <1>3, ReverseIs
<1>5. \A i \in 1 .. len : len - i + 1 \in 1 .. len
  BY <1>2
<1>7. Nodes(t, own)
  BY <1>3, ReverseNodes DEF Spelled
<1>8. /\ \A i \in 1 .. len : st.next[s[i]] = IF i = len THEN None ELSE s[i + 1]
      /\ \A i \in 1 .. len : st.prev[s[i]] = IF i = 1 THEN None ELSE s[i - 1]
  BY <1>2 DEF Spelled
<1>9. ASSUME NEW i \in 1 .. len
      PROVE  /\ st.prev[t[i]] = IF i = len THEN None ELSE t[i + 1]
             /\ st.next[t[i]] = IF i = 1 THEN None ELSE t[i - 1]
  <2>1. PICK j \in 1 .. len : j = len - i + 1
    BY <1>5
  <2>2. t[i] = s[j] /\ (i = len <=> j = 1) /\ (i = 1 <=> j = len)
    BY <2>1, <1>2, <1>4
  <2>3. i # len => i + 1 \in 1 .. len /\ len - (i + 1) + 1 = j - 1
    BY <2>1, <1>2
  <2>4. i # 1 => i - 1 \in 1 .. len /\ len - (i - 1) + 1 = j + 1
    BY <2>1, <1>2
  <2>5. i # len => t[i + 1] = s[j - 1]
    BY <2>3, <1>4
  <2>6. i # 1 => t[i - 1] = s[j + 1]
    BY <2>4, <1>4
  <2> QED BY <2>2, <2>5, <2>6, <1>8
<1>10. PICK new : new = Mirror(st)
  OBVIOUS
<1>11. new.head = st.tail /\ new.tail = st.head /\ new.next = st.prev /\ new.prev = st.next
  BY <1>10 DEF Mirror
<1>12. /\ new.head = IF len = 0 THEN None ELSE t[1]
       /\ new.tail = IF len = 0 THEN None ELSE t[len]
  <2>1. st.head = (IF len = 0 THEN None ELSE s[1]) /\ st.tail = IF len = 0 THEN None ELSE s[len]
    BY <1>2 DEF Spelled
  <2>2. len # 0 => 1 \in 1 .. len /\ len \in 1 .. len /\ len - 1 + 1 = len /\ len - len + 1 = 1
    BY <1>2
  <2>3. len # 0 => t[1] = s[len] /\ t[len] = s[1]
    BY <2>2, <1>4
  <2> QED BY <2>1, <2>3, <1>11
<1>13. /\ new.next \in [Entries -> Entries \union {None}] /\ new.prev \in [Entries -> Entries \union {None}]
       /\ \A n \in Entries \ own : new.next[n] = None /\ new.prev[n] = None
  BY <1>11 DEF Spelled
<1>14. Spelled(t, new, own)
  BY <1>4, <1>7, <1>9, <1>11, <1>12, <1>13 DEF Spelled
<1> QED BY <1>3, <1>10, <1>14

\* push_back puts the node behind the spelled sequence.
LEMMA PushBackSpells ==
  ASSUME NEW s, NEW st, NEW own, Spelled(s, st, own), NEW n \in Entries, n \notin own
  PROVE  Spelled(Append(s, n), PushBack(st, n), own \union {n})
<1>1. s \in Seq(Entries)
  BY DEF Spelled, Nodes
<1>2. PICK r, mst : r = Reverse(s) /\ mst = Mirror(st)
  OBVIOUS
<1>3. Spelled(r, mst, own)
  BY <1>2, MirrorSpells
<1>4. PICK t, new : t = <<n>> \o r /\ new = PushFront(mst, n)
  OBVIOUS
<1>5. Spelled(t, new, own \union {n})
  BY <1>3, <1>4, PushFrontSpells
<1>6. Spelled(Reverse(t), Mirror(new), own \union {n})
  BY <1>5, MirrorSpells
<1>7. Reverse(t) = Append(s, n)
  <2>1. PICK len \in Nat : len = Len(s)
    BY <1>1
  <2>2. r \in Seq(Entries) /\ Len(r) = len /\ \A i \in 1 .. len : r[i] = s[len - i + 1]
    BY <1>1, <1>2, <2>1, ReverseIs
  <2>3. t \in Seq(Entries) /\ Len(t) = len + 1 /\ t[1] = n /\ \A i \in 2 .. len + 1 : t[i] = r[i - 1]
    BY <1>4, <2>1, <2>2
  <2>4. PICK u : u = Reverse(t)
    OBVIOUS
  <2>5. u \in Seq(Entries) /\ Len(u) = len + 1 /\ \A i \in 1 .. len + 1 : u[i] = t[len + 1 - i + 1]
    BY <2>3, <2>4, ReverseIs, SMTT(40)
  <2>6. ASSUME NEW i \in 1 .. len + 1 PROVE u[i] = IF i <= len THEN s[i] ELSE n
    <3>1. CASE i = len + 1
      <4>1. len + 1 - i + 1 = 1 /\ ~(i <= len)
        BY <2>1, <3>1
      <4> QED BY <4>1, <2>3, <2>5
    <3>2. CASE i # len + 1
      <4>1. PICK j \in 2 .. len + 1 : j = len + 1 - i + 1
        BY <2>1, <3>2
      <4>2. j - 1 \in 1 .. len /\ len - (j - 1) + 1 = i
        BY <2>1, <4>1
      <4>3. u[i] = t[j] /\ t[j] = r[j - 1] /\ r[j - 1] = s[i]
        BY <4>1, <4>2, <2>2, <2>3, <2>5
      <4> QED BY <4>3, <3>2, <2>1
    <3> QED BY <3>1, <3>2
  <2> QED BY <2>1, <2>4, <2>5, <2>6, <1>1
<1>8. Mirror(new) = PushBack(st, n)
  BY <1>2, <1>4 DEF Mirror, PushFront, PushBack
<1> QED BY <1>6, <1>7, <1>8

\* RemoveAt leaves out one position.
LEMMA RemoveAtIs ==
  ASSUME NEW S, NEW s \in Seq(S), NEW k \in 1 .. Len(s)
  PROVE  /\ RemoveAt(s, k) \in Seq(S) /\ Len(RemoveAt(s, k)) = Len(s) - 1
         /\ \A i \in 1 .. Len(s) - 1 : RemoveAt(s, k)[i] = IF i < k THEN s[i] ELSE s[i + 1]
<1>1. PICK len \in Nat : len = Len(s)
  OBVIOUS
<1>2. PICK a : a = SubSeq(s, 1, k - 1)
  OBVIOUS
<1>3. PICK b : b = SubSeq(s, k + 1, len)
  OBVIOUS
<1>4. a \in Seq(S) /\ Len(a) = k - 1 /\ \A i \in 1 .. k - 1 : a[i] = s[i]
  BY <1>1, <1>2
<1>5. b \in Seq(S) /\ Len(b) = len - k /\ \A i \in 1 .. len - k : b[i] = s[k + i]
  BY <1>1, <1>3
<1>6. PICK c : c = a \o b
  OBVIOUS
<1>7. c \in Seq(S) /\ Len(c) = len - 1
  BY <1>1, <1>4, <1>5, <1>6
<1>8. ASSUME NEW i \in 1 .. len - 1 PROVE c[i] = IF i < k THEN s[i] ELSE s[i + 1]
  <2>1. CASE i < k
    <3>1. i \in 1 .. k - 1
      BY <2>1, <1>1
    <3>2. c[i] = a[i]
      BY <3>1, <1>4, <1>5, <1>6
    <3> QED BY <2>1, <3>1, <3>2, <1>4
  <2>2. CASE ~(i < k)
    <3>1. PICK j \in 1 .. len - k : j = i - (k - 1)
      BY <2>2, <1>1
    <3>2. c[i] = b[j]
      BY <2>2, <3>1, <1>1, <1>4, <1>5, <1>6
    <3>3. k + j = i + 1
      BY <3>1, <1>1
    <3> QED BY <2>2, <3>1, <3>2, <3>3, <1>5
  <2> QED BY <2>1, <2>2
<1>9. c = RemoveAt(s, k)
  BY <1>1, <1>2, <1>3, <1>6 DEF RemoveAt
<1> QED BY <1>1, <1>7, <1>8, <1>9

\* unlink takes the node out of the spelled sequence.
LEMMA UnlinkSpells ==
  ASSUME NEW s, NEW st, NEW own, Spelled(s, st, own), NEW k \in 1 .. Len(s)
  PROVE  Spelled(RemoveAt(s, k), Unlink(st, s[k]), own \ {s[k]})
<1>1. s \in Seq(Entries) /\ own \subseteq Entries /\ None \notin Entries
  BY PolicyAssumption DEF Spelled, Nodes
<1>2. PICK len \in Nat : len = Len(s) /\ k <= len
  BY <1>1
<1>3. PICK t : t = RemoveAt(s, k)
  OBVIOUS
<1>4. t \in Seq(Entries) /\ Len(t) = len - 1 /\ \A i \in 1 .. len - 1 : t[i] = IF i < k THEN s[i] ELSE s[i + 1]
  BY <1>1, <1>2, <1>3, RemoveAtIs
<1>5. /\ \A i \in 1 .. len : s[i] \in own /\ s[i] \in Entries /\ s[i] # None
      /\ \A n \in own : \E i \in 1 .. len : s[i] = n
      /\ \A i, j \in 1 .. len : s[i] = s[j] => i = j
      /\ st.head = IF len = 0 THEN None ELSE s[1]
      /\ st.tail = IF len = 0 THEN None ELSE s[len]
      /\ st.next \in [Entries -> Entries \union {None}] /\ st.prev \in [Entries -> Entries \union {None}]
      /\ \A i \in 1 .. len : st.next[s[i]] = IF i = len THEN None ELSE s[i + 1]
      /\ \A i \in 1 .. len : st.prev[s[i]] = IF i = 1 THEN None ELSE s[i - 1]
      /\ \A n \in Entries \ own : st.next[n] = None /\ st.prev[n] = None
  BY <1>1, <1>2 DEF Spelled, Nodes
\* Node i of t is node From(i) of s.
<1> DEFINE From(i) == IF i < k THEN i ELSE i + 1
<1>6. \A i \in 1 .. len - 1 : From(i) \in 1 .. len /\ From(i) # k /\ t[i] = s[From(i)]
  BY <1>2, <1>4
<1>7. PICK n \in own : n = s[k]
  BY <1>2, <1>5
<1>8. Nodes(t, own \ {n})
  <2>1. \A i \in 1 .. len - 1 : t[i] \in own \ {n}
    BY <1>2, <1>5, <1>6, <1>7
  <2>2. ASSUME NEW m \in own \ {n} PROVE \E i \in 1 .. len - 1 : t[i] = m
    <3>1. PICK j \in 1 .. len : s[j] = m
      BY <1>5
    <3>2. j # k
      BY <3>1, <1>7
    <3>3. PICK i \in 1 .. len - 1 : From(i) = j
      <4>1. CASE j < k
        BY <4>1, <1>2
      <4>2. CASE j > k
        <5>1. j - 1 \in 1 .. len - 1 /\ From(j - 1) = j
          BY <4>2, <1>2
        <5> QED BY <5>1
      <4> QED BY <4>1, <4>2, <3>2
    <3> QED BY <3>1, <3>3, <1>6
  <2>3. ASSUME NEW i \in 1 .. len - 1, NEW j \in 1 .. len - 1, t[i] = t[j] PROVE i = j
    <3>1. From(i) = From(j)
      <4>1. From(i) \in 1 .. len /\ From(j) \in 1 .. len /\ s[From(i)] = s[From(j)]
        BY <2>3, <1>6
      <4> HIDE DEF From
      <4> QED BY <4>1, <1>5
    <3> QED BY <3>1
  <2>4. own \ {n} \subseteq Entries
    BY <1>1
  <2> QED BY <2>1, <2>2, <2>3, <2>4, <1>4 DEF Nodes
<1>9. PICK nx, pv : nx = st.next[n] /\ pv = st.prev[n]
  OBVIOUS
<1>10. nx = (IF k = len THEN None ELSE s[k + 1]) /\ pv = IF k = 1 THEN None ELSE s[k - 1]
  BY <1>2, <1>5, <1>7, <1>9
<1>11. PICK new : new = Unlink(st, n)
  OBVIOUS
<1>12. nx # n /\ pv # n
  <2>1. k # len => k + 1 \in 1 .. len /\ s[k + 1] # s[k]
    BY <1>2, <1>5
  <2>2. k # 1 => k - 1 \in 1 .. len /\ s[k - 1] # s[k]
    BY <1>2, <1>5
  <2> QED BY <2>1, <2>2, <1>1, <1>7, <1>10
<1>13. /\ new.head = IF pv = None THEN nx ELSE st.head
       /\ new.tail = IF nx = None THEN pv ELSE st.tail
       /\ new.next = [m \in Entries |-> IF m = n THEN None ELSE IF m = pv THEN nx ELSE st.next[m]]
       /\ new.prev = [m \in Entries |-> IF m = n THEN None ELSE IF m = nx THEN pv ELSE st.prev[m]]
  BY <1>9, <1>11, <1>12 DEF Unlink
<1>14. nx \in Entries \union {None} /\ pv \in Entries \union {None}
  BY <1>1, <1>5, <1>7, <1>9
<1>15. new.next \in [Entries -> Entries \union {None}] /\ new.prev \in [Entries -> Entries \union {None}]
  BY <1>5, <1>13, <1>14
<1>16. new.head = IF len - 1 = 0 THEN None ELSE t[1]
  <2>1. CASE k = 1
    <3>1. new.head = IF len = 1 THEN None ELSE s[2]
      BY <2>1, <1>10, <1>13
    <3>2. len # 1 => 1 \in 1 .. len - 1 /\ From(1) = 2
      BY <2>1, <1>2
    <3>3. len # 1 => t[1] = s[2]
      BY <3>2, <1>6
    <3> QED BY <3>1, <3>3, <1>2
  <2>2. CASE k # 1
    <3>1. 1 \in 1 .. len - 1 /\ From(1) = 1 /\ k - 1 \in 1 .. len /\ len # 0
      BY <2>2, <1>2
    <3>2. new.head = s[1]
      BY <2>2, <3>1, <1>5, <1>10, <1>13
    <3> QED BY <3>1, <3>2, <1>2, <1>6
  <2> QED BY <2>1, <2>2
<1>17. new.tail = IF len - 1 = 0 THEN None ELSE t[len - 1]
  <2>1. CASE k = len
    <3>1. new.tail = IF len = 1 THEN None ELSE s[len - 1]
      BY <2>1, <1>10, <1>13
    <3>2. len # 1 => len - 1 \in 1 .. len - 1 /\ From(len - 1) = len - 1
      BY <2>1, <1>2
    <3>3. len # 1 => t[len - 1] = s[len - 1]
      BY <3>2, <1>6
    <3> QED BY <3>1, <3>3, <1>2
  <2>2. CASE k # len
    <3>1. len - 1 \in 1 .. len - 1 /\ From(len - 1) = len /\ k + 1 \in 1 .. len /\ len # 0
      BY <2>2, <1>2
    <3>2. new.tail = s[len]
      BY <2>2, <3>1, <1>5, <1>10, <1>13
    <3> QED BY <3>1, <3>2, <1>2, <1>6
  <2> QED BY <2>1, <2>2
<1>18. ASSUME NEW i \in 1 .. len - 1 PROVE new.next[t[i]] = IF i = len - 1 THEN None ELSE t[i + 1]
  <2>1. PICK j \in 1 .. len : j = From(i) /\ j # k /\ t[i] = s[j]
    BY <1>6
  <2>2. s[j] \in Entries /\ s[j] # n
    BY <2>1, <1>2, <1>5, <1>7
  <2>3. CASE i = k - 1
    <3>1. s[j] = pv /\ j = i /\ k # 1
      BY <2>1, <2>3, <1>2, <1>10
    <3>2. new.next[t[i]] = nx
      BY <2>1, <2>2, <3>1, <1>13
    <3>3. k # len => i + 1 \in 1 .. len - 1 /\ From(i + 1) = k + 1
      BY <2>3, <1>2
    <3>4. k # len => t[i + 1] = s[k + 1]
      BY <3>3, <1>6
    <3> QED BY <2>3, <3>2, <3>4, <1>2, <1>10
  <2>4. CASE i # k - 1
    <3>1. s[j] # pv
      <4>1. k # 1 => k - 1 \in 1 .. len /\ j # k - 1
        BY <2>1, <2>4, <1>2
      <4> QED BY <4>1, <1>5, <1>10
    <3>2. new.next[t[i]] = st.next[s[j]]
      BY <2>1, <2>2, <3>1, <1>13
    <3>3. (i = len - 1 <=> j = len) /\ (i # len - 1 => i + 1 \in 1 .. len - 1 /\ From(i + 1) = j + 1)
      BY <2>1, <2>4, <1>2
    <3>4. i # len - 1 => t[i + 1] = s[j + 1]
      BY <3>3, <1>6
    <3> QED BY <3>2, <3>3, <3>4, <1>5
  <2> QED BY <2>3, <2>4
<1>19. ASSUME NEW i \in 1 .. len - 1 PROVE new.prev[t[i]] = IF i = 1 THEN None ELSE t[i - 1]
  <2>1. PICK j \in 1 .. len : j = From(i) /\ j # k /\ t[i] = s[j]
    BY <1>6
  <2>2. s[j] \in Entries /\ s[j] # n
    BY <2>1, <1>2, <1>5, <1>7
  <2>3. CASE i = k
    <3>1. s[j] = nx /\ j = k + 1 /\ k # len
      BY <2>1, <2>3, <1>2, <1>10
    <3>2. new.prev[t[i]] = pv
      BY <2>1, <2>2, <3>1, <1>13
    <3>3. k # 1 => i - 1 \in 1 .. len - 1 /\ From(i - 1) = k - 1
      BY <2>3, <1>2
    <3>4. k # 1 => t[i - 1] = s[k - 1]
      BY <3>3, <1>6
    <3> QED BY <2>3, <3>2, <3>4, <1>10
  <2>4. CASE i # k
    <3>1. s[j] # nx
      <4>1. k # len => k + 1 \in 1 .. len /\ j # k + 1
        BY <2>1, <2>4, <1>2
      <4> QED BY <4>1, <1>5, <1>10
    <3>2. new.prev[t[i]] = st.prev[s[j]]
      BY <2>1, <2>2, <3>1, <1>13
    <3>3. (i = 1 <=> j = 1) /\ (i # 1 => i - 1 \in 1 .. len - 1 /\ From(i - 1) = j - 1)
      BY <2>1, <2>4, <1>2
    <3>4. i # 1 => t[i - 1] = s[j - 1]
      BY <3>3, <1>6
    <3> QED BY <3>2, <3>3, <3>4, <1>5
  <2> QED BY <2>3, <2>4
<1>20. ASSUME NEW m \in Entries \ (own \ {n}) PROVE new.next[m] = None /\ new.prev[m] = None
  <2>1. CASE m = n
    BY <2>1, <1>13
  <2>2. CASE m # n
    <3>1. m \notin own
      BY <2>2
    <3>2. m # nx /\ m # pv
      <4>1. k # len => k + 1 \in 1 .. len
        BY <1>2
      <4>2. k # 1 => k - 1 \in 1 .. len
        BY <1>2
      <4> QED BY <3>1, <4>1, <4>2, <1>1, <1>5, <1>10
    <3> QED BY <2>2, <3>1, <3>2, <1>5, <1>13
  <2> QED BY <2>1, <2>2
<1>21. Spelled(t, new, own \ {n})
  BY <1>4, <1>8, <1>15, <1>16, <1>17, <1>18, <1>19, <1>20 DEF Spelled
<1> QED BY <1>3, <1>7, <1>11, <1>21

-----------------------------------------------------------------------------
(* The list keeps spelling a sequence                                      *)

LinkInv == \E s \in Seq(Entries) : Spelled(s, State, owned)

\* A list has as many nodes as are owned, at most one for each entry.
LEMMA NodesCounted ==
  ASSUME NEW s, NEW own, Nodes(s, own)
  PROVE  /\ Cardinality(own) = Len(s)
         /\ Cardinality(Entries) \in Nat /\ Len(s) <= Cardinality(Entries)
<1>1. PICK len \in Nat : len = Len(s)
  BY DEF Nodes
<1>2. IsFiniteSet(1 .. len) /\ Cardinality(1 .. len) = len
  <2>1. Cardinality(1 .. len) = len - 1 + 1 /\ IsFiniteSet(1 .. len)
    BY IntervalSize
  <2> QED BY <2>1
<1>3. s \in Bijection(1 .. len, own)
  <2>1. s \in [1 .. len -> own]
    BY <1>1 DEF Nodes
  <2>2. s \in Injection(1 .. len, own)
    BY <2>1, <1>1 DEF Nodes, Injection, IsInjective
  <2>3. s \in Surjection(1 .. len, own)
    BY <2>1, <1>1 DEF Nodes, Surjection
  <2> QED BY <2>2, <2>3 DEF Bijection
<1>4. Cardinality(own) = len
  BY <1>2, <1>3, FS_Bijection DEF ExistsBijection
<1>5. IsFiniteSet(Entries) /\ own \subseteq Entries
  BY PolicyAssumption DEF Nodes
<1>6. Cardinality(own) <= Cardinality(Entries)
  BY <1>5, FS_Subset
<1>7. Cardinality(Entries) \in Nat
  BY <1>5, FS_CardinalityType
<1> QED BY <1>1, <1>4, <1>6, <1>7

\* Following next yields the spelled sequence, following prev its reverse.
LEMMA WalksSpell ==
  ASSUME NEW s, NEW st, NEW own, Spelled(s, st, own)
  PROVE  Walk(st.head, st.next) = s /\ Walk(st.tail, st.prev) = Reverse(s) /\ Len(s) = Cardinality(own)
<1>1. s \in Seq(Entries) /\ Nodes(s, own)
  BY DEF Spelled, Nodes
<1>2. Len(s) = Cardinality(own) /\ Cardinality(Entries) \in Nat /\ Len(s) <= Cardinality(Entries)
  BY <1>1, NodesCounted
<1>3. PICK h, nx : h = st.head /\ nx = st.next
  OBVIOUS
<1>4. /\ h = IF Len(s) = 0 THEN None ELSE s[1]
      /\ \A i \in 1 .. Len(s) : nx[s[i]] = IF i = Len(s) THEN None ELSE s[i + 1]
  BY <1>3 DEF Spelled
<1>5. Walk(h, nx) = s
  BY <1>1, <1>2, <1>4, WalkSpells
<1>6. PICK r, mst : r \in Seq(Entries) /\ r = Reverse(s) /\ mst = Mirror(st) /\ Len(r) = Len(s)
  BY <1>1, ReverseIs
<1>7. Spelled(r, mst, own)
  BY <1>6, MirrorSpells
<1>8. PICK tl, pv : tl = st.tail /\ pv = st.prev
  OBVIOUS
<1>9. mst.head = tl /\ mst.next = pv
  BY <1>6, <1>8 DEF Mirror
<1>10. /\ tl = IF Len(r) = 0 THEN None ELSE r[1]
       /\ \A i \in 1 .. Len(r) : pv[r[i]] = IF i = Len(r) THEN None ELSE r[i + 1]
  BY <1>7, <1>9 DEF Spelled
<1>11. Walk(tl, pv) = r
  <2>1. r \in Seq(Entries) /\ Len(r) = Cardinality(own) /\ Len(r) <= Cardinality(Entries) /\ Cardinality(Entries) \in Nat
    BY <1>2, <1>6
  <2>2. Nodes(r, own)
    BY <1>7 DEF Spelled
  <2> QED BY <2>1, <2>2, <1>10, WalkSpells
<1> QED BY <1>2, <1>3, <1>5, <1>6, <1>8, <1>11

\* The pointers of a spelled list link exactly its nodes.
LEMMA SpelledIsWellLinked ==
  ASSUME LinkInv PROVE WellLinked
<1>1. PICK s \in Seq(Entries) : Spelled(s, State, owned)
  BY DEF LinkInv
<1>2. Forward = s /\ Backward = Reverse(s) /\ Len(s) = Cardinality(owned)
  <2>1. PICK st : st = State
    OBVIOUS
  <2>2. Walk(st.head, st.next) = s /\ Walk(st.tail, st.prev) = Reverse(s) /\ Len(s) = Cardinality(owned)
    BY <1>1, <2>1, WalksSpell
  <2> QED BY <2>1, <2>2 DEF Forward, Backward, State
<1>3. /\ Reverse(s) \in Seq(Entries) /\ Len(Reverse(s)) = Len(s)
      /\ \A i \in 1 .. Len(s) : Reverse(s)[i] = s[Len(s) - i + 1]
  BY ReverseIs
<1>4. /\ head = (IF Len(s) = 0 THEN None ELSE s[1]) /\ tail = (IF Len(s) = 0 THEN None ELSE s[Len(s)])
      /\ next \in [Entries -> Entries \union {None}] /\ prev \in [Entries -> Entries \union {None}]
      /\ \A n \in Entries \ owned : next[n] = None /\ prev[n] = None
      /\ owned \subseteq Entries /\ \A i \in 1 .. Len(s) : s[i] \in owned
      /\ \A n \in owned : \E i \in 1 .. Len(s) : s[i] = n
  BY <1>1 DEF Spelled, Nodes, State
<1>5. LinksTyped
  <2>1. head \in Entries \union {None} /\ tail \in Entries \union {None}
    BY <1>4
  <2> QED BY <2>1, <1>4 DEF LinksTyped
<1>6. {s[i] : i \in DOMAIN s} = owned
  BY <1>4
<1>7. ASSUME NEW i \in DOMAIN s PROVE Reverse(s)[Len(s) + 1 - i] = s[i]
  <2>1. PICK len \in Nat, j \in 1 .. Len(s) : len = Len(s) /\ j = len + 1 - i
    OBVIOUS
  <2>2. len - j + 1 = i
    BY <2>1
  <2>3. Reverse(s)[j] = s[len - j + 1]
    BY <2>1, <1>3
  <2> QED BY <2>1, <2>2, <2>3
<1> QED BY <1>2, <1>3, <1>4, <1>5, <1>6, <1>7 DEF WellLinked

\* What an operation makes of the sequence s.
OneStep(s, t) ==
  \/ \E n \in Entries : n \notin ToSet(s) /\ (t = <<n>> \o s \/ t = Append(s, n))
  \/ \E i \in DOMAIN s : \/ t = <<s[i]>> \o RemoveAt(s, i)
                         \/ t = Append(RemoveAt(s, i), s[i])
                         \/ t = RemoveAt(s, i)

\* Each operation of the list is one step of the spelled sequence.
LEMMA ListStep ==
  ASSUME NEW s \in Seq(Entries), Spelled(s, State, owned), ListNext
  PROVE  \E t \in Seq(Entries) : Spelled(t, State, owned)' /\ OneStep(s, t)
<1>1. PICK n \in Entries :
        InsertFront(n) \/ InsertBack(n) \/ MoveToFront(n) \/ MoveToBack(n) \/ Release(n)
  BY DEF ListNext
<1>2. PICK st : st = State
  OBVIOUS
<1>3. PICK own : own = owned
  OBVIOUS
<1>4. Spelled(s, st, own)
  BY <1>2, <1>3
<1>5. ASSUME NEW t, NEW new, Spelled(t, new, owned'), Become(new), OneStep(s, t)
      PROVE  \E u \in Seq(Entries) : Spelled(u, State, owned)' /\ OneStep(s, u)
  <2>1. t \in Seq(Entries)
    BY <1>5 DEF Spelled, Nodes
  <2>2. PICK now : now = State'
    OBVIOUS
  <2>3. now.head = new.head /\ now.tail = new.tail /\ now.next = new.next /\ now.prev = new.prev
    BY <1>5, <2>2 DEF Become, State
  <2>4. Spelled(t, now, owned')
    BY <1>5, <2>3 DEF Spelled
  <2> QED BY <1>5, <2>1, <2>2, <2>4
<1>6. CASE n \notin own
  <2>1. n \notin ToSet(s)
    BY <1>4, <1>6 DEF ToSet, Spelled, Nodes
  <2>2. Spelled(<<n>> \o s, PushFront(st, n), own \union {n}) /\ Spelled(Append(s, n), PushBack(st, n), own \union {n})
    BY <1>4, <1>6, PushFrontSpells, PushBackSpells
  <2>3. OneStep(s, <<n>> \o s) /\ OneStep(s, Append(s, n))
    BY <2>1 DEF OneStep
  <2>4. CASE InsertFront(n)
    BY <2>2, <2>3, <2>4, <1>2, <1>3, <1>5 DEF InsertFront
  <2>5. CASE InsertBack(n)
    BY <2>2, <2>3, <2>5, <1>2, <1>3, <1>5 DEF InsertBack
  <2> QED BY <2>4, <2>5, <1>1, <1>3, <1>6 DEF MoveToFront, MoveToBack, Release
<1>7. CASE n \in own
  <2>1. PICK k \in 1 .. Len(s) : s[k] = n
    BY <1>4, <1>7 DEF Spelled, Nodes
  <2>2. PICK t, gone, rest : t = RemoveAt(s, k) /\ gone = Unlink(st, n) /\ rest = own \ {n}
    OBVIOUS
  <2>3. Spelled(t, gone, rest) /\ n \notin rest /\ rest \union {n} = own
    BY <2>1, <2>2, <1>4, <1>7, UnlinkSpells
  <2>4. Spelled(<<n>> \o t, PushFront(gone, n), own) /\ Spelled(Append(t, n), PushBack(gone, n), own)
    <3>1. Spelled(<<n>> \o t, PushFront(gone, n), rest \union {n}) /\ Spelled(Append(t, n), PushBack(gone, n), rest \union {n})
      BY <2>3, PushFrontSpells, PushBackSpells
    <3> QED BY <3>1, <2>3
  <2>5. OneStep(s, t) /\ OneStep(s, <<n>> \o t) /\ OneStep(s, Append(t, n))
    <3>1. k \in DOMAIN s
      OBVIOUS
    <3> QED BY <3>1, <2>1, <2>2 DEF OneStep
  <2>6. CASE MoveToFront(n)
    BY <2>2, <2>4, <2>5, <2>6, <1>2, <1>3, <1>5 DEF MoveToFront
  <2>7. CASE MoveToBack(n)
    BY <2>2, <2>4, <2>5, <2>7, <1>2, <1>3, <1>5 DEF MoveToBack
  <2>8. CASE Release(n)
    BY <2>2, <2>3, <2>5, <2>8, <1>2, <1>3, <1>5 DEF Release
  <2> QED BY <2>6, <2>7, <2>8, <1>1, <1>3, <1>7 DEF InsertFront, InsertBack
<1> QED BY <1>6, <1>7

\* A new list spells the empty sequence.
LEMMA FirstList ==
  ASSUME ListInit PROVE Spelled(<<>>, State, owned)
<1>1. <<>> \in Seq(Entries) /\ Len(<<>>) = 0
  OBVIOUS
<1>2. PICK s \in Seq(Entries) : s = <<>> /\ Len(s) = 0
  BY <1>1
<1>3. Nodes(s, {})
  BY <1>2 DEF Nodes
<1>4. Spelled(s, State, owned)
  BY <1>2, <1>3 DEF ListInit, State, Spelled
<1> QED BY <1>2, <1>4

\* LinkInv holds after any sequence of operations.
LEMMA ListInvariant == ListSpec => []LinkInv
<1>1. ListInit => LinkInv
  <2>1. <<>> \in Seq(Entries)
    OBVIOUS
  <2> QED BY <2>1, FirstList DEF LinkInv
<1>2. LinkInv /\ [ListNext]_linkVars => LinkInv'
  <2> SUFFICES ASSUME LinkInv, [ListNext]_linkVars PROVE LinkInv'
    OBVIOUS
  <2>1. CASE ListNext
    BY <2>1, ListStep DEF LinkInv
  <2>2. CASE UNCHANGED linkVars
    <3>1. State' = State /\ owned' = owned
      BY <2>2 DEF linkVars, State
    <3> QED BY <3>1 DEF LinkInv
  <2> QED BY <2>1, <2>2
<1> QED BY <1>1, <1>2, PTL DEF ListSpec

\* The pointers of the intrusive list stay right, for any number of nodes and in any
\* order of push_front, push_back, move_to_front and unlink: both directions agree,
\* they reach exactly the nodes of the policy's map, and a node that was unlinked
\* keeps no pointer.
THEOREM ListIsWellLinked == ListSpec => []WellLinked
  BY ListInvariant, SpelledIsWellLinked, PTL

\* The intrusive list implements a sequence of distinct nodes, which is all that
\* the policies know of it.
THEOREM ListIsSequence == ListSpec => IsSequence
<1>1. ListInit => Abstract!LInit
  <2> SUFFICES ASSUME ListInit PROVE Forward = <<>>
    BY DEF Abstract!LInit
  <2>1. PICK st : st = State
    OBVIOUS
  <2>2. Walk(st.head, st.next) = <<>>
    BY <2>1, FirstList, WalksSpell
  <2> QED BY <2>1, <2>2 DEF Forward, State
<1>2. LinkInv /\ LinkInv' /\ [ListNext]_linkVars => [Abstract!LNext]_Forward
  <2> SUFFICES ASSUME LinkInv, [ListNext]_linkVars PROVE [Abstract!LNext]_Forward
    OBVIOUS
  <2>1. CASE UNCHANGED linkVars
    BY <2>1 DEF linkVars, Forward, Walk
  <2>2. CASE ListNext
    <3>1. PICK s \in Seq(Entries) : Spelled(s, State, owned)
      BY DEF LinkInv
    <3>2. PICK t \in Seq(Entries) : Spelled(t, State, owned)' /\ OneStep(s, t)
      BY <2>2, <3>1, ListStep
    <3>3. Forward = s
      <4>1. PICK st : st = State
        OBVIOUS
      <4>2. Walk(st.head, st.next) = s
        BY <3>1, <4>1, WalksSpell
      <4> QED BY <4>1, <4>2 DEF Forward, State
    <3>4. Forward' = t
      <4>1. PICK st, own : st = State' /\ own = owned'
        OBVIOUS
      <4>2. Spelled(t, st, own)
        BY <3>2, <4>1
      <4>3. Walk(st.head, st.next) = t
        BY <4>2, WalksSpell
      <4> QED BY <4>1, <4>3 DEF Forward, State, Walk
    <3>5. ToSet(s) = Abstract!ToSet(s) /\ \A i : RemoveAt(s, i) = Abstract!RemoveAt(s, i)
      BY DEF ToSet, RemoveAt, Abstract!ToSet, Abstract!RemoveAt
    <3>6. CASE \E n \in Entries : n \notin ToSet(s) /\ (t = <<n>> \o s \/ t = Append(s, n))
      BY <3>3, <3>4, <3>5, <3>6 DEF Abstract!LNext, Abstract!Push
    <3>7. CASE \E i \in DOMAIN s : \/ t = <<s[i]>> \o RemoveAt(s, i)
                                   \/ t = Append(RemoveAt(s, i), s[i])
                                   \/ t = RemoveAt(s, i)
      BY <3>3, <3>4, <3>5, <3>7 DEF Abstract!LNext, Abstract!Move, Abstract!Take
    <3> QED BY <3>2, <3>6, <3>7 DEF OneStep
  <2> QED BY <2>1, <2>2
<1> QED BY <1>1, <1>2, ListInvariant, PTL DEF ListSpec, IsSequence, Abstract!LSpec

-----------------------------------------------------------------------------
(* Queues: an entry is unlinked, the queues are cut                        *)

\* The elements of a sequence are what its positions hold.
LEMMA Members ==
  ASSUME NEW s \in Seq(Entries)
  PROVE  ToSet(s) \subseteq Entries /\ \A x : x \in ToSet(s) <=> \E i \in 1 .. Len(s) : s[i] = x
  BY DEF ToSet

\* A sequence without repetition is a list of its elements.
LEMMA DistinctNodes ==
  ASSUME NEW s \in Seq(Entries), \A i, j \in 1 .. Len(s) : i < j => s[i] # s[j]
  PROVE  Nodes(s, ToSet(s))
<1>1. \A i, j \in 1 .. Len(s) : s[i] = s[j] => i = j
  <2> SUFFICES ASSUME NEW i \in 1 .. Len(s), NEW j \in 1 .. Len(s), s[i] = s[j] PROVE i = j
    OBVIOUS
  <2>1. i < j \/ j < i \/ i = j
    OBVIOUS
  <2> QED BY <2>1
<1>2. PICK own : own = ToSet(s)
  OBVIOUS
<1>3. own \subseteq Entries /\ \A x : x \in own <=> \E i \in 1 .. Len(s) : s[i] = x
  BY <1>2, Members
<1>4. Nodes(s, own)
  BY <1>1, <1>3 DEF Nodes
<1> QED BY <1>2, <1>4

\* t is a list without e; its nodes keep their order.
Without(t, s, e) ==
  /\ t \in Seq(Entries)
  /\ \A i \in 1 .. Len(t) : t[i] # e /\ \E j \in 1 .. Len(s) : s[j] = t[i]
  /\ \A j \in 1 .. Len(s) : s[j] # e => \E i \in 1 .. Len(t) : t[i] = s[j]
  /\ \A i, j \in 1 .. Len(t) : i < j => \E k, l \in 1 .. Len(s) : k < l /\ s[k] = t[i] /\ s[l] = t[j]

\* Removing an element leaves out one of its positions, if it has any.
LEMMA RemoveFirstIs ==
  ASSUME NEW s \in Seq(Entries), NEW e
  PROVE  \/ RemoveFirst(s, e) = s /\ \A i \in 1 .. Len(s) : s[i] # e
         \/ \E k \in 1 .. Len(s) : s[k] = e /\ RemoveFirst(s, e) = RemoveAt(s, k)
<1>1. CASE \A i \in 1 .. Len(s) : s[i] # e
  BY <1>1 DEF RemoveFirst
<1>2. CASE \E i \in 1 .. Len(s) : s[i] = e
  <2> DEFINE I == {i \in 1 .. Len(s) : s[i] = e}
  <2>1. I \in SUBSET Nat /\ I # {}
    BY <1>2
  <2>2. \E k \in I : \A m \in I : k <= m
    BY <2>1, LeastNumber
  <2>3. PICK k : k = Min(I)
    OBVIOUS
  <2>4. k \in I
    BY <2>2, <2>3 DEF Min
  <2>5. SelectInSeq(s, LAMBDA v : v = e) = k
    BY <2>1, <2>3 DEF SelectInSeq
  <2>6. RemoveFirst(s, e) = RemoveAt(s, k)
    BY <1>2, <2>5 DEF RemoveFirst
  <2> QED BY <2>4, <2>6
<1> QED BY <1>1, <1>2

\* Of distinct entries RemoveFirst takes the one that is e, if there is one.
LEMMA UnlinkedList ==
  ASSUME NEW s, Nodes(s, ToSet(s)), NEW e PROVE Without(RemoveFirst(s, e), s, e)
<1>1. s \in Seq(Entries) /\ \A i, j \in 1 .. Len(s) : s[i] = s[j] => i = j
  BY DEF Nodes
<1>2. CASE RemoveFirst(s, e) = s /\ \A i \in 1 .. Len(s) : s[i] # e
  <2>1. Without(s, s, e)
    BY <1>1, <1>2 DEF Without
  <2> QED BY <1>2, <2>1
<1>3. ASSUME NEW k \in 1 .. Len(s), s[k] = e, RemoveFirst(s, e) = RemoveAt(s, k)
      PROVE  Without(RemoveFirst(s, e), s, e)
  <2>1. PICK len \in Nat : len = Len(s)
    BY <1>1
  <2>2. PICK t : t = RemoveAt(s, k)
    OBVIOUS
  <2>3. t \in Seq(Entries) /\ Len(t) = len - 1 /\ \A i \in 1 .. len - 1 : t[i] = IF i < k THEN s[i] ELSE s[i + 1]
    BY <1>1, <2>1, <2>2, RemoveAtIs
  <2> DEFINE From(i) == IF i < k THEN i ELSE i + 1
  <2>4. \A i \in 1 .. len - 1 : From(i) \in 1 .. len /\ From(i) # k /\ t[i] = s[From(i)]
    BY <2>1, <2>3
  <2>5. ASSUME NEW i \in 1 .. len - 1 PROVE t[i] # e /\ \E j \in 1 .. len : s[j] = t[i]
    BY <2>1, <2>4, <1>1, <1>3
  <2>6. ASSUME NEW j \in 1 .. len, s[j] # e PROVE \E i \in 1 .. len - 1 : t[i] = s[j]
    <3>1. j # k
      BY <2>6, <1>3
    <3>2. CASE j < k
      <4>1. j \in 1 .. len - 1 /\ From(j) = j
        BY <3>2, <2>1
      <4> QED BY <4>1, <2>4
    <3>3. CASE j > k
      <4>1. j - 1 \in 1 .. len - 1 /\ From(j - 1) = j
        BY <3>3, <2>1
      <4> QED BY <4>1, <2>4
    <3> QED BY <3>1, <3>2, <3>3
  <2>7. ASSUME NEW i \in 1 .. len - 1, NEW j \in 1 .. len - 1, i < j
        PROVE  \E x, y \in 1 .. len : x < y /\ s[x] = t[i] /\ s[y] = t[j]
    <3>1. PICK x \in 1 .. len : x = From(i) /\ s[x] = t[i]
      BY <2>4
    <3>2. PICK y \in 1 .. len : y = From(j) /\ s[y] = t[j]
      BY <2>4
    <3>3. x < y
      BY <3>1, <3>2, <2>1, <2>7
    <3> QED BY <3>1, <3>2, <3>3
  <2>8. Without(t, s, e)
    <3>1. 1 .. Len(t) = 1 .. len - 1 /\ 1 .. Len(s) = 1 .. len
      BY <2>1, <2>3
    <3>2. \A i \in 1 .. Len(t) : t[i] # e /\ \E j \in 1 .. Len(s) : s[j] = t[i]
      BY <3>1, <2>5
    <3>3. \A j \in 1 .. Len(s) : s[j] # e => \E i \in 1 .. Len(t) : t[i] = s[j]
      BY <3>1, <2>6
    <3>4. \A i, j \in 1 .. Len(t) : i < j => \E x, y \in 1 .. Len(s) : x < y /\ s[x] = t[i] /\ s[y] = t[j]
      <4> SUFFICES ASSUME NEW i \in 1 .. Len(t), NEW j \in 1 .. Len(t), i < j
                   PROVE  \E x, y \in 1 .. Len(s) : x < y /\ s[x] = t[i] /\ s[y] = t[j]
        OBVIOUS
      <4>1. PICK x \in 1 .. len, y \in 1 .. len : x < y /\ s[x] = t[i] /\ s[y] = t[j]
        <5>1. i \in 1 .. len - 1 /\ j \in 1 .. len - 1
          BY <3>1
        <5> QED BY <5>1, <2>7
      <4> QED BY <4>1, <3>1
    <3> QED BY <3>2, <3>3, <3>4, <2>3 DEF Without
  <2> QED BY <2>2, <2>8, <1>3
<1> QED BY <1>1, <1>2, <1>3, RemoveFirstIs

\* Distinct nodes without e are distinct, and the set without e.
LEMMA WithoutNodes ==
  ASSUME NEW s, Nodes(s, ToSet(s)), NEW e, NEW t, Without(t, s, e)
  PROVE  Nodes(t, ToSet(t)) /\ ToSet(t) = ToSet(s) \ {e}
<1>1. s \in Seq(Entries) /\ \A i, j \in 1 .. Len(s) : s[i] = s[j] => i = j
  BY DEF Nodes
<1>2. t \in Seq(Entries) /\ Len(t) \in Nat
  BY DEF Without
<1>3. ToSet(t) = ToSet(s) \ {e}
  <2>1. \A x : x \in ToSet(t) <=> \E i \in 1 .. Len(t) : t[i] = x
    BY <1>2, Members
  <2>2. \A x : x \in ToSet(s) <=> \E i \in 1 .. Len(s) : s[i] = x
    BY <1>1, Members
  <2>3. \A x \in ToSet(t) : x \in ToSet(s) \ {e}
    BY <2>1, <2>2 DEF Without
  <2>4. ASSUME NEW x \in ToSet(s), x # e PROVE x \in ToSet(t)
    <3>1. PICK j \in 1 .. Len(s) : s[j] = x
      BY <2>2
    <3>2. PICK i \in 1 .. Len(t) : t[i] = x
      BY <3>1, <2>4 DEF Without
    <3> QED BY <3>2, <2>1
  <2> QED BY <2>3, <2>4
<1>4. \A i, j \in 1 .. Len(t) : i < j => t[i] # t[j]
  <2> SUFFICES ASSUME NEW i \in 1 .. Len(t), NEW j \in 1 .. Len(t), i < j PROVE t[i] # t[j]
    OBVIOUS
  <2>1. PICK k \in 1 .. Len(s), l \in 1 .. Len(s) : k < l /\ s[k] = t[i] /\ s[l] = t[j]
    BY DEF Without
  <2>2. k # l
    BY <2>1, <1>1
  <2> QED BY <2>1, <2>2, <1>1
<1> QED BY <1>2, <1>3, <1>4, DistinctNodes

\* The owned nodes are those of the sequence.
LEMMA NodesSet ==
  ASSUME NEW s, NEW own, Nodes(s, own) PROVE ToSet(s) = own
<1>1. s \in Seq(Entries)
  BY DEF Nodes
<1>2. \A x : x \in ToSet(s) <=> \E i \in 1 .. Len(s) : s[i] = x
  BY <1>1, Members
<1>3. \A x : x \in own <=> \E i \in 1 .. Len(s) : s[i] = x
  BY DEF Nodes
<1> QED BY <1>2, <1>3

\* A new node behind distinct nodes leaves them distinct.
LEMMA BackNodes ==
  ASSUME NEW s, NEW own, Nodes(s, own), NEW n \in Entries, n \notin own
  PROVE  Nodes(Append(s, n), own \union {n})
<1>1. s \in Seq(Entries) /\ own \subseteq Entries
  BY DEF Nodes
<1>2. PICK len \in Nat : len = Len(s)
  BY <1>1
<1>3. PICK t : t = Append(s, n)
  OBVIOUS
<1>4. t \in Seq(Entries) /\ Len(t) = len + 1 /\ t[len + 1] = n /\ \A i \in 1 .. len : t[i] = s[i]
  BY <1>1, <1>2, <1>3
<1>5. /\ \A i \in 1 .. len : s[i] \in own /\ s[i] # n
      /\ \A m \in own : \E i \in 1 .. len : s[i] = m
      /\ \A i, j \in 1 .. len : s[i] = s[j] => i = j
  BY <1>2 DEF Nodes
<1>6. 1 .. Len(t) = (1 .. len) \union {len + 1}
  BY <1>2, <1>4
<1>7. \A i \in 1 .. Len(t) : t[i] \in own \union {n}
  BY <1>4, <1>5, <1>6
<1>8. \A m \in own \union {n} : \E i \in 1 .. Len(t) : t[i] = m
  BY <1>4, <1>5, <1>6
<1>9. \A i, j \in 1 .. Len(t) : t[i] = t[j] => i = j
  BY <1>4, <1>5, <1>6
<1>10. Nodes(t, own \union {n})
  BY <1>1, <1>4, <1>7, <1>8, <1>9 DEF Nodes
<1> QED BY <1>3, <1>10

\* In the list r of entries, the one last touched first, x was touched before y.
BeforeIn(r, x, y) == \E i, j \in 1 .. Len(r) : r[i] = x /\ r[j] = y /\ j < i

\* Touching e makes it the youngest and keeps the others in order.
LEMMA TouchKeeps ==
  ASSUME NEW r, Nodes(r, ToSet(r)), NEW e \in Entries, NEW q, q = <<e>> \o RemoveFirst(r, e)
  PROVE  /\ Nodes(q, ToSet(q)) /\ ToSet(r) \subseteq ToSet(q) /\ e \in ToSet(q)
         /\ \A x \in ToSet(r) : x # e => BeforeIn(q, x, e)
         /\ \A x, y : x # e /\ y # e /\ BeforeIn(r, x, y) => BeforeIn(q, x, y)
<1>1. PICK w : w = RemoveFirst(r, e)
  OBVIOUS
<1>2. Without(w, r, e) /\ Nodes(w, ToSet(w)) /\ ToSet(w) = ToSet(r) \ {e}
  BY <1>1, UnlinkedList, WithoutNodes
<1>3. Nodes(q, ToSet(w) \union {e}) /\ ToSet(q) = ToSet(w) \union {e}
  <2>1. e \notin ToSet(w)
    BY <1>2
  <2>2. Nodes(q, ToSet(w) \union {e})
    BY <2>1, <1>1, <1>2, FrontNodes
  <2> QED BY <2>2, NodesSet
<1>4. w \in Seq(Entries) /\ r \in Seq(Entries) /\ \A i, j \in 1 .. Len(r) : r[i] = r[j] => i = j
  BY <1>2 DEF Nodes
<1>5. PICK len \in Nat : len = Len(w)
  BY <1>4
<1>6. q \in Seq(Entries) /\ Len(q) = len + 1 /\ q[1] = e /\ \A i \in 1 .. len : q[i + 1] = w[i] /\ i + 1 \in 2 .. len + 1
  BY <1>1, <1>4, <1>5
<1>7. ASSUME NEW x \in ToSet(r), x # e PROVE BeforeIn(q, x, e)
  <2>1. x \in ToSet(w)
    BY <1>2, <1>7
  <2>2. PICK i \in 1 .. len : w[i] = x
    BY <2>1, <1>4, <1>5, Members
  <2>3. i + 1 \in 1 .. Len(q) /\ 1 \in 1 .. Len(q) /\ q[i + 1] = x /\ q[1] = e /\ 1 < i + 1
    BY <2>2, <1>5, <1>6
  <2> QED BY <2>3 DEF BeforeIn
<1>8. ASSUME NEW x, NEW y, x # e, y # e, BeforeIn(r, x, y) PROVE BeforeIn(q, x, y)
  <2>1. PICK i \in 1 .. Len(r), j \in 1 .. Len(r) : r[i] = x /\ r[j] = y /\ j < i
    BY <1>8 DEF BeforeIn
  <2>2. PICK a \in 1 .. len : w[a] = x
    BY <2>1, <1>2, <1>5, <1>8 DEF Without
  <2>3. PICK b \in 1 .. len : w[b] = y
    BY <2>1, <1>2, <1>5, <1>8 DEF Without
  <2>4. b < a
    <3>1. i # j /\ x # y
      BY <2>1, <1>4
    <3>2. a # b
      BY <2>2, <2>3, <3>1
    <3>3. CASE a < b
      <4>1. PICK k \in 1 .. Len(r), l \in 1 .. Len(r) : k < l /\ r[k] = w[a] /\ r[l] = w[b]
        BY <3>3, <1>2, <1>5 DEF Without
      <4>2. k = i /\ l = j
        BY <4>1, <2>1, <2>2, <2>3, <1>4
      <4> QED BY <4>1, <4>2, <2>1, <1>4
    <3> QED BY <3>2, <3>3
  <2>5. a + 1 \in 1 .. Len(q) /\ b + 1 \in 1 .. Len(q) /\ q[a + 1] = x /\ q[b + 1] = y /\ b + 1 < a + 1
    BY <2>2, <2>3, <2>4, <1>5, <1>6
  <2> QED BY <2>5 DEF BeforeIn
<1>9. Nodes(q, ToSet(q)) /\ ToSet(r) \subseteq ToSet(q) /\ e \in ToSet(q)
  BY <1>2, <1>3
<1> QED BY <1>7, <1>8, <1>9

-----------------------------------------------------------------------------
(* The invariant of the queues                                             *)

\* LRU and FILO push at the front, FIFO and LiquidPolicy at the back.
Ordered(l, r, pol) ==
  \A i, j \in 1 .. Len(l) : i < j =>
    IF pol \in {"Lru", "Filo"} THEN BeforeIn(r, l[j], l[i]) ELSE BeforeIn(r, l[i], l[j])
QueueOk(l, r, pol) == Nodes(l, ToSet(l)) /\ ToSet(l) \subseteq ToSet(r) /\ Ordered(l, r, pol)

QueueInv ==
  /\ policy \in QueuePolicy /\ lists \in [Queues -> Seq(Entries)]
  /\ Nodes(recent, ToSet(recent))
  /\ \A q \in Queues : QueueOk(lists[q], recent, policy)
  /\ \A p, q \in Queues : p # q => ToSet(lists[p]) \intersect ToSet(lists[q]) = {}
  /\ \A q \in Queues : (q = "All") = (policy = "Liquid") => lists[q] = <<>>

\* An entry that is touched leaves its queue, and the queue stays in order.
LEMMA UnlinkedQueue ==
  ASSUME NEW l, NEW r, NEW pol, QueueOk(l, r, pol), Nodes(r, ToSet(r)), NEW e \in Entries,
         NEW q, q = <<e>> \o RemoveFirst(r, e), NEW w, w = RemoveFirst(l, e)
  PROVE  /\ QueueOk(w, q, pol) /\ ToSet(w) = ToSet(l) \ {e}
         /\ \A i \in 1 .. Len(w) : BeforeIn(q, w[i], e)
<1>1. Without(w, l, e) /\ Nodes(w, ToSet(w)) /\ ToSet(w) = ToSet(l) \ {e}
  BY UnlinkedList, WithoutNodes DEF QueueOk
<1>2. /\ ToSet(r) \subseteq ToSet(q)
      /\ \A x \in ToSet(r) : x # e => BeforeIn(q, x, e)
      /\ \A x, y : x # e /\ y # e /\ BeforeIn(r, x, y) => BeforeIn(q, x, y)
  BY TouchKeeps
<1>3. ToSet(w) \subseteq ToSet(r)
  BY <1>1 DEF QueueOk
<1>4. w \in Seq(Entries) /\ \A i \in 1 .. Len(w) : w[i] \in ToSet(w) /\ w[i] # e
  BY <1>1 DEF Nodes
<1>5. \A i \in 1 .. Len(w) : BeforeIn(q, w[i], e)
  BY <1>2, <1>3, <1>4
<1>6. Ordered(w, q, pol)
  <2> SUFFICES ASSUME NEW i \in 1 .. Len(w), NEW j \in 1 .. Len(w), i < j
               PROVE  IF pol \in {"Lru", "Filo"} THEN BeforeIn(q, w[j], w[i]) ELSE BeforeIn(q, w[i], w[j])
    BY DEF Ordered
  <2>1. PICK k \in 1 .. Len(l), m \in 1 .. Len(l) : k < m /\ l[k] = w[i] /\ l[m] = w[j]
    BY <1>1 DEF Without
  <2>2. IF pol \in {"Lru", "Filo"} THEN BeforeIn(r, w[j], w[i]) ELSE BeforeIn(r, w[i], w[j])
    BY <2>1 DEF QueueOk, Ordered
  <2>3. w[i] # e /\ w[j] # e
    BY <1>4
  <2> QED BY <2>2, <2>3, <1>2
<1> QED BY <1>1, <1>2, <1>3, <1>5, <1>6 DEF QueueOk

\* A queue stays in order when the youngest entry is pushed at its end.
LEMMA PushedQueue ==
  ASSUME NEW w, NEW q, NEW pol, QueueOk(w, q, pol), NEW e \in Entries, e \notin ToSet(w), e \in ToSet(q),
         \A i \in 1 .. Len(w) : BeforeIn(q, w[i], e),
         NEW t, t = IF pol \in {"Lru", "Filo"} THEN <<e>> \o w ELSE Append(w, e)
  PROVE  QueueOk(t, q, pol)
<1>1. Nodes(t, ToSet(w) \union {e})
  BY FrontNodes, BackNodes DEF QueueOk
<1>2. ToSet(t) = ToSet(w) \union {e}
  BY <1>1, NodesSet
<1>3. w \in Seq(Entries)
  BY DEF QueueOk, Nodes
<1>4. PICK len \in Nat : len = Len(w)
  BY <1>3
<1>5. Ordered(t, q, pol)
  <2>1. CASE pol \in {"Lru", "Filo"}
    <3>1. Len(t) = len + 1 /\ t[1] = e /\ \A i \in 2 .. len + 1 : t[i] = w[i - 1]
      BY <2>1, <1>3, <1>4
    <3>2. \A i \in 2 .. len + 1 : i - 1 \in 1 .. len
      BY <1>4
    <3> SUFFICES ASSUME NEW i \in 1 .. len + 1, NEW j \in 1 .. len + 1, i < j PROVE BeforeIn(q, t[j], t[i])
      BY <2>1, <3>1 DEF Ordered
    <3>3. j \in 2 .. len + 1 /\ j - 1 \in 1 .. len /\ t[j] = w[j - 1]
      BY <3>1, <3>2, <1>4
    <3>4. CASE i = 1
      BY <3>1, <3>3, <3>4, <1>4
    <3>5. CASE i # 1
      <4>0. i \in 2 .. len + 1
        BY <3>5, <1>4
      <4>1. PICK a \in 1 .. len, b \in 1 .. len : a = i - 1 /\ b = j - 1 /\ a < b
        BY <3>2, <3>3, <4>0, <1>4
      <4>2. t[i] = w[a] /\ t[j] = w[b]
        <5>1. t[i] = w[i - 1]
          BY <3>1, <4>0
        <5> QED BY <5>1, <3>3, <4>1
      <4>3. BeforeIn(q, w[b], w[a])
        BY <4>1, <2>1, <1>4 DEF QueueOk, Ordered
      <4> QED BY <4>2, <4>3
    <3> QED BY <3>4, <3>5
  <2>2. CASE pol \notin {"Lru", "Filo"}
    <3>1. Len(t) = len + 1 /\ t[len + 1] = e /\ \A i \in 1 .. len : t[i] = w[i]
      BY <2>2, <1>3, <1>4
    <3> SUFFICES ASSUME NEW i \in 1 .. len + 1, NEW j \in 1 .. len + 1, i < j PROVE BeforeIn(q, t[i], t[j])
      BY <2>2, <3>1 DEF Ordered
    <3>2. i \in 1 .. len /\ t[i] = w[i]
      BY <3>1, <1>4
    <3>3. CASE j = len + 1
      BY <3>1, <3>2, <3>3, <1>4
    <3>4. CASE j # len + 1
      <4>1. j \in 1 .. len /\ t[j] = w[j]
        BY <3>1, <3>4, <1>4
      <4>2. BeforeIn(q, w[i], w[j])
        BY <3>2, <4>1, <2>2, <1>4 DEF QueueOk, Ordered
      <4> QED BY <3>2, <4>1, <4>2
    <3> QED BY <3>3, <3>4
  <2> QED BY <2>1, <2>2
<1> QED BY <1>1, <1>2, <1>5 DEF QueueOk

\* notify_insert, and notify_access of the LRU: the entry leaves the queue it is
\* in and is pushed on the queue of its type.
LEMMA UpsertStep ==
  ASSUME QueueInv, NEW e \in Entries, NEW q0 \in Queues, (q0 = "All") # (policy = "Liquid"),
         lists' = Upsert(e, q0), Touch(e), policy' = policy
  PROVE  /\ QueueInv'
         /\ \A p \in Queues : ToSet(lists'[p]) = IF p = q0 THEN ToSet(lists[p]) \union {e} ELSE ToSet(lists[p]) \ {e}
<1>0. PICK pol : pol = policy
  OBVIOUS
<1>1. PICK r : r = recent
  OBVIOUS
<1>2. PICK q : q = recent'
  OBVIOUS
<1>3. q = <<e>> \o RemoveFirst(r, e) /\ Nodes(r, ToSet(r))
  BY <1>1, <1>2 DEF Touch, QueueInv
<1>4. Nodes(q, ToSet(q)) /\ e \in ToSet(q)
  BY <1>3, TouchKeeps
<1>5. ASSUME NEW p \in Queues
      PROVE  /\ QueueOk(lists'[p], q, pol)
             /\ ToSet(lists'[p]) = IF p = q0 THEN ToSet(lists[p]) \union {e} ELSE ToSet(lists[p]) \ {e}
             /\ p # q0 => lists'[p] = RemoveFirst(lists[p], e)
  <2>1. PICK l : l = lists[p]
    OBVIOUS
  <2>2. PICK w : w = RemoveFirst(l, e)
    OBVIOUS
  <2>3. QueueOk(l, r, pol)
    BY <1>0, <1>1, <2>1 DEF QueueInv
  <2>4. /\ QueueOk(w, q, pol) /\ ToSet(w) = ToSet(l) \ {e}
        /\ \A i \in 1 .. Len(w) : BeforeIn(q, w[i], e)
    <3>1. QueueOk(w, q, pol)
      BY <1>3, <2>2, <2>3, UnlinkedQueue
    <3>2. ToSet(w) = ToSet(l) \ {e}
      BY <1>3, <2>2, <2>3, UnlinkedQueue
    <3>3. \A i \in 1 .. Len(w) : BeforeIn(q, w[i], e)
      BY <1>3, <2>2, <2>3, UnlinkedQueue
    <3> QED BY <3>1, <3>2, <3>3
  <2>5. CASE p # q0
    <3>1. lists'[p] = w
      BY <2>1, <2>2, <2>5 DEF Upsert
    <3> QED BY <3>1, <2>1, <2>2, <2>4, <2>5
  <2>6. CASE p = q0
    <3>1. PICK t : t = lists'[p]
      OBVIOUS
    <3>2. t = IF pol \in {"Lru", "Filo"} THEN <<e>> \o w ELSE Append(w, e)
      BY <1>0, <3>1, <2>1, <2>2, <2>6 DEF Upsert
    <3>3. e \notin ToSet(w)
      BY <2>4
    <3>4. QueueOk(t, q, pol) /\ ToSet(t) = ToSet(w) \union {e}
      <4>1. QueueOk(t, q, pol)
        BY <1>4, <2>4, <3>2, <3>3, PushedQueue
      <4>2. ToSet(t) = ToSet(w) \union {e}
        <5>1. Nodes(w, ToSet(w))
          BY <2>4 DEF QueueOk
        <5>2. Nodes(t, ToSet(w) \union {e})
          BY <5>1, <3>2, <3>3, FrontNodes, BackNodes
        <5> QED BY <5>2, NodesSet
      <4> QED BY <4>1, <4>2
    <3> QED BY <3>1, <3>4, <2>1, <2>4, <2>6
  <2> QED BY <2>5, <2>6
<1>6. lists' \in [Queues -> Seq(Entries)]
  <2>1. \A p \in Queues : lists'[p] \in Seq(Entries)
    BY <1>5 DEF QueueOk, Nodes
  <2>2. lists' = [p \in Queues |-> lists'[p]]
    BY DEF Upsert
  <2> QED BY <2>1, <2>2
<1>7. \A p, s \in Queues : p # s => ToSet(lists'[p]) \intersect ToSet(lists'[s]) = {}
  <2> SUFFICES ASSUME NEW p \in Queues, NEW s \in Queues, p # s
               PROVE  ToSet(lists'[p]) \intersect ToSet(lists'[s]) = {}
    OBVIOUS
  <2>1. ToSet(lists[p]) \intersect ToSet(lists[s]) = {}
    BY DEF QueueInv
  <2> QED BY <2>1, <1>5
<1>8. ASSUME NEW p \in Queues, (p = "All") = (policy = "Liquid") PROVE lists'[p] = <<>>
  <2>1. lists[p] = <<>> /\ p # q0
    BY <1>8 DEF QueueInv
  <2>2. lists'[p] = RemoveFirst(<<>>, e)
    BY <1>5, <2>1
  <2>3. <<>> \in Seq(Entries) /\ 1 .. Len(<<>>) = {}
    OBVIOUS
  <2>4. RemoveFirst(<<>>, e) = <<>>
    BY <2>3, RemoveFirstIs
  <2> QED BY <2>2, <2>4
<1>9. policy' \in QueuePolicy
  BY DEF QueueInv
<1> QED BY <1>0, <1>2, <1>4, <1>5, <1>6, <1>7, <1>8, <1>9 DEF QueueInv

-----------------------------------------------------------------------------
(* find_victim cuts the queues                                             *)

\* t is a part of the list l, in l's order.
PartOf(t, l) ==
  /\ t \in Seq(Entries)
  /\ \A i \in 1 .. Len(t) : \E k \in 1 .. Len(l) : l[k] = t[i]
  /\ \A i, j \in 1 .. Len(t) : i < j => \E k, m \in 1 .. Len(l) : k < m /\ l[k] = t[i] /\ l[m] = t[j]

\* A part of a queue that is in order is in order.
LEMMA PartQueue ==
  ASSUME NEW l, NEW r, NEW pol, QueueOk(l, r, pol), NEW t, PartOf(t, l)
  PROVE  QueueOk(t, r, pol) /\ ToSet(t) \subseteq ToSet(l)
<1>1. l \in Seq(Entries) /\ \A i, j \in 1 .. Len(l) : l[i] = l[j] => i = j
  BY DEF QueueOk, Nodes
<1>2. t \in Seq(Entries)
  BY DEF PartOf
<1>3. ToSet(t) \subseteq ToSet(l)
  <2>1. \A x : x \in ToSet(t) <=> \E i \in 1 .. Len(t) : t[i] = x
    BY <1>2, Members
  <2>2. \A x : x \in ToSet(l) <=> \E i \in 1 .. Len(l) : l[i] = x
    BY <1>1, Members
  <2> QED BY <2>1, <2>2 DEF PartOf
<1>4. \A i, j \in 1 .. Len(t) : i < j => t[i] # t[j]
  <2> SUFFICES ASSUME NEW i \in 1 .. Len(t), NEW j \in 1 .. Len(t), i < j PROVE t[i] # t[j]
    OBVIOUS
  <2>1. PICK k \in 1 .. Len(l), m \in 1 .. Len(l) : k < m /\ l[k] = t[i] /\ l[m] = t[j]
    BY DEF PartOf
  <2>2. k # m
    BY <2>1, <1>1
  <2> QED BY <2>1, <2>2, <1>1
<1>5. Ordered(t, r, pol)
  <2> SUFFICES ASSUME NEW i \in 1 .. Len(t), NEW j \in 1 .. Len(t), i < j
               PROVE  IF pol \in {"Lru", "Filo"} THEN BeforeIn(r, t[j], t[i]) ELSE BeforeIn(r, t[i], t[j])
    BY DEF Ordered
  <2>1. PICK k \in 1 .. Len(l), m \in 1 .. Len(l) : k < m /\ l[k] = t[i] /\ l[m] = t[j]
    BY DEF PartOf
  <2> QED BY <2>1 DEF QueueOk, Ordered
<1>6. Nodes(t, ToSet(t))
  BY <1>2, <1>4, DistinctNodes
<1> QED BY <1>3, <1>5, <1>6 DEF QueueOk

\* What FirstOf and Rest are.
LEMMA Cut ==
  ASSUME NEW l \in Seq(Entries), NEW c \in Nat
  PROVE  \E m \in 0 .. Len(l) :
           /\ m = IF Len(l) < c THEN Len(l) ELSE c
           /\ FirstOf(l, c) \in Seq(Entries) /\ Len(FirstOf(l, c)) = m
           /\ \A i \in 1 .. m : FirstOf(l, c)[i] = l[i]
           /\ Rest(l, c) \in Seq(Entries) /\ Len(Rest(l, c)) = Len(l) - m
           /\ \A i \in 1 .. Len(l) - m : Rest(l, c)[i] = l[m + i]
<1>1. PICK len \in Nat : len = Len(l)
  OBVIOUS
<1>2. PICK m : m = Min({c, len})
  OBVIOUS
<1>3. m = IF len < c THEN len ELSE c
  BY <1>1, <1>2 DEF Min
<1>4. m \in 0 .. len
  BY <1>1, <1>3
<1>5. PICK f : f = SubSeq(l, 1, m)
  OBVIOUS
<1>6. f \in Seq(Entries) /\ Len(f) = m /\ \A i \in 1 .. m : f[i] = l[i]
  BY <1>1, <1>4, <1>5
<1>7. PICK t : t = SubSeq(l, m + 1, len)
  OBVIOUS
<1>8. t \in Seq(Entries) /\ Len(t) = len - m /\ \A i \in 1 .. len - m : t[i] = l[m + i]
  BY <1>1, <1>4, <1>7
<1>9. FirstOf(l, c) = f /\ Rest(l, c) = t
  BY <1>1, <1>2, <1>5, <1>7 DEF FirstOf, Rest
<1> QED BY <1>1, <1>3, <1>4, <1>6, <1>8, <1>9

\* The c entries f are taken off one end of the queue l and t is left: the LRU
\* takes them from the back, the others from the front.
CutOff(f, t, l, r, pol, c) ==
  /\ QueueOk(t, r, pol) /\ Nodes(f, ToSet(f))
  /\ Len(f) = IF Len(l) < c THEN Len(l) ELSE c
  /\ ToSet(f) \subseteq ToSet(l) /\ ToSet(t) = ToSet(l) \ ToSet(f)
  /\ \A v \in ToSet(f), s \in ToSet(t) : IF pol = "Filo" THEN BeforeIn(r, s, v) ELSE BeforeIn(r, v, s)

\* F and T say where in l, of length len, the m entries of f and those of t come from.
IsCut(F, T, f, t, l, len, m, pol) ==
  /\ f \in Seq(Entries) /\ Len(f) = m /\ t \in Seq(Entries) /\ Len(t) = len - m
  /\ F \in [1 .. m -> 1 .. len] /\ T \in [1 .. len - m -> 1 .. len]
  /\ \A i \in 1 .. m : f[i] = l[F[i]]
  /\ \A i \in 1 .. len - m : t[i] = l[T[i]]
  /\ \A i, j \in 1 .. m : i < j => F[i] # F[j]
  /\ \A i, j \in 1 .. len - m : i < j => T[i] < T[j]
  /\ \A k \in 1 .. len : (\E i \in 1 .. m : F[i] = k) \/ (\E i \in 1 .. len - m : T[i] = k)
  /\ \A i \in 1 .. m, j \in 1 .. len - m : IF pol = "Lru" THEN T[j] < F[i] ELSE F[i] < T[j]

\* Cutting off the last, or the first, m positions takes the oldest entries.
LEMMA CutByIndex ==
  ASSUME NEW l, NEW r, NEW pol, QueueOk(l, r, pol), NEW c \in Nat,
         NEW len \in Nat, len = Len(l), NEW m \in 0 .. len, m = IF len < c THEN len ELSE c,
         NEW F, NEW T, NEW f, NEW t, IsCut(F, T, f, t, l, len, m, pol)
  PROVE  CutOff(f, t, l, r, pol, c)
<1>a. /\ f \in Seq(Entries) /\ t \in Seq(Entries) /\ Len(f) = m /\ Len(t) = len - m
      /\ 1 .. Len(f) = 1 .. m /\ 1 .. Len(t) = 1 .. len - m
  BY DEF IsCut
<1>b. \A i \in 1 .. m : F[i] \in 1 .. len /\ f[i] = l[F[i]]
  BY DEF IsCut
<1>c. \A i \in 1 .. len - m : T[i] \in 1 .. len /\ t[i] = l[T[i]]
  BY DEF IsCut
<1>d. /\ \A i, j \in 1 .. m : i < j => F[i] # F[j]
      /\ \A i, j \in 1 .. len - m : i < j => T[i] < T[j]
      /\ \A i \in 1 .. m, j \in 1 .. len - m : IF pol = "Lru" THEN T[j] < F[i] ELSE F[i] < T[j]
  BY DEF IsCut
<1>e. \A k \in 1 .. len : (\E i \in 1 .. m : F[i] = k) \/ (\E i \in 1 .. len - m : T[i] = k)
  BY DEF IsCut
<1>1. l \in Seq(Entries) /\ \A i, j \in 1 .. len : l[i] = l[j] => i = j
  BY DEF QueueOk, Nodes
<1>2. \A x : x \in ToSet(l) <=> \E i \in 1 .. len : l[i] = x
  BY <1>1, Members
<1>3. \A x : x \in ToSet(f) <=> \E i \in 1 .. m : f[i] = x
  BY <1>a, Members
<1>4. \A x : x \in ToSet(t) <=> \E i \in 1 .. len - m : t[i] = x
  BY <1>a, Members
<1>5. PartOf(t, l)
  <2>1. \A i \in 1 .. Len(t) : \E k \in 1 .. Len(l) : l[k] = t[i]
    BY <1>a, <1>c
  <2>2. ASSUME NEW i \in 1 .. Len(t), NEW j \in 1 .. Len(t), i < j
        PROVE  \E x, y \in 1 .. Len(l) : x < y /\ l[x] = t[i] /\ l[y] = t[j]
    <3>1. PICK x \in 1 .. len : x = T[i] /\ l[x] = t[i]
      BY <1>a, <1>c
    <3>2. PICK y \in 1 .. len : y = T[j] /\ l[y] = t[j]
      BY <1>a, <1>c
    <3>3. x < y
      BY <1>a, <1>d, <2>2, <3>1, <3>2
    <3> QED BY <3>1, <3>2, <3>3
  <2> QED BY <1>a, <2>1, <2>2 DEF PartOf
<1>6. QueueOk(t, r, pol)
  BY <1>5, PartQueue
<1>7. Nodes(f, ToSet(f))
  <2>1. ASSUME NEW i \in 1 .. Len(f), NEW j \in 1 .. Len(f), i < j PROVE f[i] # f[j]
    <3>1. PICK x \in 1 .. len : x = F[i] /\ l[x] = f[i]
      BY <1>a, <1>b
    <3>2. PICK y \in 1 .. len : y = F[j] /\ l[y] = f[j]
      BY <1>a, <1>b
    <3>3. x # y
      BY <1>a, <1>d, <2>1, <3>1, <3>2
    <3> QED BY <1>1, <3>1, <3>2, <3>3
  <2> QED BY <1>a, <2>1, DistinctNodes
<1>8. ToSet(f) \subseteq ToSet(l)
  <2> SUFFICES ASSUME NEW x \in ToSet(f) PROVE x \in ToSet(l)
    OBVIOUS
  <2>1. PICK i \in 1 .. m : f[i] = x
    BY <1>3
  <2>2. F[i] \in 1 .. len /\ l[F[i]] = x
    BY <1>b, <2>1
  <2> QED BY <2>2, <1>2
<1>9. ASSUME NEW i \in 1 .. m, NEW j \in 1 .. len - m
      PROVE  f[i] # t[j] /\ IF pol = "Filo" THEN BeforeIn(r, t[j], f[i]) ELSE BeforeIn(r, f[i], t[j])
  <2>1. PICK x \in 1 .. len : x = F[i] /\ l[x] = f[i]
    BY <1>a, <1>b
  <2>2. PICK y \in 1 .. len : y = T[j] /\ l[y] = t[j]
    BY <1>a, <1>c
  <2>3. IF pol = "Lru" THEN y < x ELSE x < y
    BY <1>d, <2>1, <2>2
  <2>4. x # y
    BY <2>3
  <2>5. \A a, b \in 1 .. len : a < b =>
          IF pol \in {"Lru", "Filo"} THEN BeforeIn(r, l[b], l[a]) ELSE BeforeIn(r, l[a], l[b])
    BY DEF QueueOk, Ordered
  <2>6. CASE pol = "Lru"
    BY <2>1, <2>2, <2>3, <2>4, <2>5, <2>6, <1>1
  <2>7. CASE pol # "Lru"
    BY <2>1, <2>2, <2>3, <2>4, <2>5, <2>7, <1>1
  <2> QED BY <2>6, <2>7
<1>10. ToSet(t) = ToSet(l) \ ToSet(f)
  <2>1. ASSUME NEW x \in ToSet(t) PROVE x \in ToSet(l) /\ x \notin ToSet(f)
    <3>1. PICK j \in 1 .. len - m : t[j] = x
      BY <1>4, <2>1
    <3>2. T[j] \in 1 .. len /\ l[T[j]] = x
      BY <1>c, <3>1
    <3>3. \A i \in 1 .. m : f[i] # x
      BY <3>1, <1>9
    <3> QED BY <3>2, <3>3, <1>2, <1>3
  <2>2. ASSUME NEW x \in ToSet(l), x \notin ToSet(f) PROVE x \in ToSet(t)
    <3>1. PICK k \in 1 .. len : l[k] = x
      BY <1>2, <2>2
    <3>2. CASE \E i \in 1 .. m : F[i] = k
      <4>1. PICK i \in 1 .. m : F[i] = k
        BY <3>2
      <4>2. f[i] = x
        BY <1>b, <4>1, <3>1
      <4> QED BY <4>2, <2>2, <1>3
    <3>3. CASE \E i \in 1 .. len - m : T[i] = k
      <4>1. PICK i \in 1 .. len - m : T[i] = k
        BY <3>3
      <4>2. t[i] = x
        BY <1>c, <4>1, <3>1
      <4> QED BY <4>2, <1>4
    <3> QED BY <1>e, <3>2, <3>3
  <2> QED BY <2>1, <2>2
<1>11. ASSUME NEW v \in ToSet(f), NEW s \in ToSet(t)
       PROVE  IF pol = "Filo" THEN BeforeIn(r, s, v) ELSE BeforeIn(r, v, s)
  <2>1. PICK i \in 1 .. m : f[i] = v
    BY <1>3
  <2>2. PICK j \in 1 .. len - m : t[j] = s
    BY <1>4
  <2> QED BY <2>1, <2>2, <1>9
<1> QED BY <1>a, <1>6, <1>7, <1>8, <1>10, <1>11 DEF CutOff

\* Victims taken from the front are those that go first, except for LRU.
LEMMA FrontCut ==
  ASSUME NEW l, NEW r, NEW pol, QueueOk(l, r, pol), pol # "Lru", NEW c \in Nat,
         NEW f, f = FirstOf(l, c), NEW t, t = Rest(l, c)
  PROVE  CutOff(f, t, l, r, pol, c)
<1>1. l \in Seq(Entries)
  BY DEF QueueOk, Nodes
<1>2. PICK len \in Nat : len = Len(l)
  BY <1>1
<1>3. PICK m \in 0 .. len :
        /\ m = IF len < c THEN len ELSE c
        /\ f \in Seq(Entries) /\ Len(f) = m /\ \A i \in 1 .. m : f[i] = l[i]
        /\ t \in Seq(Entries) /\ Len(t) = len - m /\ \A i \in 1 .. len - m : t[i] = l[m + i]
  BY <1>1, <1>2, Cut
<1>4. PICK F : F = [i \in 1 .. m |-> i]
  OBVIOUS
<1>5. PICK T : T = [i \in 1 .. len - m |-> m + i]
  OBVIOUS
<1>6. F \in [1 .. m -> 1 .. len] /\ \A i \in 1 .. m : F[i] = i /\ f[i] = l[F[i]]
  BY <1>2, <1>3, <1>4
<1>7. T \in [1 .. len - m -> 1 .. len] /\ \A i \in 1 .. len - m : T[i] = m + i /\ t[i] = l[T[i]]
  BY <1>2, <1>3, <1>5
<1>8. ASSUME NEW k \in 1 .. len PROVE (\E i \in 1 .. m : F[i] = k) \/ (\E i \in 1 .. len - m : T[i] = k)
  <2>1. CASE k <= m
    <3>1. k \in 1 .. m /\ F[k] = k
      BY <2>1, <1>2, <1>3, <1>6
    <3> QED BY <3>1
  <2>2. CASE k > m
    <3>1. k - m \in 1 .. len - m /\ T[k - m] = k
      BY <2>2, <1>2, <1>3, <1>7
    <3> QED BY <3>1
  <2> QED BY <2>1, <2>2, <1>3
<1>9. \A i, j \in 1 .. m : i < j => F[i] # F[j]
  BY <1>2, <1>3, <1>6
<1>10. \A i, j \in 1 .. len - m : i < j => T[i] < T[j]
  BY <1>2, <1>3, <1>7
<1>11. \A i \in 1 .. m, j \in 1 .. len - m : IF pol = "Lru" THEN T[j] < F[i] ELSE F[i] < T[j]
  BY <1>2, <1>3, <1>6, <1>7
<1>12. IsCut(F, T, f, t, l, len, m, pol)
  BY <1>3, <1>6, <1>7, <1>8, <1>9, <1>10, <1>11 DEF IsCut
<1>13. m = IF len < c THEN len ELSE c
  BY <1>3
<1> QED BY <1>2, <1>12, <1>13, CutByIndex

\* Victims taken from the back are the least recently used.
LEMMA BackCut ==
  ASSUME NEW l, NEW r, NEW pol, QueueOk(l, r, pol), pol = "Lru", NEW c \in Nat,
         NEW f, f = FirstOf(Reverse(l), c), NEW t, t = Reverse(Rest(Reverse(l), c))
  PROVE  CutOff(f, t, l, r, pol, c)
<1>1. l \in Seq(Entries)
  BY DEF QueueOk, Nodes
<1>2. PICK len \in Nat : len = Len(l)
  BY <1>1
<1>3. PICK w \in Seq(Entries) : w = Reverse(l) /\ Len(w) = len /\ \A i \in 1 .. len : w[i] = l[len - i + 1]
  BY <1>1, <1>2, ReverseIs
<1>4. PICK u : u = Rest(w, c)
  OBVIOUS
<1>5. f = FirstOf(w, c) /\ t = Reverse(u)
  BY <1>3, <1>4
<1>6. PICK m \in 0 .. len :
        /\ m = IF len < c THEN len ELSE c
        /\ f \in Seq(Entries) /\ Len(f) = m /\ \A i \in 1 .. m : f[i] = w[i]
        /\ u \in Seq(Entries) /\ Len(u) = len - m /\ \A i \in 1 .. len - m : u[i] = w[m + i]
  <2>1. w \in Seq(Entries) /\ Len(w) = len
    BY <1>3
  <2>2. PICK m \in 0 .. Len(w) :
           /\ m = IF Len(w) < c THEN Len(w) ELSE c
           /\ FirstOf(w, c) \in Seq(Entries) /\ Len(FirstOf(w, c)) = m
           /\ \A i \in 1 .. m : FirstOf(w, c)[i] = w[i]
           /\ Rest(w, c) \in Seq(Entries) /\ Len(Rest(w, c)) = Len(w) - m
           /\ \A i \in 1 .. Len(w) - m : Rest(w, c)[i] = w[m + i]
    BY Cut
  <2> QED BY <2>1, <2>2, <1>4, <1>5
<1>7. t \in Seq(Entries) /\ Len(t) = len - m /\ \A i \in 1 .. len - m : t[i] = u[(len - m) - i + 1]
  <2>1. u \in Seq(Entries) /\ Len(u) = len - m /\ t = Reverse(u)
    BY <1>5, <1>6
  <2> QED BY <2>1, ReverseIs
<1>8. PICK F : F = [i \in 1 .. m |-> len - i + 1]
  OBVIOUS
<1>9. PICK T : T = [i \in 1 .. len - m |-> i]
  OBVIOUS
<1>10. F \in [1 .. m -> 1 .. len] /\ \A i \in 1 .. m : F[i] = len - i + 1 /\ f[i] = l[F[i]]
  <2>1. \A i \in 1 .. m : i \in 1 .. len /\ len - i + 1 \in 1 .. len
    BY <1>2, <1>6
  <2> QED BY <2>1, <1>3, <1>6, <1>8
<1>11. ASSUME NEW i \in 1 .. len - m PROVE i \in 1 .. len /\ t[i] = l[i]
  <2>0. i \in Nat /\ m \in Nat /\ 1 <= i /\ i <= len - m
    OBVIOUS
  <2>1. PICK a \in Nat : a = (len - m) - i + 1 /\ 1 <= a /\ a <= len - m
    <3>1. (len - m) - i + 1 \in Nat /\ 1 <= (len - m) - i + 1 /\ (len - m) - i + 1 <= len - m
      BY <2>0
    <3> QED BY <3>1
  <2>2. PICK b \in Nat : b = m + a /\ 1 <= b /\ b <= len
    BY <2>0, <2>1
  <2>3. len - b + 1 = i
    BY <2>0, <2>1, <2>2
  <2>4. t[i] = u[a] /\ u[a] = w[b] /\ w[b] = l[len - b + 1]
    <3>1. a \in 1 .. len - m /\ b \in 1 .. len
      BY <2>0, <2>1, <2>2
    <3>2. t[i] = u[a]
      BY <1>7, <2>1
    <3>3. u[a] = w[b]
      BY <3>1, <1>6, <2>2
    <3>4. w[b] = l[len - b + 1]
      BY <3>1, <1>3
    <3> QED BY <3>2, <3>3, <3>4
  <2>5. i \in 1 .. len
    BY <2>0
  <2> QED BY <2>3, <2>4, <2>5
<1>12. T \in [1 .. len - m -> 1 .. len] /\ \A i \in 1 .. len - m : T[i] = i /\ t[i] = l[T[i]]
  BY <1>9, <1>11
<1>13. ASSUME NEW k \in 1 .. len PROVE (\E i \in 1 .. m : F[i] = k) \/ (\E i \in 1 .. len - m : T[i] = k)
  <2>1. CASE k <= len - m
    <3>1. k \in 1 .. len - m
      BY <2>1
    <3> QED BY <3>1, <1>12
  <2>2. CASE k > len - m
    <3>1. PICK i : i = len - k + 1
      OBVIOUS
    <3>2. i \in 1 .. m /\ len - i + 1 = k
      BY <2>2, <3>1
    <3> QED BY <3>2, <1>10
  <2> QED BY <2>1, <2>2, <1>2, <1>6
<1>14. \A i, j \in 1 .. m : i < j => F[i] # F[j]
  BY <1>2, <1>6, <1>10
<1>15. \A i, j \in 1 .. len - m : i < j => T[i] < T[j]
  BY <1>2, <1>6, <1>12
<1>16. \A i \in 1 .. m, j \in 1 .. len - m : IF pol = "Lru" THEN T[j] < F[i] ELSE F[i] < T[j]
  BY <1>2, <1>6, <1>10, <1>12
<1>17. IsCut(F, T, f, t, l, len, m, pol)
  BY <1>6, <1>7, <1>10, <1>12, <1>13, <1>14, <1>15, <1>16 DEF IsCut
<1>18. m = IF len < c THEN len ELSE c
  BY <1>6
<1> QED BY <1>2, <1>17, <1>18, CutByIndex

\* What is left does not depend on asking for more than there is.
LEMMA RestOfFirst ==
  ASSUME NEW l \in Seq(Entries), NEW c \in Nat
  PROVE  Rest(l, Len(FirstOf(l, c))) = Rest(l, c)
<1>1. PICK len \in Nat : len = Len(l)
  OBVIOUS
<1>2. PICK m : m = Len(FirstOf(l, c))
  OBVIOUS
<1>3. m \in 0 .. len /\ m = IF len < c THEN len ELSE c
  BY <1>1, <1>2, Cut
<1>4. Min({c, len}) = m /\ Min({m, len}) = m
  BY <1>1, <1>3 DEF Min
<1> QED BY <1>1, <1>2, <1>4 DEF Rest

\* What one call of find_victim does to a queue it takes c entries from.
LEMMA LiquidCut ==
  ASSUME NEW l, NEW r, QueueOk(l, r, "Liquid"), NEW c \in Nat,
         NEW f, f = FirstOf(l, c), NEW t, t = Rest(l, Len(f))
  PROVE  CutOff(f, t, l, r, "Liquid", c) /\ Len(f) \in 0 .. c
<1>1. l \in Seq(Entries)
  BY DEF QueueOk, Nodes
<1>2. t = Rest(l, c)
  BY <1>1, RestOfFirst
<1>3. CutOff(f, t, l, r, "Liquid", c)
  BY <1>2, FrontCut
<1>4. Len(l) \in Nat /\ Len(f) = IF Len(l) < c THEN Len(l) ELSE c
  BY <1>1, <1>3 DEF CutOff
<1> QED BY <1>3, <1>4

\* A list of no nodes is empty.
LEMMA NoNodes ==
  ASSUME NEW s, Nodes(s, ToSet(s)), ToSet(s) \subseteq {} PROVE s = <<>>
<1>1. s \in Seq(Entries) /\ \A i \in 1 .. Len(s) : s[i] \in ToSet(s)
  BY DEF Nodes
<1>2. Len(s) \in Nat /\ ~(Len(s) >= 1)
  <2>1. ASSUME Len(s) >= 1 PROVE FALSE
    <3>1. 1 \in 1 .. Len(s)
      BY <1>1, <2>1
    <3> QED BY <3>1, <1>1
  <2> QED BY <1>1, <2>1
<1>3. Len(s) = 0
  BY <1>2
<1> QED BY <1>1, <1>3

\* The empty queue is in order.
LEMMA EmptyList == ToSet(<<>>) = {} /\ Nodes(<<>>, {}) /\ \A r, pol : QueueOk(<<>>, r, pol)
<1>1. <<>> \in Seq(Entries) /\ 1 .. Len(<<>>) = {}
  OBVIOUS
<1>2. ToSet(<<>>) = {}
  BY <1>1, Members
<1>3. Nodes(<<>>, {})
  BY <1>1 DEF Nodes
<1> QED BY <1>1, <1>2, <1>3 DEF QueueOk, Ordered

\* Two lists with no common node join into one.
LEMMA NodesJoin ==
  ASSUME NEW a, NEW A, Nodes(a, A), NEW b, NEW B, Nodes(b, B), A \intersect B = {},
         NEW t, t = a \o b
  PROVE  Nodes(t, A \union B) /\ Len(t) = Len(a) + Len(b)
<1>1. a \in Seq(Entries) /\ b \in Seq(Entries) /\ A \subseteq Entries /\ B \subseteq Entries
  BY DEF Nodes
<1>2. PICK m \in Nat : m = Len(a)
  BY <1>1
<1>3. PICK n \in Nat : n = Len(b)
  BY <1>1
<1>4. t \in Seq(Entries) /\ Len(t) = m + n
  BY <1>1, <1>2, <1>3
<1>5. \A i \in 1 .. m : t[i] = a[i]
  BY <1>1, <1>2, <1>3
<1>6. \A i \in m + 1 .. m + n : t[i] = b[i - m] /\ i - m \in 1 .. n
  BY <1>1, <1>2, <1>3
<1>7. /\ \A i \in 1 .. m : a[i] \in A
      /\ \A x \in A : \E i \in 1 .. m : a[i] = x
      /\ \A i, j \in 1 .. m : a[i] = a[j] => i = j
  BY <1>2 DEF Nodes
<1>8. /\ \A i \in 1 .. n : b[i] \in B
      /\ \A x \in B : \E i \in 1 .. n : b[i] = x
      /\ \A i, j \in 1 .. n : b[i] = b[j] => i = j
  BY <1>3 DEF Nodes
<1>9. 1 .. Len(t) = (1 .. m) \union (m + 1 .. m + n)
  BY <1>2, <1>3, <1>4
<1>10. ASSUME NEW i \in 1 .. Len(t) PROVE t[i] \in A \union B
  <2>1. CASE i \in 1 .. m
    BY <2>1, <1>5, <1>7
  <2>2. CASE i \in m + 1 .. m + n
    BY <2>2, <1>6, <1>8
  <2> QED BY <2>1, <2>2, <1>9
<1>11. ASSUME NEW x \in A \union B PROVE \E i \in 1 .. Len(t) : t[i] = x
  <2>1. CASE x \in A
    BY <2>1, <1>5, <1>7, <1>9
  <2>2. CASE x \in B
    <3>1. PICK i \in 1 .. n : b[i] = x
      BY <2>2, <1>8
    <3>2. m + i \in m + 1 .. m + n /\ (m + i) - m = i
      BY <1>2, <1>3
    <3>3. t[m + i] = b[(m + i) - m]
      BY <3>2, <1>6
    <3> QED BY <3>1, <3>2, <3>3, <1>9
  <2> QED BY <2>1, <2>2, <1>11
<1>12. ASSUME NEW i \in 1 .. Len(t), NEW j \in 1 .. Len(t), t[i] = t[j] PROVE i = j
  <2>1. CASE i \in 1 .. m /\ j \in 1 .. m
    BY <2>1, <1>5, <1>7, <1>12
  <2>2. CASE i \in m + 1 .. m + n /\ j \in m + 1 .. m + n
    <3>1. i - m \in 1 .. n /\ j - m \in 1 .. n /\ b[i - m] = b[j - m]
      BY <2>2, <1>6, <1>12
    <3>2. i - m = j - m
      BY <3>1, <1>8
    <3> QED BY <2>2, <3>2, <1>2, <1>3
  <2>3. CASE i \in 1 .. m /\ j \in m + 1 .. m + n
    <3>1. t[i] \in A /\ t[j] \in B
      BY <2>3, <1>5, <1>6, <1>7, <1>8
    <3> QED BY <3>1, <1>12
  <2>4. CASE i \in m + 1 .. m + n /\ j \in 1 .. m
    <3>1. t[i] \in B /\ t[j] \in A
      BY <2>4, <1>5, <1>6, <1>7, <1>8
    <3> QED BY <3>1, <1>12
  <2> QED BY <2>1, <2>2, <2>3, <2>4, <1>9
<1>13. Nodes(t, A \union B)
  BY <1>1, <1>4, <1>10, <1>11, <1>12 DEF Nodes
<1> QED BY <1>2, <1>3, <1>4, <1>13

\* Queues that only lose entries keep the invariant.
LEMMA ShrinkStep ==
  ASSUME QueueInv, policy' = policy, recent' = recent, lists' \in [Queues -> Seq(Entries)],
         \A q \in Queues : QueueOk(lists'[q], recent, policy) /\ ToSet(lists'[q]) \subseteq ToSet(lists[q])
  PROVE  QueueInv'
<1>1. \A p, q \in Queues : p # q => ToSet(lists'[p]) \intersect ToSet(lists'[q]) = {}
  <2> SUFFICES ASSUME NEW p \in Queues, NEW q \in Queues, p # q
               PROVE  ToSet(lists'[p]) \intersect ToSet(lists'[q]) = {}
    OBVIOUS
  <2>1. ToSet(lists[p]) \intersect ToSet(lists[q]) = {}
    BY DEF QueueInv
  <2> QED BY <2>1
<1>2. ASSUME NEW q \in Queues, (q = "All") = (policy = "Liquid") PROVE lists'[q] = <<>>
  <2>1. lists[q] = <<>>
    BY <1>2 DEF QueueInv
  <2>2. ToSet(lists'[q]) \subseteq {}
    BY <2>1, EmptyList
  <2>3. Nodes(lists'[q], ToSet(lists'[q]))
    BY DEF QueueOk
  <2> QED BY <2>2, <2>3, NoNodes
<1> QED BY <1>1, <1>2 DEF QueueInv

\* The entries LRU, FIFO and FILO may advise are those of their list, the ones
\* LiquidPolicy may advise those of its three queues in memory.
LEMMA EvictableIs ==
  ASSUME NEW L, NEW pol, \A q \in Queues : (q = "All") = (pol = "Liquid") => L[q] = <<>>
  PROVE  UNION {ToSet(L[q]) : q \in Queues \ {"Disk"}} =
           IF pol = "Liquid" THEN ToSet(L["Arrow"]) \union ToSet(L["Liquid"]) \union ToSet(L["Squeezed"])
           ELSE ToSet(L["All"])
<1> DEFINE E == UNION {ToSet(L[q]) : q \in Queues \ {"Disk"}}
<1>1. E = ToSet(L["All"]) \union ToSet(L["Arrow"]) \union ToSet(L["Liquid"]) \union ToSet(L["Squeezed"])
  <2>1. Queues \ {"Disk"} = {"All", "Arrow", "Liquid", "Squeezed"}
    BY DEF Queues
  <2> QED BY <2>1
<1>2. \A q \in Queues : (q = "All") = (pol = "Liquid") => ToSet(L[q]) = {}
  BY EmptyList
<1>3. CASE pol = "Liquid"
  <2>1. ToSet(L["All"]) = {}
    BY <1>2, <1>3 DEF Queues
  <2> QED BY <2>1, <1>1, <1>3
<1>4. CASE pol # "Liquid"
  <2>1. ToSet(L["Arrow"]) = {} /\ ToSet(L["Liquid"]) = {} /\ ToSet(L["Squeezed"]) = {}
    BY <1>2, <1>4 DEF Queues
  <2> QED BY <2>1, <1>1, <1>4
<1> QED BY <1>3, <1>4

\* find_victim of LRU, FIFO and FILO cuts the one queue.
LEMMA PlainVictims ==
  ASSUME QueueInv, policy # "Liquid", NEW cnt \in Nat, FindVictim(cnt)
  PROVE  QueueInv' /\ CutOff(advice', lists'["All"], lists["All"], recent, policy, cnt)
<1>1. PICK pol : pol = policy
  OBVIOUS
<1>2. PICK r : r = recent
  OBVIOUS
<1>3. PICK l : l = lists["All"]
  OBVIOUS
<1>4. PICK f : f = advice'
  OBVIOUS
<1>5. PICK t : t = lists'["All"]
  OBVIOUS
<1>6. QueueOk(l, r, pol) /\ "All" \in Queues /\ lists \in [Queues -> Seq(Entries)]
  BY <1>1, <1>2, <1>3 DEF QueueInv, Queues
<1>7. IF pol = "Lru" THEN f = FirstOf(Reverse(l), cnt) /\ t = Reverse(Rest(Reverse(l), cnt))
      ELSE f = FirstOf(l, cnt) /\ t = Rest(l, cnt)
  BY <1>1, <1>3, <1>4, <1>5, <1>6 DEF FindVictim
<1>8. CutOff(f, t, l, r, pol, cnt)
  BY <1>6, <1>7, FrontCut, BackCut
<1>9. QueueInv'
  <2>1. lists' = [lists EXCEPT !["All"] = t] /\ policy' = policy /\ recent' = recent
    BY <1>5, <1>6 DEF FindVictim
  <2>2. QueueOk(t, r, pol) /\ ToSet(t) \subseteq ToSet(l) /\ t \in Seq(Entries)
    BY <1>8 DEF CutOff, QueueOk, Nodes
  <2>3. lists' \in [Queues -> Seq(Entries)] /\ \A q \in Queues : lists'[q] = IF q = "All" THEN t ELSE lists[q]
    BY <2>1, <2>2, <1>6
  <2>4. \A q \in Queues : QueueOk(lists[q], recent, policy)
    BY DEF QueueInv
  <2>5. \A q \in Queues : QueueOk(lists'[q], recent, policy) /\ ToSet(lists'[q]) \subseteq ToSet(lists[q])
    BY <2>2, <2>3, <2>4, <1>1, <1>2, <1>3
  <2> QED BY <2>1, <2>3, <2>5, ShrinkStep
<1> QED BY <1>1, <1>2, <1>3, <1>4, <1>5, <1>8, <1>9

\* LiquidPolicy takes f1, f2 and f3 from its queues: one is asked for what the
\* ones before it could not give.
Takes(f1, f2, f3, cnt) ==
  /\ advice' = f1 \o f2 \o f3
  /\ CutOff(f1, lists'["Arrow"], lists["Arrow"], recent, "Liquid", cnt)
  /\ Len(f1) \in 0 .. cnt
  /\ CutOff(f2, lists'["Liquid"], lists["Liquid"], recent, "Liquid", cnt - Len(f1))
  /\ Len(f2) \in 0 .. (cnt - Len(f1))
  /\ CutOff(f3, lists'["Squeezed"], lists["Squeezed"], recent, "Liquid", cnt - Len(f1) - Len(f2))

\* find_victim of LiquidPolicy cuts its queues one after the other.
LEMMA LiquidVictims ==
  ASSUME QueueInv, policy = "Liquid", NEW cnt \in Nat, FindVictim(cnt)
  PROVE  QueueInv' /\ \E f1, f2, f3 : Takes(f1, f2, f3, cnt)
<1>1. PICK r : r = recent
  OBVIOUS
<1>2. PICK la : la = lists["Arrow"]
  OBVIOUS
<1>3. PICK lb : lb = lists["Liquid"]
  OBVIOUS
<1>4. PICK lc : lc = lists["Squeezed"]
  OBVIOUS
<1>5. /\ QueueOk(la, r, "Liquid") /\ QueueOk(lb, r, "Liquid") /\ QueueOk(lc, r, "Liquid")
      /\ {"Arrow", "Liquid", "Squeezed"} \subseteq Queues /\ lists \in [Queues -> Seq(Entries)]
  BY <1>1, <1>2, <1>3, <1>4 DEF QueueInv, Queues
<1>6. PICK f1 : f1 = FirstOf(la, cnt)
  OBVIOUS
<1>7. PICK ta : ta = Rest(la, Len(f1))
  OBVIOUS
<1>8. CutOff(f1, ta, la, r, "Liquid", cnt) /\ Len(f1) \in 0 .. cnt
  BY <1>5, <1>6, <1>7, LiquidCut
<1>9. PICK c2 \in Nat : c2 = cnt - Len(f1)
  <2>1. PICK n \in 0 .. cnt : n = Len(f1)
    BY <1>8
  <2>2. cnt - n \in Nat
    OBVIOUS
  <2> QED BY <2>1, <2>2
<1>10. PICK f2 : f2 = FirstOf(lb, c2)
  OBVIOUS
<1>11. PICK tb : tb = Rest(lb, Len(f2))
  OBVIOUS
<1>12. CutOff(f2, tb, lb, r, "Liquid", c2) /\ Len(f2) \in 0 .. c2
  BY <1>5, <1>10, <1>11, LiquidCut
<1>13. PICK c3 \in Nat : c3 = c2 - Len(f2)
  <2>1. PICK n \in 0 .. c2 : n = Len(f2)
    BY <1>12
  <2>2. c2 - n \in Nat
    OBVIOUS
  <2> QED BY <2>1, <2>2
<1>14. PICK f3 : f3 = FirstOf(lc, c3)
  OBVIOUS
<1>15. PICK tc : tc = Rest(lc, Len(f3))
  OBVIOUS
<1>16. CutOff(f3, tc, lc, r, "Liquid", c3) /\ Len(f3) \in 0 .. c3
  BY <1>5, <1>14, <1>15, LiquidCut
<1>17. /\ advice' = f1 \o f2 \o f3 /\ policy' = policy /\ recent' = recent
       /\ lists' = [lists EXCEPT !["Arrow"] = ta, !["Liquid"] = tb, !["Squeezed"] = tc]
  BY <1>2, <1>3, <1>4, <1>6, <1>7, <1>9, <1>10, <1>11, <1>13, <1>14, <1>15, <1>5 DEF FindVictim
<1>18. /\ QueueOk(ta, r, "Liquid") /\ ToSet(ta) \subseteq ToSet(la) /\ ta \in Seq(Entries)
       /\ QueueOk(tb, r, "Liquid") /\ ToSet(tb) \subseteq ToSet(lb) /\ tb \in Seq(Entries)
       /\ QueueOk(tc, r, "Liquid") /\ ToSet(tc) \subseteq ToSet(lc) /\ tc \in Seq(Entries)
  BY <1>8, <1>12, <1>16 DEF CutOff, QueueOk, Nodes
<1>19. /\ lists' \in [Queues -> Seq(Entries)]
       /\ lists'["Arrow"] = ta /\ lists'["Liquid"] = tb /\ lists'["Squeezed"] = tc
       /\ \A q \in Queues \ {"Arrow", "Liquid", "Squeezed"} : lists'[q] = lists[q]
  BY <1>5, <1>17, <1>18
<1>20. QueueInv'
  <2>1. \A q \in Queues : QueueOk(lists[q], recent, policy)
    BY DEF QueueInv
  <2>2. ASSUME NEW q \in Queues
        PROVE  QueueOk(lists'[q], recent, policy) /\ ToSet(lists'[q]) \subseteq ToSet(lists[q])
    <3>1. CASE q \in {"Arrow", "Liquid", "Squeezed"}
      BY <3>1, <1>1, <1>2, <1>3, <1>4, <1>18, <1>19
    <3>2. CASE q \notin {"Arrow", "Liquid", "Squeezed"}
      BY <3>2, <2>1, <1>19
    <3> QED BY <3>1, <3>2
  <2> QED BY <2>2, <1>17, <1>19, ShrinkStep
<1>21. Takes(f1, f2, f3, cnt)
  <2>1. CutOff(f2, lists'["Liquid"], lists["Liquid"], recent, "Liquid", cnt - Len(f1)) /\ Len(f2) \in 0 .. (cnt - Len(f1))
    BY <1>1, <1>3, <1>9, <1>12, <1>19
  <2>2. CutOff(f3, lists'["Squeezed"], lists["Squeezed"], recent, "Liquid", cnt - Len(f1) - Len(f2))
    BY <1>1, <1>4, <1>9, <1>13, <1>16, <1>19
  <2>3. CutOff(f1, lists'["Arrow"], lists["Arrow"], recent, "Liquid", cnt)
    BY <1>1, <1>2, <1>8, <1>19
  <2> QED BY <2>1, <2>2, <2>3, <1>8, <1>17 DEF Takes
<1> QED BY <1>20, <1>21

\* Taking as many distinct entries as the queues w have, up to cnt.
TakesAll(adv, w, E, rest, cnt) ==
  /\ Nodes(adv, ToSet(adv)) /\ Nodes(w, E)
  /\ Len(adv) = IF Len(w) < cnt THEN Len(w) ELSE cnt
  /\ ToSet(adv) \subseteq E /\ rest = E \ ToSet(adv)

\* The victims of LiquidPolicy are distinct and as many as there are, up to
\* cnt.
LEMMA LiquidTakesAll ==
  ASSUME NEW la, NEW lb, NEW lc, Nodes(la, ToSet(la)), Nodes(lb, ToSet(lb)), Nodes(lc, ToSet(lc)),
         ToSet(la) \intersect ToSet(lb) = {}, ToSet(la) \intersect ToSet(lc) = {}, ToSet(lb) \intersect ToSet(lc) = {},
         NEW f1, NEW f2, NEW f3, NEW ta, NEW tb, NEW tc, NEW r, NEW cnt \in Nat,
         CutOff(f1, ta, la, r, "Liquid", cnt), Len(f1) \in 0 .. cnt,
         CutOff(f2, tb, lb, r, "Liquid", cnt - Len(f1)), Len(f2) \in 0 .. (cnt - Len(f1)),
         CutOff(f3, tc, lc, r, "Liquid", cnt - Len(f1) - Len(f2)),
         NEW adv, adv = f1 \o f2 \o f3
  PROVE  /\ ToSet(adv) = ToSet(f1) \union ToSet(f2) \union ToSet(f3)
         /\ \E w : TakesAll(adv, w, ToSet(la) \union ToSet(lb) \union ToSet(lc),
                            ToSet(ta) \union ToSet(tb) \union ToSet(tc), cnt)
<1>1. /\ Nodes(f1, ToSet(f1)) /\ Nodes(f2, ToSet(f2)) /\ Nodes(f3, ToSet(f3))
      /\ ToSet(f1) \subseteq ToSet(la) /\ ToSet(f2) \subseteq ToSet(lb) /\ ToSet(f3) \subseteq ToSet(lc)
      /\ ToSet(ta) = ToSet(la) \ ToSet(f1) /\ ToSet(tb) = ToSet(lb) \ ToSet(f2) /\ ToSet(tc) = ToSet(lc) \ ToSet(f3)
  BY DEF CutOff
<1>2. PICK a : a = f1 \o f2
  OBVIOUS
<1>3. Nodes(a, ToSet(f1) \union ToSet(f2)) /\ Len(a) = Len(f1) + Len(f2)
  <2>1. PICK A : A = ToSet(f1)
    OBVIOUS
  <2>2. PICK B : B = ToSet(f2)
    OBVIOUS
  <2>3. Nodes(f1, A) /\ Nodes(f2, B) /\ A \intersect B = {}
    BY <2>1, <2>2, <1>1
  <2>4. Nodes(a, A \union B)
    BY <2>3, <1>2, NodesJoin
  <2>5. Len(a) = Len(f1) + Len(f2)
    BY <2>3, <1>2, NodesJoin
  <2> QED BY <2>1, <2>2, <2>4, <2>5
<1>4. Nodes(adv, (ToSet(f1) \union ToSet(f2)) \union ToSet(f3)) /\ Len(adv) = Len(a) + Len(f3)
  <2>1. PICK A : A = ToSet(f1) \union ToSet(f2)
    OBVIOUS
  <2>2. PICK B : B = ToSet(f3)
    OBVIOUS
  <2>3. Nodes(a, A) /\ Nodes(f3, B) /\ A \intersect B = {} /\ adv = a \o f3
    BY <2>1, <2>2, <1>1, <1>2, <1>3
  <2>4. Nodes(adv, A \union B)
    BY <2>3, NodesJoin
  <2>5. Len(adv) = Len(a) + Len(f3)
    BY <2>3, NodesJoin
  <2> QED BY <2>1, <2>2, <2>4, <2>5
<1>5. ToSet(adv) = ToSet(f1) \union ToSet(f2) \union ToSet(f3)
  BY <1>4, NodesSet
<1>6. PICK b : b = la \o lb
  OBVIOUS
<1>7. Nodes(b, ToSet(la) \union ToSet(lb)) /\ Len(b) = Len(la) + Len(lb)
  <2>1. PICK A : A = ToSet(la)
    OBVIOUS
  <2>2. PICK B : B = ToSet(lb)
    OBVIOUS
  <2>3. Nodes(la, A) /\ Nodes(lb, B) /\ A \intersect B = {}
    BY <2>1, <2>2
  <2>4. Nodes(b, A \union B)
    BY <2>3, <1>6, NodesJoin
  <2>5. Len(b) = Len(la) + Len(lb)
    BY <2>3, <1>6, NodesJoin
  <2> QED BY <2>1, <2>2, <2>4, <2>5
<1>8. PICK w : w = b \o lc
  OBVIOUS
<1>9. Nodes(w, (ToSet(la) \union ToSet(lb)) \union ToSet(lc)) /\ Len(w) = Len(b) + Len(lc)
  <2>1. PICK A : A = ToSet(la) \union ToSet(lb)
    OBVIOUS
  <2>2. PICK B : B = ToSet(lc)
    OBVIOUS
  <2>3. Nodes(b, A) /\ Nodes(lc, B) /\ A \intersect B = {}
    BY <2>1, <2>2, <1>7
  <2>4. Nodes(w, A \union B)
    BY <2>3, <1>8, NodesJoin
  <2>5. Len(w) = Len(b) + Len(lc)
    BY <2>3, <1>8, NodesJoin
  <2> QED BY <2>1, <2>2, <2>4, <2>5
<1>10. PICK x \in Nat : x = Len(la)
  BY DEF Nodes
<1>11. PICK y \in Nat : y = Len(lb)
  BY DEF Nodes
<1>12. PICK z \in Nat : z = Len(lc)
  BY DEF Nodes
<1>13. PICK i \in 0 .. cnt : i = Len(f1) /\ i = IF x < cnt THEN x ELSE cnt
  BY <1>10 DEF CutOff
<1>14. PICK j \in 0 .. cnt - i : j = Len(f2) /\ j = IF y < cnt - i THEN y ELSE cnt - i
  BY <1>11, <1>13 DEF CutOff
<1>15. PICK k : k = Len(f3) /\ k = IF z < cnt - i - j THEN z ELSE cnt - i - j
  BY <1>12, <1>13, <1>14 DEF CutOff
<1>16. Len(adv) = i + j + k /\ Len(w) = x + y + z
  BY <1>3, <1>4, <1>7, <1>9, <1>10, <1>11, <1>12, <1>13, <1>14, <1>15
<1>17. i + j + k = IF x + y + z < cnt THEN x + y + z ELSE cnt
  BY <1>13, <1>14, <1>15
<1>18. Len(adv) = IF Len(w) < cnt THEN Len(w) ELSE cnt
  BY <1>16, <1>17
<1>19. Nodes(adv, ToSet(adv))
  BY <1>4, <1>5
<1>20. ToSet(adv) \subseteq ToSet(la) \union ToSet(lb) \union ToSet(lc)
  BY <1>1, <1>5
<1>21. ToSet(ta) \union ToSet(tb) \union ToSet(tc) = (ToSet(la) \union ToSet(lb) \union ToSet(lc)) \ ToSet(adv)
  BY <1>1, <1>5
<1> QED BY <1>5, <1>9, <1>18, <1>19, <1>20, <1>21 DEF TakesAll

\* Evictable before and after a step that keeps the invariant.
LEMMA EvictableBoth ==
  ASSUME QueueInv, QueueInv', policy' = policy
  PROVE  /\ policy # "Liquid" => Evictable = ToSet(lists["All"]) /\ Evictable' = ToSet(lists'["All"])
         /\ policy = "Liquid" =>
              /\ Evictable = ToSet(lists["Arrow"]) \union ToSet(lists["Liquid"]) \union ToSet(lists["Squeezed"])
              /\ Evictable' = ToSet(lists'["Arrow"]) \union ToSet(lists'["Liquid"]) \union ToSet(lists'["Squeezed"])
<1>1. PICK L : L = lists
  OBVIOUS
<1>2. PICK M : M = lists'
  OBVIOUS
<1>3. PICK pol : pol = policy
  OBVIOUS
<1>4. /\ \A q \in Queues : (q = "All") = (pol = "Liquid") => L[q] = <<>>
      /\ \A q \in Queues : (q = "All") = (pol = "Liquid") => M[q] = <<>>
  BY <1>1, <1>2, <1>3 DEF QueueInv
<1>5. Evictable = IF pol = "Liquid" THEN ToSet(L["Arrow"]) \union ToSet(L["Liquid"]) \union ToSet(L["Squeezed"])
                  ELSE ToSet(L["All"])
  <2>1. Evictable = UNION {ToSet(L[q]) : q \in Queues \ {"Disk"}}
    BY <1>1 DEF Evictable
  <2> QED BY <2>1, <1>4, EvictableIs
<1>6. Evictable' = IF pol = "Liquid" THEN ToSet(M["Arrow"]) \union ToSet(M["Liquid"]) \union ToSet(M["Squeezed"])
                   ELSE ToSet(M["All"])
  <2>1. Evictable' = UNION {ToSet(M[q]) : q \in Queues \ {"Disk"}}
    BY <1>2 DEF Evictable
  <2> QED BY <2>1, <1>4, EvictableIs
<1> QED BY <1>1, <1>2, <1>3, <1>5, <1>6

\* find_victim takes distinct tracked entries, as many as there are up to cnt.
LEMMA VictimsStep ==
  ASSUME QueueInv, NEW cnt \in Nat, FindVictim(cnt)
  PROVE  QueueInv' /\ \E w : TakesAll(advice', w, Evictable, Evictable', cnt)
<1>1. policy' = policy
  BY DEF FindVictim
<1>2. CASE policy # "Liquid"
  <2>1. QueueInv' /\ CutOff(advice', lists'["All"], lists["All"], recent, policy, cnt)
    BY <1>2, PlainVictims
  <2>2. Evictable = ToSet(lists["All"]) /\ Evictable' = ToSet(lists'["All"])
    BY <1>1, <1>2, <2>1, EvictableBoth
  <2>3. Nodes(lists["All"], ToSet(lists["All"]))
    BY DEF QueueInv, QueueOk, Queues
  <2>4. TakesAll(advice', lists["All"], Evictable, Evictable', cnt)
    BY <2>1, <2>2, <2>3 DEF CutOff, TakesAll
  <2> QED BY <2>1, <2>4
<1>3. CASE policy = "Liquid"
  <2>1. QueueInv' /\ \E f1, f2, f3 : Takes(f1, f2, f3, cnt)
    BY <1>3, LiquidVictims
  <2>2. PICK f1, f2, f3 : Takes(f1, f2, f3, cnt)
    BY <2>1
  <2>3. PICK la : la = lists["Arrow"]
    OBVIOUS
  <2>4. PICK lb : lb = lists["Liquid"]
    OBVIOUS
  <2>5. PICK lc : lc = lists["Squeezed"]
    OBVIOUS
  <2>6. PICK ta : ta = lists'["Arrow"]
    OBVIOUS
  <2>7. PICK tb : tb = lists'["Liquid"]
    OBVIOUS
  <2>8. PICK tc : tc = lists'["Squeezed"]
    OBVIOUS
  <2>9. PICK r : r = recent
    OBVIOUS
  <2>10. PICK adv : adv = advice'
    OBVIOUS
  <2>11. /\ Nodes(la, ToSet(la)) /\ Nodes(lb, ToSet(lb)) /\ Nodes(lc, ToSet(lc))
         /\ ToSet(la) \intersect ToSet(lb) = {} /\ ToSet(la) \intersect ToSet(lc) = {} /\ ToSet(lb) \intersect ToSet(lc) = {}
    BY <2>3, <2>4, <2>5 DEF QueueInv, QueueOk, Queues
  <2>12. /\ CutOff(f1, ta, la, r, "Liquid", cnt) /\ Len(f1) \in 0 .. cnt
         /\ CutOff(f2, tb, lb, r, "Liquid", cnt - Len(f1)) /\ Len(f2) \in 0 .. (cnt - Len(f1))
         /\ CutOff(f3, tc, lc, r, "Liquid", cnt - Len(f1) - Len(f2))
         /\ adv = f1 \o f2 \o f3
    BY <2>2, <2>3, <2>4, <2>5, <2>6, <2>7, <2>8, <2>9, <2>10 DEF Takes
  <2>13. \E w : TakesAll(adv, w, ToSet(la) \union ToSet(lb) \union ToSet(lc),
                         ToSet(ta) \union ToSet(tb) \union ToSet(tc), cnt)
    BY <2>11, <2>12, LiquidTakesAll
  <2>14. /\ Evictable = ToSet(la) \union ToSet(lb) \union ToSet(lc)
         /\ Evictable' = ToSet(ta) \union ToSet(tb) \union ToSet(tc)
    BY <1>1, <1>3, <2>1, <2>3, <2>4, <2>5, <2>6, <2>7, <2>8, EvictableBoth
  <2> QED BY <2>1, <2>10, <2>13, <2>14
<1> QED BY <1>2, <1>3

\* notify_insert keeps QueueInv and is allowed by the contract.
LEMMA InsertStep ==
  ASSUME QueueInv, NEW e \in Entries, NEW type \in Memory \union Disk, NotifyInsert(e, type)
  PROVE  QueueInv' /\ QueueContract!CInsert(e, type)
<1>1. policy' = policy
  BY DEF NotifyInsert
<1>2. PICK q0 : q0 = QueueOf(type)
  OBVIOUS
<1>3. /\ policy # "Liquid" => q0 = "All"
      /\ policy = "Liquid" => IF type \in Memory THEN q0 \in {"Arrow", "Liquid", "Squeezed"} ELSE q0 = "Disk"
  BY <1>2 DEF QueueOf, Memory, Disk
<1>4. q0 \in Queues /\ (q0 = "All") # (policy = "Liquid")
  BY <1>3 DEF Queues
<1>5. lists' = Upsert(e, q0) /\ Touch(e)
  BY <1>2 DEF NotifyInsert
<1>6. QueueInv'
  BY <1>1, <1>4, <1>5, UpsertStep
<1>7. \A p \in Queues : ToSet(lists'[p]) = IF p = q0 THEN ToSet(lists[p]) \union {e} ELSE ToSet(lists[p]) \ {e}
  BY <1>1, <1>4, <1>5, UpsertStep
<1>8. Evictable' = IF type \in Memory \/ policy # "Liquid" THEN Evictable \union {e} ELSE Evictable \ {e}
  <2>1. CASE policy # "Liquid"
    <3>1. Evictable = ToSet(lists["All"]) /\ Evictable' = ToSet(lists'["All"])
      BY <1>1, <1>6, <2>1, EvictableBoth
    <3>2. ToSet(lists'["All"]) = ToSet(lists["All"]) \union {e}
      BY <1>3, <1>4, <1>7, <2>1
    <3> QED BY <3>1, <3>2, <2>1
  <2>2. CASE policy = "Liquid"
    <3>1. /\ Evictable = ToSet(lists["Arrow"]) \union ToSet(lists["Liquid"]) \union ToSet(lists["Squeezed"])
          /\ Evictable' = ToSet(lists'["Arrow"]) \union ToSet(lists'["Liquid"]) \union ToSet(lists'["Squeezed"])
      BY <1>1, <1>6, <2>2, EvictableBoth
    <3>2. \A p \in {"Arrow", "Liquid", "Squeezed"} :
            ToSet(lists'[p]) = IF p = q0 THEN ToSet(lists[p]) \union {e} ELSE ToSet(lists[p]) \ {e}
      BY <1>7 DEF Queues
    <3>3. CASE type \in Memory
      <4>1. q0 \in {"Arrow", "Liquid", "Squeezed"}
        BY <1>3, <2>2, <3>3
      <4> QED BY <4>1, <3>1, <3>2, <3>3
    <3>4. CASE type \notin Memory
      <4>1. q0 = "Disk"
        BY <1>3, <2>2, <3>4
      <4> QED BY <4>1, <3>1, <3>2, <3>4, <2>2
    <3> QED BY <3>3, <3>4
  <2> QED BY <2>1, <2>2
<1>9. /\ onDisk' = IF type \in Disk THEN onDisk \union {e} ELSE onDisk \ {e}
      /\ advice' = <<>> /\ (policy # "Liquid")' = (policy # "Liquid")
  BY <1>1 DEF NotifyInsert
<1> QED BY <1>6, <1>8, <1>9 DEF QueueContract!CInsert, QueueContract!Memory, QueueContract!Disk, Memory, Disk

\* notify_access keeps QueueInv and is allowed by the contract.
LEMMA AccessStep ==
  ASSUME QueueInv, NEW e \in Entries, NotifyAccess(e)
  PROVE  QueueInv' /\ QueueContract!CAccess
<1>1. policy' = policy /\ advice' = <<>> /\ onDisk' = onDisk
  BY DEF NotifyAccess
<1>2. CASE policy = "Lru" /\ e \in ToSet(lists["All"])
  <2>1. lists' = Upsert(e, "All") /\ Touch(e) /\ "All" \in Queues /\ ("All" = "All") # (policy = "Liquid")
    BY <1>2 DEF NotifyAccess, Queues
  <2>2. QueueInv'
    BY <1>1, <2>1, UpsertStep
  <2>3. ToSet(lists'["All"]) = ToSet(lists["All"]) \union {e}
    BY <1>1, <2>1, UpsertStep
  <2>4. Evictable = ToSet(lists["All"]) /\ Evictable' = ToSet(lists'["All"])
    BY <1>1, <1>2, <2>2, EvictableBoth
  <2>5. Evictable' = Evictable
    BY <1>2, <2>3, <2>4
  <2> QED BY <1>1, <2>2, <2>5 DEF QueueContract!CAccess
<1>3. CASE ~(policy = "Lru" /\ e \in ToSet(lists["All"]))
  <2>1. lists' = lists /\ recent' = recent
    BY <1>3 DEF NotifyAccess
  <2>2. QueueInv'
    BY <1>1, <2>1 DEF QueueInv
  <2>3. Evictable' = Evictable
    BY <2>1 DEF Evictable
  <2> QED BY <1>1, <2>2, <2>3 DEF QueueContract!CAccess
<1> QED BY <1>2, <1>3

\* find_victim is allowed by the contract.
LEMMA ContractVictims ==
  ASSUME QueueInv, NEW cnt \in Nat, FindVictim(cnt) PROVE QueueContract!CFindVictim(cnt)
<1>1. PICK w : TakesAll(advice', w, Evictable, Evictable', cnt)
  BY VictimsStep
<1>2. PICK adv : adv = advice'
  OBVIOUS
<1>3. PICK V : V = ToSet(adv)
  OBVIOUS
<1>4. PICK E : E = Evictable
  OBVIOUS
<1>5. /\ Nodes(adv, V) /\ Nodes(w, E) /\ V \subseteq E /\ Evictable' = E \ V
      /\ Len(adv) = IF Len(w) < cnt THEN Len(w) ELSE cnt
  BY <1>1, <1>2, <1>3, <1>4 DEF TakesAll
<1>6. Cardinality(V) = Len(adv) /\ Cardinality(E) = Len(w)
  BY <1>5, NodesCounted
<1>7. {adv[i] : i \in 1 .. Len(adv)} = V
  BY <1>5 DEF Nodes
<1>8. (policy # "Liquid")' = (policy # "Liquid") /\ onDisk' = onDisk
  BY DEF FindVictim
<1>9. V \in SUBSET Evictable
  BY <1>4, <1>5
<1>10. Cardinality(V) = IF Cardinality(Evictable) < cnt THEN Cardinality(Evictable) ELSE cnt
  BY <1>4, <1>5, <1>6
<1>11. Len(advice') = Cardinality(V) /\ {advice'[i] : i \in 1 .. Len(advice')} = V
  BY <1>2, <1>6, <1>7
<1>12. Evictable' = Evictable \ V
  BY <1>4, <1>5
<1>13. \A S : QueueContract!Cardinality(S) = Cardinality(S)
  BY DEF QueueContract!Cardinality, QueueContract!IsFiniteSet, Cardinality, IsFiniteSet
<1> QED BY <1>8, <1>9, <1>10, <1>11, <1>12, <1>13 DEF QueueContract!CFindVictim

\* New queues are empty, as the contract begins.
LEMMA FirstQueues ==
  ASSUME policy \in QueuePolicy, QueueInit PROVE QueueInv /\ QueueContract!CInit
<1>1. \A q \in Queues : lists[q] = <<>>
  BY DEF QueueInit
<1>2. recent = <<>> /\ advice = <<>> /\ onDisk = {}
  BY DEF QueueInit
<1>3. Evictable = {}
  BY <1>1, EmptyList DEF Evictable
<1>4. lists \in [Queues -> Seq(Entries)]
  BY DEF QueueInit
<1>5. Nodes(recent, ToSet(recent))
  BY <1>2, EmptyList
<1>6. \A q \in Queues : QueueOk(lists[q], recent, policy) /\ ToSet(lists[q]) = {}
  BY <1>1, EmptyList
<1>7. QueueInv
  BY <1>1, <1>4, <1>5, <1>6 DEF QueueInv
<1> QED BY <1>2, <1>3, <1>7 DEF QueueContract!CInit

\* Every step keeps QueueInv and is a step of the contract.
LEMMA QueueStep ==
  ASSUME QueueInv, [QueueNext]_queueVars PROVE QueueInv' /\ [QueueContract!CNext]_QueueContract!cvars
<1>1. ASSUME NEW e \in Entries, NEW type \in Memory \union Disk, NotifyInsert(e, type)
      PROVE  QueueInv' /\ [QueueContract!CNext]_QueueContract!cvars
  <2>1. QueueInv' /\ QueueContract!CInsert(e, type)
    BY <1>1, InsertStep
  <2>2. QueueContract!CNext
    BY <2>1 DEF QueueContract!CNext, QueueContract!Memory, QueueContract!Disk, Memory, Disk
  <2> QED BY <2>1, <2>2
<1>2. ASSUME NEW e \in Entries, NotifyAccess(e) PROVE QueueInv' /\ [QueueContract!CNext]_QueueContract!cvars
  <2>1. QueueInv' /\ QueueContract!CAccess
    BY <1>2, AccessStep
  <2> QED BY <2>1 DEF QueueContract!CNext
<1>3. ASSUME NEW cnt \in 0 .. MaxCount, FindVictim(cnt) PROVE QueueInv' /\ [QueueContract!CNext]_QueueContract!cvars
  <2>1. cnt \in Nat
    BY PolicyAssumption
  <2>2. QueueInv' /\ QueueContract!CFindVictim(cnt)
    BY <1>3, <2>1, VictimsStep, ContractVictims
  <2> QED BY <2>2 DEF QueueContract!CNext
<1>4. ASSUME UNCHANGED queueVars PROVE QueueInv' /\ [QueueContract!CNext]_QueueContract!cvars
  <2>1. policy' = policy /\ lists' = lists /\ advice' = advice /\ recent' = recent /\ onDisk' = onDisk
    BY <1>4 DEF queueVars
  <2>2. QueueInv'
    BY <2>1 DEF QueueInv
  <2>3. Evictable' = Evictable
    BY <2>1 DEF Evictable
  <2>4. UNCHANGED QueueContract!cvars
    BY <2>1, <2>3 DEF QueueContract!cvars
  <2> QED BY <2>2, <2>4
<1> QED BY <1>1, <1>2, <1>3, <1>4 DEF QueueNext

\* QueueInv holds after any sequence of calls.
LEMMA QueueInvariant == QueueSpec => []QueueInv
<1>1. policy \in QueuePolicy /\ QueueInit => QueueInv
  BY FirstQueues
<1>2. QueueInv /\ [QueueNext]_queueVars => QueueInv'
  BY QueueStep
<1> QED BY <1>1, <1>2, PTL DEF QueueSpec

\* LruPolicy, FifoPolicy, FiloPolicy and LiquidPolicy keep the contract the
\* storage engine relies on: an entry reported in memory can be advised, one
\* reported on disk leaves LiquidPolicy, and find_victim(cnt) takes out as many
\* distinct entries as there are, up to cnt.
THEOREM QueuesMeetContract == QueueSpec => QueuesImplementContract
<1>1. policy \in QueuePolicy /\ QueueInit => QueueContract!CInit
  BY FirstQueues
<1>2. QueueInv /\ [QueueNext]_queueVars => [QueueContract!CNext]_QueueContract!cvars
  BY QueueStep
<1> QED BY <1>1, <1>2, QueueInvariant, PTL DEF QueueSpec, QueuesImplementContract, QueueContract!CSpec

\* The order in recent is the order of EvictionOrder.
LEMMA BeforeIs ==
  ASSUME QueueInv PROVE \A x, y : BeforeIn(recent, x, y) => Before(x, y)
<1>1. DOMAIN recent = 1 .. Len(recent)
  BY DEF QueueInv, Nodes
<1> QED BY <1>1 DEF BeforeIn, Before

\* An empty queue gives nothing, and one that gives less than it is asked for
\* is empty afterwards.
LEMMA Exhausted ==
  ASSUME NEW f, NEW t, NEW l, NEW r, NEW c \in Nat, Nodes(l, ToSet(l)), CutOff(f, t, l, r, "Liquid", c),
         Len(f) # c
  PROVE  ToSet(t) = {}
<1>1. PICK len \in Nat : len = Len(l)
  BY DEF Nodes
<1>2. Len(f) = len /\ Nodes(f, ToSet(f)) /\ ToSet(f) \subseteq ToSet(l) /\ ToSet(t) = ToSet(l) \ ToSet(f)
  BY <1>1 DEF CutOff
<1>3. PICK F : F = ToSet(f)
  OBVIOUS
<1>4. PICK W : W = ToSet(l)
  OBVIOUS
<1>5. Cardinality(F) = len /\ Cardinality(W) = len /\ F \subseteq W /\ W \subseteq Entries
  <2>1. Nodes(f, F) /\ Nodes(l, W)
    BY <1>2, <1>3, <1>4
  <2>2. Cardinality(F) = Len(f)
    BY <2>1, NodesCounted
  <2>3. Cardinality(W) = Len(l)
    BY <2>1, NodesCounted
  <2> QED BY <1>1, <1>2, <1>3, <1>4, <2>1, <2>2, <2>3 DEF Nodes
<1>6. F = W
  <2>1. IsFiniteSet(W)
    BY <1>5, PolicyAssumption, FS_Subset
  <2> QED BY <2>1, <1>5, FS_Subset
<1> QED BY <1>2, <1>3, <1>4, <1>6

\* What EvictionOrder says of a victim v and an entry s that stays.
GoesFirst(v, s) ==
  CASE policy \in {"Lru", "Fifo"} -> Before(v, s)
    [] policy = "Filo"            -> Before(s, v)
    [] OTHER ->
         \/ \E q \in {"Arrow", "Liquid", "Squeezed"} :
              v \in ToSet(lists[q]) /\ s \in ToSet(lists[q]) /\ Before(v, s)
         \/ v \in ToSet(lists["Arrow"]) /\ s \notin ToSet(lists["Arrow"])
         \/ v \in ToSet(lists["Liquid"]) /\ s \in ToSet(lists["Squeezed"])

\* The elements of two sequences joined are those of both.
LEMMA JoinedSet ==
  ASSUME NEW u \in Seq(Entries), NEW w \in Seq(Entries), NEW x, x = u \o w
  PROVE  x \in Seq(Entries) /\ ToSet(x) = ToSet(u) \union ToSet(w)
<1>1. PICK m \in Nat : m = Len(u)
  OBVIOUS
<1>2. PICK n \in Nat : n = Len(w)
  OBVIOUS
<1>3. x \in Seq(Entries) /\ Len(x) = m + n /\ \A i \in 1 .. m : x[i] = u[i]
  BY <1>1, <1>2
<1>4. \A i \in 1 .. n : x[m + i] = w[i] /\ m + i \in 1 .. m + n
  BY <1>1, <1>2
<1>5. \A i \in 1 .. m + n : i \in 1 .. m \/ (i - m \in 1 .. n /\ x[i] = w[i - m])
  BY <1>1, <1>2
<1>6. \A z : z \in ToSet(u) <=> \E i \in 1 .. m : u[i] = z
  BY <1>1, Members
<1>7. \A z : z \in ToSet(w) <=> \E i \in 1 .. n : w[i] = z
  BY <1>2, Members
<1>8. \A z : z \in ToSet(x) <=> \E i \in 1 .. m + n : x[i] = z
  <2>1. \A z : z \in ToSet(x) <=> \E i \in 1 .. Len(x) : x[i] = z
    BY <1>3, Members
  <2>2. 1 .. Len(x) = 1 .. m + n
    BY <1>3
  <2> QED BY <2>1, <2>2
<1>9. ASSUME NEW z \in ToSet(x) PROVE z \in ToSet(u) \union ToSet(w)
  <2>1. PICK i \in 1 .. m + n : x[i] = z
    BY <1>8, <1>9
  <2>2. CASE i \in 1 .. m
    BY <2>1, <2>2, <1>3, <1>6
  <2>3. CASE i - m \in 1 .. n /\ x[i] = w[i - m]
    BY <2>1, <2>3, <1>7
  <2> QED BY <2>2, <2>3, <1>5
<1>10. ASSUME NEW z \in ToSet(u) PROVE z \in ToSet(x)
  <2>1. PICK i \in 1 .. m : u[i] = z
    BY <1>6, <1>10
  <2>2. i \in 1 .. m + n /\ x[i] = z
    BY <2>1, <1>3
  <2> QED BY <2>2, <1>8
<1>11. \A z \in ToSet(w) : z \in ToSet(x)
  BY <1>4, <1>7, <1>8
<1> QED BY <1>3, <1>9, <1>10, <1>11

\* A victim goes before every entry that stays.
LEMMA VictimsInOrder ==
  ASSUME QueueInv, NEW cnt \in Nat, FindVictim(cnt), NEW v \in ToSet(advice'), NEW s \in Evictable'
  PROVE  GoesFirst(v, s)
<1>1. policy' = policy /\ policy \in QueuePolicy
  BY DEF FindVictim, QueueInv
<1>2. CASE policy # "Liquid"
  <2>1. QueueInv' /\ CutOff(advice', lists'["All"], lists["All"], recent, policy, cnt)
    BY <1>2, PlainVictims
  <2>2. s \in ToSet(lists'["All"])
    BY <1>1, <1>2, <2>1, EvictableBoth
  <2>3. IF policy = "Filo" THEN BeforeIn(recent, s, v) ELSE BeforeIn(recent, v, s)
    BY <2>1, <2>2 DEF CutOff
  <2>4. IF policy = "Filo" THEN Before(s, v) ELSE Before(v, s)
    BY <2>3, BeforeIs
  <2>5. policy \in {"Lru", "Fifo", "Filo"}
    BY <1>1, <1>2 DEF QueuePolicy
  <2>6. CASE policy = "Filo"
    BY <2>4, <2>6 DEF GoesFirst
  <2>7. CASE policy \in {"Lru", "Fifo"}
    BY <2>4, <2>7 DEF GoesFirst
  <2> QED BY <2>5, <2>6, <2>7
<1>3. CASE policy = "Liquid"
  <2>1. QueueInv' /\ \E f1, f2, f3 : Takes(f1, f2, f3, cnt)
    BY <1>3, LiquidVictims
  <2>2. PICK f1, f2, f3 : Takes(f1, f2, f3, cnt)
    BY <2>1
  <2>3. PICK la : la = lists["Arrow"]
    OBVIOUS
  <2>4. PICK lb : lb = lists["Liquid"]
    OBVIOUS
  <2>5. PICK lc : lc = lists["Squeezed"]
    OBVIOUS
  <2>6. PICK ta : ta = lists'["Arrow"]
    OBVIOUS
  <2>7. PICK tb : tb = lists'["Liquid"]
    OBVIOUS
  <2>8. PICK tc : tc = lists'["Squeezed"]
    OBVIOUS
  <2>9. PICK r : r = recent
    OBVIOUS
  <2>10. PICK adv : adv = advice'
    OBVIOUS
  <2>11. Nodes(la, ToSet(la)) /\ Nodes(lb, ToSet(lb)) /\ Nodes(lc, ToSet(lc))
    BY <2>3, <2>4, <2>5 DEF QueueInv, QueueOk, Queues
  <2>12. ToSet(la) \intersect ToSet(lb) = {} /\ ToSet(la) \intersect ToSet(lc) = {} /\ ToSet(lb) \intersect ToSet(lc) = {}
    BY <2>3, <2>4, <2>5 DEF QueueInv, Queues
  <2>13. /\ CutOff(f1, ta, la, r, "Liquid", cnt) /\ Len(f1) \in 0 .. cnt
         /\ CutOff(f2, tb, lb, r, "Liquid", cnt - Len(f1)) /\ Len(f2) \in 0 .. (cnt - Len(f1))
         /\ CutOff(f3, tc, lc, r, "Liquid", cnt - Len(f1) - Len(f2))
         /\ adv = f1 \o f2 \o f3
    BY <2>2, <2>3, <2>4, <2>5, <2>6, <2>7, <2>8, <2>9, <2>10 DEF Takes
  <2>14. ToSet(adv) = ToSet(f1) \union ToSet(f2) \union ToSet(f3)
    <3>1. f1 \in Seq(Entries) /\ f2 \in Seq(Entries) /\ f3 \in Seq(Entries)
      BY <2>13 DEF CutOff, Nodes
    <3>2. adv = f1 \o f2 \o f3
      BY <2>13
    <3>3. PICK d : d = f1 \o f2
      OBVIOUS
    <3>4. d \in Seq(Entries) /\ ToSet(d) = ToSet(f1) \union ToSet(f2)
      BY <3>1, <3>3, JoinedSet
    <3>5. adv = d \o f3
      BY <3>2, <3>3
    <3>6. ToSet(adv) = ToSet(d) \union ToSet(f3)
      BY <3>1, <3>4, <3>5, JoinedSet
    <3> QED BY <3>4, <3>6
  <2>15. s \in ToSet(ta) \union ToSet(tb) \union ToSet(tc)
    BY <1>1, <1>3, <2>1, <2>6, <2>7, <2>8, EvictableBoth
  <2>16. /\ ToSet(f1) \subseteq ToSet(la) /\ ToSet(f2) \subseteq ToSet(lb) /\ ToSet(f3) \subseteq ToSet(lc)
         /\ ToSet(ta) \subseteq ToSet(la) /\ ToSet(tb) \subseteq ToSet(lb) /\ ToSet(tc) \subseteq ToSet(lc)
    BY <2>13 DEF CutOff
  <2>17. /\ \A a \in ToSet(f1), b \in ToSet(ta) : BeforeIn(r, a, b)
         /\ \A a \in ToSet(f2), b \in ToSet(tb) : BeforeIn(r, a, b)
         /\ \A a \in ToSet(f3), b \in ToSet(tc) : BeforeIn(r, a, b)
    BY <2>13 DEF CutOff
  <2>18. \A a, b : BeforeIn(r, a, b) => Before(a, b)
    BY <2>9, BeforeIs
  <2>19. PICK i \in 0 .. cnt : i = Len(f1)
    BY <2>13
  <2>20. PICK j \in 0 .. cnt - i : j = Len(f2)
    BY <2>13, <2>19
  <2>21. ToSet(f2) # {} \/ ToSet(f3) # {} => ToSet(ta) = {}
    <3> SUFFICES ASSUME ToSet(ta) # {} PROVE ToSet(f2) = {} /\ ToSet(f3) = {}
      OBVIOUS
    <3>1. i = cnt
      BY <2>11, <2>13, <2>19, Exhausted
    <3>2. j = 0
      BY <3>1
    <3>3. PICK n \in Nat : n = Len(lb)
      BY <2>11 DEF Nodes
    <3>4. Len(f2) = 0
      BY <2>20, <3>2
    <3>5. Len(f3) = 0
      <4>1. Len(f3) = IF Len(lc) < cnt - Len(f1) - Len(f2) THEN Len(lc) ELSE cnt - Len(f1) - Len(f2)
        BY <2>13 DEF CutOff
      <4>2. cnt - Len(f1) - Len(f2) = 0 /\ Len(lc) \in Nat
        BY <2>11, <2>19, <2>20, <3>1, <3>2 DEF Nodes
      <4> QED BY <4>1, <4>2
    <3>6. Nodes(f2, ToSet(f2)) /\ Nodes(f3, ToSet(f3))
      BY <2>13 DEF CutOff
    <3> QED BY <3>4, <3>5, <3>6 DEF Nodes
  <2>22. ToSet(f3) # {} => ToSet(tb) = {}
    <3> SUFFICES ASSUME ToSet(tb) # {} PROVE ToSet(f3) = {}
      OBVIOUS
    <3>1. PICK c2 \in Nat : c2 = cnt - Len(f1)
      <4>1. cnt - i \in Nat
        OBVIOUS
      <4> QED BY <4>1, <2>19
    <3>2. CutOff(f2, tb, lb, r, "Liquid", c2)
      BY <2>13, <3>1
    <3>3. Len(f2) = c2
      BY <2>11, <3>2, Exhausted
    <3>4. Len(f3) = 0
      <4>1. Len(f3) = IF Len(lc) < cnt - Len(f1) - Len(f2) THEN Len(lc) ELSE cnt - Len(f1) - Len(f2)
        BY <2>13 DEF CutOff
      <4>2. cnt - Len(f1) - Len(f2) = 0 /\ Len(lc) \in Nat
        BY <2>11, <3>1, <3>3 DEF Nodes
      <4> QED BY <4>1, <4>2
    <3>5. Nodes(f3, ToSet(f3))
      BY <2>13 DEF CutOff
    <3> QED BY <3>4, <3>5 DEF Nodes
  <2>23. \/ \E q \in {"Arrow", "Liquid", "Squeezed"} :
              v \in ToSet(lists[q]) /\ s \in ToSet(lists[q]) /\ Before(v, s)
         \/ v \in ToSet(lists["Arrow"]) /\ s \notin ToSet(lists["Arrow"])
         \/ v \in ToSet(lists["Liquid"]) /\ s \in ToSet(lists["Squeezed"])
    <3>1. CASE v \in ToSet(f1)
      <4>1. CASE s \in ToSet(ta)
        BY <3>1, <4>1, <2>3, <2>16, <2>17, <2>18
      <4>2. CASE s \in ToSet(tb) \union ToSet(tc)
        BY <3>1, <4>2, <2>3, <2>12, <2>16
      <4> QED BY <4>1, <4>2, <2>15
    <3>2. CASE v \in ToSet(f2)
      <4>1. CASE s \in ToSet(tb)
        BY <3>2, <4>1, <2>4, <2>16, <2>17, <2>18
      <4>2. CASE s \in ToSet(tc)
        BY <3>2, <4>2, <2>4, <2>5, <2>16
      <4> QED BY <4>1, <4>2, <3>2, <2>15, <2>21
    <3>3. CASE v \in ToSet(f3)
      <4>1. s \in ToSet(tc)
        BY <3>3, <2>15, <2>21, <2>22
      <4> QED BY <3>3, <4>1, <2>5, <2>16, <2>17, <2>18
    <3> QED BY <3>1, <3>2, <3>3, <2>10, <2>14
  <2> QED BY <1>3, <2>23 DEF GoesFirst
<1> QED BY <1>2, <1>3

\* Every victim of find_victim goes before every entry that could have been
\* advised and stays, in the order its policy is named for.
THEOREM QueuesEvictInOrder == QueueSpec => EvictionOrder
<1> DEFINE InOrder == \A v \in ToSet(advice'), s \in Evictable' :
                        advice' # advice /\ advice' # <<>> => GoesFirst(v, s)
<1>1. QueueInv /\ [QueueNext]_queueVars => [InOrder]_queueVars
  <2> SUFFICES ASSUME QueueInv, QueueNext PROVE InOrder
    OBVIOUS
  <2>1. CASE \E cnt \in 0 .. MaxCount : FindVictim(cnt)
    <3>1. PICK cnt \in 0 .. MaxCount : FindVictim(cnt)
      BY <2>1
    <3>2. cnt \in Nat
      BY PolicyAssumption
    <3> QED BY <3>1, <3>2, VictimsInOrder
  <2>2. CASE advice' = <<>>
    BY <2>2
  <2> QED BY <2>1, <2>2 DEF QueueNext, NotifyInsert, NotifyAccess
<1>2. [][InOrder]_queueVars => EvictionOrder
  BY PTL DEF EvictionOrder, GoesFirst
<1> HIDE DEF InOrder
<1> QED BY <1>1, <1>2, QueueInvariant, PTL DEF QueueSpec

\* Queues in order are of the right type.
LEMMA QueueTypes == ASSUME QueueInv PROVE QueuesTypeOK
<1>1. \A q \in Queues : lists[q] \in Seq(Entries) /\ Nodes(lists[q], ToSet(lists[q]))
  BY DEF QueueInv, QueueOk
<1>2. ASSUME NEW q \in Queues PROVE \E n \in 0 .. Cardinality(Entries) : lists[q] \in [1 .. n -> Entries]
  <2>1. PICK n \in Nat : n = Len(lists[q])
    BY <1>1
  <2>2. lists[q] \in [1 .. n -> Entries]
    BY <1>1, <2>1
  <2>3. PICK own : own = ToSet(lists[q])
    OBVIOUS
  <2>4. PICK s : s = lists[q]
    OBVIOUS
  <2>5. Nodes(s, own)
    BY <1>1, <2>3, <2>4
  <2>6. Cardinality(Entries) \in Nat /\ Len(s) <= Cardinality(Entries)
    BY <2>5, NodesCounted
  <2>7. n \in 0 .. Cardinality(Entries)
    BY <2>1, <2>4, <2>6
  <2> QED BY <2>2, <2>7
<1>3. lists \in [Queues -> UNION {[1 .. n -> Entries] : n \in 0 .. Cardinality(Entries)}]
  BY <1>2 DEF QueueInv
<1>4. ASSUME NEW p \in Queues, NEW q \in Queues, NEW i \in DOMAIN lists[p], NEW j \in DOMAIN lists[q],
             lists[p][i] = lists[q][j]
      PROVE  p = q /\ i = j
  <2>1. i \in 1 .. Len(lists[p]) /\ j \in 1 .. Len(lists[q])
    BY <1>1
  <2>2. lists[p][i] \in ToSet(lists[p]) /\ lists[q][j] \in ToSet(lists[q])
    BY <1>1, <2>1 DEF Nodes
  <2>3. p = q
    BY <1>4, <2>2 DEF QueueInv
  <2> QED BY <1>1, <1>4, <2>1, <2>3 DEF Nodes
<1> QED BY <1>3, <1>4 DEF QueuesTypeOK

\* An entry is in one queue only, once, whatever calls of notify_insert,
\* notify_access and find_victim came before.
THEOREM QueuesTyped == QueueSpec => []QueuesTypeOK
  BY QueueTypes, QueueInvariant, PTL

-----------------------------------------------------------------------------
(* Clock and Sieve: the hand goes round the list                           *)

\* The instances use the operators on sequences and sets that the list uses.
LEMMA SameOperators ==
  /\ \A s : Hand!ToSet(s) = ToSet(s) /\ S3!ToSet(s) = ToSet(s)
  /\ \A s, e : Hand!RemoveFirst(s, e) = RemoveFirst(s, e)
  /\ \A S : Hand!Cardinality(S) = Cardinality(S) /\ S3!Cardinality(S) = Cardinality(S)
  /\ \A S : Contract!Cardinality(S) = Cardinality(S)
<1>1. \A s : Hand!ToSet(s) = ToSet(s) /\ S3!ToSet(s) = ToSet(s)
  BY DEF ToSet, Hand!ToSet, S3!ToSet
<1>2. \A s, e : Hand!RemoveFirst(s, e) = RemoveFirst(s, e)
  BY DEF RemoveFirst, Hand!RemoveFirst, SelectInSeq, Hand!SelectInSeq, RemoveAt, Hand!RemoveAt, Min, Hand!Min
<1>3. \A S : Hand!Cardinality(S) = Cardinality(S) /\ S3!Cardinality(S) = Cardinality(S)
  BY DEF Hand!Cardinality, Hand!IsFiniteSet, S3!Cardinality, S3!IsFiniteSet, Cardinality, IsFiniteSet
<1>4. \A S : Contract!Cardinality(S) = Cardinality(S)
  BY DEF Contract!Cardinality, Contract!IsFiniteSet, Cardinality, IsFiniteSet
<1> QED BY <1>1, <1>2, <1>3, <1>4

\* Where the hand goes from position i of a list of distinct nodes.
LEMMA AfterIs ==
  ASSUME NEW l, NEW S, Nodes(l, S), NEW i \in 1 .. Len(l)
  PROVE  Hand!After(l, l[i]) = IF policy = "Clock" THEN IF i < Len(l) THEN l[i + 1] ELSE l[1]
                               ELSE IF i > 1 THEN l[i - 1] ELSE l[Len(l)]
<1>1. l \in Seq(Entries) /\ \A j \in 1 .. Len(l) : l[j] = l[i] => j = i
  BY DEF Nodes
<1>2. Hand!Position(l, l[i]) = i
  BY <1>1 DEF Hand!Position
<1> QED BY <1>2 DEF Hand!After

\* From a node the hand goes to a node, to another one if there is one.
LEMMA AfterInList ==
  ASSUME NEW l, NEW S, Nodes(l, S), NEW e \in S
  PROVE  Hand!After(l, e) \in S /\ (Len(l) # 1 => Hand!After(l, e) # e)
<1>1. PICK i \in 1 .. Len(l) : l[i] = e
  BY DEF Nodes
<1>2. PICK n \in Nat : n = Len(l)
  BY DEF Nodes
<1>3. PICK j \in 1 .. n : Hand!After(l, e) = l[j] /\ (n # 1 => j # i)
  <2>1. /\ i + 1 \in 1 .. n \/ i = n
        /\ i - 1 \in 1 .. n \/ i = 1
        /\ 1 \in 1 .. n /\ n \in 1 .. n
    BY <1>1, <1>2
  <2> QED BY <1>1, <1>2, <2>1, AfterIs
<1> QED BY <1>1, <1>2, <1>3 DEF Nodes

\* The loop of a sweep runs through states of S, if a turn stays there.
LEMMA SweepRuns ==
  ASSUME NEW S, NEW s \in S, NEW cnt, NEW n \in Nat, n = 2 * Len(s.list),
         \A x \in S : Hand!Turn(x, cnt) \in S
  PROVE  \E after \in [0 .. n -> S] :
           /\ after[0] = s /\ \A k \in 1 .. n : after[k] = Hand!Turn(after[k - 1], cnt)
           /\ Hand!Sweep(s, cnt) = after[n]
<1> DEFINE step == [p \in Nat \X S |-> Hand!Turn(p[2], cnt)]
           Eq(g) == g = [k \in 0 .. n |-> IF k = 0 THEN s ELSE Hand!Turn(g[k - 1], cnt)]
           after == CHOOSE g : Eq(g)
<1>1. step \in [Nat \X S -> S]
  OBVIOUS
<1>2. PICK f : Iterates(f, S, s, step)
  BY <1>1, Iteration
<1>3. \E g : Eq(g)
  <2> DEFINE g == [k \in 0 .. n |-> f[k]]
  <2>1. ASSUME NEW k \in 0 .. n, k # 0 PROVE g[k] = Hand!Turn(g[k - 1], cnt)
    <3>1. k - 1 \in Nat /\ k - 1 \in 0 .. n /\ (k - 1) + 1 = k
      BY <2>1
    <3>2. f[(k - 1) + 1] = step[<<k - 1, f[k - 1]>>] /\ f[k - 1] \in S
      BY <1>2, <3>1 DEF Iterates
    <3>3. step[<<k - 1, f[k - 1]>>] = Hand!Turn(f[k - 1], cnt)
      BY <3>1, <3>2
    <3> QED BY <3>1, <3>2, <3>3
  <2>2. g[0] = s
    BY <1>2 DEF Iterates
  <2>3. Eq(g)
    BY <2>1, <2>2
  <2> QED BY <2>3
<1>4. Eq(after)
  BY <1>3
<1>5. Hand!Sweep(s, cnt) = after[n]
  BY DEF Hand!Sweep
<1> HIDE DEF after
<1>6. after[0] = s /\ \A k \in 1 .. n : after[k] = Hand!Turn(after[k - 1], cnt)
  BY <1>4, SMTT(40)
<1>7. \A k \in 0 .. n : after[k] \in S
  <2>1. after[0] \in S /\ \A k \in 1 .. n : after[k - 1] \in S => after[k] \in S
    BY <1>6
  <2> QED BY <2>1, LoopStays
<1>8. after \in [0 .. n -> S]
  <2>1. after = [k \in 0 .. n |-> after[k]]
    BY <1>4
  <2> QED BY <2>1, <1>7
<1> QED BY <1>5, <1>6, <1>8

\* A state of the loops of find_victim.
Sweeping == [list : Seq(Entries), bit : [Entries -> BOOLEAN], hand : Entries \union {None}, advice : Seq(Entries)]

\* The hand is on a node.
HandOn(x) == IF x.list = <<>> THEN x.hand = None ELSE x.hand \in ToSet(x.list)

\* Whether the sweep is over.
Enough(x, cnt) == Len(x.advice) = cnt \/ x.list = <<>>

\* The turn that spares the node under the hand, and the one that unlinks it.
Spare(x) ==
  [list |-> x.list, bit |-> [x.bit EXCEPT ![x.hand] = FALSE], hand |-> Hand!After(x.list, x.hand), advice |-> x.advice]
Free(x) ==
  [list |-> RemoveFirst(x.list, x.hand), bit |-> x.bit,
   hand |-> IF Len(x.list) = 1 THEN None ELSE Hand!After(x.list, x.hand), advice |-> Append(x.advice, x.hand)]

\* A turn is one of these, or the sweep is over.
LEMMA TurnIs ==
  ASSUME NEW x \in Sweeping, HandOn(x), NEW cnt
  PROVE  Hand!Turn(x, cnt) = IF Enough(x, cnt) THEN x ELSE IF x.bit[x.hand] THEN Spare(x) ELSE Free(x)
<1>1. CASE Enough(x, cnt)
  BY <1>1 DEF Enough, Hand!Turn
<1>2. CASE ~Enough(x, cnt)
  <2>1. x.hand \in Entries /\ x.hand # None
    BY <1>2, Members, PolicyAssumption DEF Enough, HandOn, Sweeping
  <2>2. /\ x = [list |-> x.list, bit |-> x.bit, hand |-> x.hand, advice |-> x.advice]
        /\ x.bit \in [Entries -> BOOLEAN]
    BY DEF Sweeping
  <2>3. CASE x.bit[x.hand]
    <3>1. Hand!Turn(x, cnt) = [x EXCEPT !.bit[x.hand] = FALSE, !.hand = Hand!After(x.list, x.hand)]
      BY <1>2, <2>1, <2>3 DEF Enough, Hand!Turn
    <3> QED BY <1>2, <2>2, <2>3, <3>1 DEF Spare
  <2>4. CASE ~x.bit[x.hand]
    <3>1. Hand!Turn(x, cnt) = [x EXCEPT !.list = Hand!RemoveFirst(x.list, x.hand),
                                        !.hand = IF Len(x.list) = 1 THEN None ELSE Hand!After(x.list, x.hand),
                                        !.advice = Append(x.advice, x.hand)]
      BY <1>2, <2>1, <2>4 DEF Enough, Hand!Turn
    <3>2. Hand!RemoveFirst(x.list, x.hand) = RemoveFirst(x.list, x.hand)
      BY SameOperators
    <3> QED BY <1>2, <2>2, <2>4, <3>1, <3>2 DEF Free
  <2> QED BY <2>3, <2>4
<1> QED BY <1>1, <1>2

\* In a sweep that began with the nodes of T, these are in the list or advised.
Swept(x, T, cnt) ==
  /\ x \in Sweeping /\ HandOn(x)
  /\ Nodes(x.list, ToSet(x.list)) /\ ToSet(x.list) \subseteq T
  /\ Nodes(x.advice, T \ ToSet(x.list))
  /\ Len(x.advice) <= cnt

\* One node fewer is in a list without one of its nodes.
LEMMA OneLess ==
  ASSUME NEW l, Nodes(l, ToSet(l)), NEW e \in ToSet(l), NEW t, t = RemoveFirst(l, e)
  PROVE  /\ Nodes(t, ToSet(t)) /\ ToSet(t) = ToSet(l) \ {e} /\ Len(t) = Len(l) - 1
         /\ t = <<>> <=> Len(l) = 1
<1>1. Nodes(t, ToSet(t)) /\ ToSet(t) = ToSet(l) \ {e}
  BY UnlinkedList, WithoutNodes
<1>2. l \in Seq(Entries)
  BY DEF Nodes
<1>3. PICK k \in 1 .. Len(l) : t = RemoveAt(l, k)
  <2>1. \E i \in 1 .. Len(l) : l[i] = e
    BY <1>2, Members
  <2> QED BY <1>2, <2>1, RemoveFirstIs
<1>4. t \in Seq(Entries) /\ Len(t) = Len(l) - 1
  BY <1>2, <1>3, RemoveAtIs
<1> QED BY <1>1, <1>2, <1>4

\* A turn leaves the hand on a node and no node uncounted.
LEMMA TurnKeeps ==
  ASSUME NEW T \in SUBSET Entries, NEW cnt \in Nat, NEW x, Swept(x, T, cnt)
  PROVE  Swept(Hand!Turn(x, cnt), T, cnt)
<1>1. /\ x \in Sweeping /\ HandOn(x) /\ Nodes(x.list, ToSet(x.list)) /\ ToSet(x.list) \subseteq T
      /\ Nodes(x.advice, T \ ToSet(x.list)) /\ Len(x.advice) <= cnt
  BY DEF Swept
<1>2. CASE Enough(x, cnt)
  <2>1. Hand!Turn(x, cnt) = x
    BY <1>1, <1>2, TurnIs
  <2> QED BY <2>1
<1>3. CASE ~Enough(x, cnt) /\ x.bit[x.hand]
  <2>1. PICK y : y = Spare(x) /\ y = Hand!Turn(x, cnt)
    BY <1>1, <1>3, TurnIs
  <2>2. x.hand \in ToSet(x.list)
    BY <1>1, <1>3 DEF HandOn, Enough
  <2>3. Hand!After(x.list, x.hand) \in ToSet(x.list)
    BY <1>1, <2>2, AfterInList
  <2>4. y.list = x.list /\ y.advice = x.advice /\ y.hand \in ToSet(x.list)
    BY <2>1, <2>3 DEF Spare
  <2>5. y \in Sweeping
    <3>1. x.list \in Seq(Entries) /\ x.bit \in [Entries -> BOOLEAN] /\ x.advice \in Seq(Entries)
      BY <1>1 DEF Sweeping
    <3>2. PICK h \in Entries : h = Hand!After(x.list, x.hand)
      BY <1>1, <2>3 DEF Nodes
    <3>3. PICK b \in [Entries -> BOOLEAN] : b = [x.bit EXCEPT ![x.hand] = FALSE]
      BY <3>1
    <3>4. y = [list |-> x.list, bit |-> b, hand |-> h, advice |-> x.advice]
      BY <2>1, <3>2, <3>3 DEF Spare
    <3> QED BY <3>1, <3>4 DEF Sweeping
  <2>6. HandOn(y)
    BY <1>3, <2>4 DEF HandOn, Enough
  <2>7. Swept(y, T, cnt)
    BY <1>1, <2>4, <2>5, <2>6 DEF Swept
  <2> QED BY <2>1, <2>7
<1>4. CASE ~Enough(x, cnt) /\ ~x.bit[x.hand]
  <2>1. PICK y : y = Free(x) /\ y = Hand!Turn(x, cnt)
    BY <1>1, <1>4, TurnIs
  <2>2. PICK e : e = x.hand /\ e \in ToSet(x.list)
    BY <1>1, <1>4 DEF HandOn, Enough
  <2>3. PICK l : l = x.list
    OBVIOUS
  <2>4. PICK t : t = RemoveFirst(l, e)
    OBVIOUS
  <2>5. Nodes(l, ToSet(l)) /\ e \in ToSet(l) /\ ToSet(l) \subseteq T /\ e \in Entries
    BY <1>1, <2>2, <2>3 DEF Nodes
  <2>6. Nodes(t, ToSet(t)) /\ ToSet(t) = ToSet(l) \ {e} /\ (t = <<>> <=> Len(l) = 1)
    BY <2>4, <2>5, OneLess
  <2>7. Hand!After(l, e) \in ToSet(l) /\ (Len(l) # 1 => Hand!After(l, e) # e)
    BY <2>5, AfterInList
  <2>8. y.list = t /\ y.bit = x.bit /\ y.hand = (IF Len(l) = 1 THEN None ELSE Hand!After(l, e)) /\ y.advice = Append(x.advice, e)
    BY <2>1, <2>2, <2>3, <2>4 DEF Free
  <2>9. (y.hand = None /\ t = <<>>) \/ (y.hand \in ToSet(t) /\ t # <<>>)
    <3>1. PICK a : a = Hand!After(l, e)
      OBVIOUS
    <3>2. PICK S : S = ToSet(t) /\ S = ToSet(l) \ {e}
      BY <2>6
    <3>3. CASE Len(l) = 1
      <4>1. t = <<>>
        BY <3>3, <2>6, Zenon
      <4>2. y.hand = None
        BY <3>3, <2>8, Zenon
      <4> QED BY <4>1, <4>2, Zenon
    <3>4. CASE Len(l) # 1
      <4>1. y.hand = a /\ a \in S /\ t # <<>>
        BY <3>1, <3>2, <3>4, <2>6, <2>7, <2>8
      <4> QED BY <3>2, <4>1
    <3> QED BY <3>3, <3>4
  <2>10. HandOn(y)
    BY <2>8, <2>9 DEF HandOn
  <2>11. t \in Seq(Entries) /\ x.advice \in Seq(Entries) /\ x.bit \in [Entries -> BOOLEAN]
    BY <1>1, <2>6 DEF Nodes, Sweeping
  <2>12. y \in Sweeping
    <3>1. y.hand \in Entries \union {None}
      BY <2>5, <2>6, <2>9
    <3>2. Append(x.advice, e) \in Seq(Entries)
      BY <2>5, <2>11
    <3>3. y = [list |-> y.list, bit |-> y.bit, hand |-> y.hand, advice |-> y.advice]
      BY <2>1 DEF Free
    <3> QED BY <2>8, <2>11, <3>1, <3>2, <3>3 DEF Sweeping
  <2>13. Nodes(y.advice, T \ ToSet(t))
    <3>1. PICK own : own = T \ ToSet(l)
      OBVIOUS
    <3>2. Nodes(x.advice, own) /\ e \notin own
      BY <1>1, <2>3, <2>5, <3>1
    <3>3. Nodes(Append(x.advice, e), own \union {e})
      BY <2>5, <3>2, BackNodes
    <3>4. own \union {e} = T \ ToSet(t)
      BY <2>5, <2>6, <3>1
    <3> QED BY <2>8, <3>3, <3>4
  <2>14. Len(y.advice) <= cnt
    <3>1. Len(y.advice) = Len(x.advice) + 1 /\ Len(x.advice) \in Nat
      BY <2>8, <2>11, <2>5
    <3>2. Len(x.advice) # cnt
      BY <1>4 DEF Enough
    <3> QED BY <1>1, <3>1, <3>2
  <2>15. Swept(y, T, cnt)
    BY <2>5, <2>6, <2>8, <2>10, <2>12, <2>13, <2>14 DEF Swept
  <2> QED BY <2>1, <2>15
<1> QED BY <1>2, <1>3, <1>4

\* A hand that only ever goes from nodes of V to nodes of V has gone round the list.
LEMMA RoundTrip ==
  ASSUME NEW l, NEW T, Nodes(l, T), NEW V \in SUBSET T, V # {}, \A e \in V : Hand!After(l, e) \in V
  PROVE  V = T
<1> DEFINE P == {i \in 1 .. Len(l) : l[i] \in V}
<1>1. PICK n \in Nat : n = Len(l)
  BY DEF Nodes
<1>2. P \in SUBSET Nat /\ P # {} /\ \A i \in P : i <= n
  <2>1. PICK e \in V : e \in T
    OBVIOUS
  <2>2. PICK i \in 1 .. Len(l) : l[i] = e
    BY <2>1 DEF Nodes
  <2> QED BY <1>1, <2>1, <2>2
<1>3. \A i \in P : Hand!After(l, l[i]) \in V
  OBVIOUS
<1>4. ASSUME policy = "Clock" PROVE \A i \in 1 .. n : i \in P
  <2>1. ASSUME NEW i \in P PROVE (IF i < n THEN i + 1 ELSE 1) \in P
    <3>1. i \in 1 .. n /\ i \in 1 .. Len(l)
      BY <1>1
    <3>2. Hand!After(l, l[i]) = IF i < n THEN l[i + 1] ELSE l[1]
      BY <1>1, <1>4, <3>1, AfterIs
    <3>3. (IF i < n THEN i + 1 ELSE 1) \in 1 .. n
      BY <3>1
    <3> QED BY <1>1, <1>3, <3>2, <3>3
  <2>2. PICK g \in P : \A m \in P : m <= g
    BY <1>2, GreatestNumber
  <2>3. g \in 1 .. n
    BY <1>1
  <2>4. g = n /\ 1 \in P
    BY <2>1, <2>2, <2>3
  <2> DEFINE Q == {i \in Nat : i + 1 <= n => i + 1 \in P}
  <2>5. 0 \in Q
    BY <2>4
  <2>6. ASSUME NEW i \in Q PROVE i + 1 \in Q
    <3>1. (i + 1) + 1 <= n => i + 1 \in P /\ i + 1 < n
      BY <2>6
    <3> QED BY <2>1, <2>6, <3>1
  <2>7. Q = Nat
    <3>1. Q \in SUBSET Nat
      OBVIOUS
    <3> HIDE DEF Q
    <3> QED BY <3>1, <2>5, <2>6, NumberInduction
  <2> SUFFICES ASSUME NEW i \in 1 .. n PROVE i \in P
    OBVIOUS
  <2>8. i - 1 \in Nat /\ (i - 1) + 1 = i
    OBVIOUS
  <2>9. i - 1 \in Q
    <3> HIDE DEF Q
    <3> QED BY <2>7, <2>8
  <2> QED BY <2>8, <2>9
<1>5. ASSUME policy # "Clock" PROVE \A i \in 1 .. n : i \in P
  <2>1. ASSUME NEW i \in P PROVE (IF i > 1 THEN i - 1 ELSE n) \in P
    <3>1. i \in 1 .. n /\ i \in 1 .. Len(l)
      BY <1>1
    <3>2. Hand!After(l, l[i]) = IF i > 1 THEN l[i - 1] ELSE l[n]
      BY <1>1, <1>5, <3>1, AfterIs
    <3>3. (IF i > 1 THEN i - 1 ELSE n) \in 1 .. n
      BY <3>1
    <3> QED BY <1>1, <1>3, <3>2, <3>3
  <2>2. PICK g \in P : \A m \in P : g <= m
    BY <1>2, LeastNumber
  <2>3. g \in 1 .. n
    BY <1>1
  <2>4. g = 1 /\ n \in P
    BY <2>1, <2>2, <2>3
  <2> DEFINE Q == {i \in Nat : n - i >= 1 => n - i \in P}
  <2>5. 0 \in Q
    BY <2>4
  <2>6. ASSUME NEW i \in Q PROVE i + 1 \in Q
    <3>1. n - (i + 1) >= 1 => n - i \in P /\ n - i > 1 /\ (n - i) - 1 = n - (i + 1)
      BY <2>6
    <3> QED BY <2>1, <2>6, <3>1
  <2>7. Q = Nat
    <3>1. Q \in SUBSET Nat
      OBVIOUS
    <3> HIDE DEF Q
    <3> QED BY <3>1, <2>5, <2>6, NumberInduction
  <2> SUFFICES ASSUME NEW i \in 1 .. n PROVE i \in P
    OBVIOUS
  <2>8. n - i \in Nat /\ n - (n - i) = i
    OBVIOUS
  <2>9. n - i \in Q
    <3> HIDE DEF Q
    <3> QED BY <2>7, <2>8
  <2> QED BY <2>8, <2>9
<1>6. ASSUME NEW e \in T PROVE e \in V
  <2>1. PICK i \in 1 .. n : l[i] = e
    BY <1>1 DEF Nodes
  <2>2. i \in P
    BY <1>4, <1>5
  <2> QED BY <2>1, <2>2
<1> QED BY <1>6

\* Until a victim is found, the bits that were cleared are those of the nodes that the
\* hand has passed; if the victim had its bit set, every node had.
Chance(x, l, b) ==
  /\ x.advice = <<>> =>
       /\ x.list = l
       /\ \A e \in ToSet(l) : x.bit[e] => b[e]
       /\ \A e \in ToSet(l) : b[e] /\ ~x.bit[e] =>
            \/ Hand!After(l, e) = x.hand
            \/ b[Hand!After(l, e)] /\ ~x.bit[Hand!After(l, e)]
  /\ x.advice # <<>> /\ b[x.advice[1]] => \A e \in ToSet(l) : b[e]

\* A turn keeps this account of the bits.
LEMMA TurnChance ==
  ASSUME NEW T, NEW cnt \in Nat, NEW x, Swept(x, T, cnt),
         NEW l, Nodes(l, ToSet(l)), NEW b \in [Entries -> BOOLEAN], Chance(x, l, b)
  PROVE  Chance(Hand!Turn(x, cnt), l, b)
<1>1. x \in Sweeping /\ HandOn(x) /\ Nodes(x.list, ToSet(x.list))
  BY DEF Swept
<1>2. CASE Enough(x, cnt)
  <2>1. Hand!Turn(x, cnt) = x
    BY <1>1, <1>2, TurnIs
  <2> QED BY <2>1
<1>3. x.bit \in [Entries -> BOOLEAN] /\ x.advice \in Seq(Entries)
  BY <1>1 DEF Sweeping
<1>4. CASE ~Enough(x, cnt) /\ x.bit[x.hand]
  <2>1. PICK y : y = Spare(x) /\ y = Hand!Turn(x, cnt)
    BY <1>1, <1>4, TurnIs
  <2>2. PICK h : h = x.hand /\ h \in ToSet(x.list) /\ h \in Entries
    BY <1>1, <1>4 DEF HandOn, Enough, Nodes
  <2>3. /\ y.list = x.list /\ y.hand = Hand!After(x.list, h) /\ y.advice = x.advice
        /\ y.bit = [x.bit EXCEPT ![h] = FALSE]
    BY <2>1, <2>2 DEF Spare
  <2>4. CASE x.advice = <<>>
    <3>1. x.list = l /\ y.list = l /\ y.hand = Hand!After(l, h) /\ h \in ToSet(l)
      BY <2>2, <2>3, <2>4 DEF Chance
    <3>2. ToSet(l) \subseteq Entries
      BY DEF Nodes
    <3>3. b[h]
      BY <1>4, <2>2, <2>4, <3>1 DEF Chance
    <3>4. \A e \in ToSet(l) : y.bit[e] = IF e = h THEN FALSE ELSE x.bit[e]
      BY <1>3, <2>3, <3>2
    <3>5. \A e \in ToSet(l) : y.bit[e] => b[e]
      BY <2>4, <3>4 DEF Chance
    <3>6. ASSUME NEW e \in ToSet(l), b[e], ~y.bit[e]
          PROVE  Hand!After(l, e) = y.hand \/ (b[Hand!After(l, e)] /\ ~y.bit[Hand!After(l, e)])
      <4>1. CASE e = h
        BY <3>1, <4>1
      <4>2. CASE e # h
        <5>1. ~x.bit[e]
          BY <3>4, <3>6, <4>2
        <5>2. PICK a : a = Hand!After(l, e) /\ a \in ToSet(l)
          BY AfterInList
        <5>3. a = x.hand \/ (b[a] /\ ~x.bit[a])
          BY <2>4, <3>6, <5>1, <5>2 DEF Chance
        <5> QED BY <2>2, <3>3, <3>4, <5>2, <5>3
      <4> QED BY <4>1, <4>2
    <3>7. Chance(y, l, b)
      BY <2>3, <2>4, <3>1, <3>5, <3>6 DEF Chance
    <3> QED BY <2>1, <3>7
  <2>5. CASE x.advice # <<>>
    <3>1. Chance(y, l, b)
      BY <2>3, <2>5 DEF Chance
    <3> QED BY <2>1, <3>1
  <2> QED BY <2>4, <2>5
<1>5. CASE ~Enough(x, cnt) /\ ~x.bit[x.hand]
  <2>1. PICK y : y = Free(x) /\ y = Hand!Turn(x, cnt)
    BY <1>1, <1>5, TurnIs
  <2>2. PICK h : h = x.hand /\ h \in ToSet(x.list) /\ h \in Entries
    BY <1>1, <1>5 DEF HandOn, Enough, Nodes
  <2>3. y.advice = Append(x.advice, h)
    BY <2>1, <2>2 DEF Free
  <2>4. y.advice # <<>> /\ y.advice[1] = IF x.advice = <<>> THEN h ELSE x.advice[1]
    BY <1>3, <2>2, <2>3
  <2>5. CASE x.advice = <<>>
    <3> SUFFICES ASSUME b[h] PROVE \A e \in ToSet(l) : b[e]
      BY <2>1, <2>4, <2>5 DEF Chance
    <3> DEFINE V == {e \in ToSet(l) : b[e] /\ ~x.bit[e]}
    <3>1. h \in V
      BY <1>5, <2>2, <2>5 DEF Chance
    <3>2. ASSUME NEW e \in V PROVE Hand!After(l, e) \in V
      <4>1. PICK a : a = Hand!After(l, e) /\ a \in ToSet(l)
        BY AfterInList
      <4>2. a = x.hand \/ (b[a] /\ ~x.bit[a])
        BY <2>5, <3>2, <4>1 DEF Chance
      <4> QED BY <2>2, <3>1, <4>1, <4>2
    <3>3. V = ToSet(l)
      <4>1. V \in SUBSET ToSet(l) /\ V # {}
        BY <3>1
      <4> HIDE DEF V
      <4> QED BY <4>1, <3>2, RoundTrip
    <3> QED BY <3>3
  <2>6. CASE x.advice # <<>>
    <3>1. Chance(y, l, b)
      BY <2>4, <2>6 DEF Chance
    <3> QED BY <2>1, <3>1
  <2> QED BY <2>5, <2>6
<1> QED BY <1>2, <1>4, <1>5

\* The turns a sweep can still take.
Bits(x) == {e \in ToSet(x.list) : x.bit[e]}
TurnsLeft(x) == Len(x.list) + Cardinality(Bits(x))

\* The turns of a sweep are at most two for a node, and there is one less after each.
LEMMA TurnCounts ==
  ASSUME NEW T \in SUBSET Entries, NEW cnt \in Nat, NEW x, Swept(x, T, cnt)
  PROVE  /\ TurnsLeft(x) \in Nat /\ Len(x.list) <= TurnsLeft(x) /\ TurnsLeft(x) <= 2 * Len(x.list)
         /\ ~Enough(x, cnt) => TurnsLeft(Hand!Turn(x, cnt)) = TurnsLeft(x) - 1
<1>1. /\ x \in Sweeping /\ HandOn(x) /\ Nodes(x.list, ToSet(x.list))
      /\ x.bit \in [Entries -> BOOLEAN] /\ x.list \in Seq(Entries)
  BY DEF Swept, Sweeping
<1>2. PICK S : S = ToSet(x.list)
  OBVIOUS
<1>2a. PICK n \in Nat : n = Len(x.list)
  BY <1>1
<1>3. Nodes(x.list, S) /\ S \subseteq Entries
  BY <1>1, <1>2a, <1>2 DEF Nodes
<1>4. Cardinality(S) = n
  BY <1>2a, <1>2, <1>3, NodesCounted
<1>5. IsFiniteSet(S)
  BY <1>3, FS_Subset, PolicyAssumption
<1>6. PICK B : B = Bits(x) /\ B \subseteq S
  BY <1>2a, <1>2 DEF Bits
<1>7. IsFiniteSet(B) /\ Cardinality(B) \in Nat /\ Cardinality(B) <= n
  BY <1>4, <1>5, <1>6, FS_Subset, FS_CardinalityType
<1>8. TurnsLeft(x) = n + Cardinality(B)
  BY <1>2a, <1>2, <1>6 DEF TurnsLeft
<1>9. ASSUME ~Enough(x, cnt) PROVE TurnsLeft(Hand!Turn(x, cnt)) = TurnsLeft(x) - 1
  <2>1. PICK h : h = x.hand /\ h \in S /\ h \in Entries
    BY <1>1, <1>2a, <1>2, <1>3, <1>9 DEF HandOn, Enough
  <2>2. CASE x.bit[h]
    <3>1. PICK y : y = Spare(x) /\ y = Hand!Turn(x, cnt)
      BY <1>1, <1>9, <2>1, <2>2, TurnIs
    <3>2. y.list = x.list /\ y.bit = [x.bit EXCEPT ![h] = FALSE]
      BY <2>1, <3>1 DEF Spare
    <3>3. h \in B
      BY <1>2a, <1>2, <1>6, <2>1, <2>2 DEF Bits
    <3>4. Bits(y) = B \ {h}
      BY <1>1, <1>2a, <1>2, <1>3, <1>6, <3>2 DEF Bits
    <3>5. Cardinality(B \ {h}) = Cardinality(B) - 1
      BY <1>7, <3>3, FS_RemoveElement
    <3>6. TurnsLeft(y) = n + (Cardinality(B) - 1)
      BY <1>2a, <1>2, <3>2, <3>4, <3>5 DEF TurnsLeft
    <3> QED BY <1>7, <1>8, <3>1, <3>6
  <2>3. CASE ~x.bit[h]
    <3>1. PICK y : y = Free(x) /\ y = Hand!Turn(x, cnt)
      BY <1>1, <1>9, <2>1, <2>3, TurnIs
    <3>2. y.list = RemoveFirst(x.list, h) /\ y.bit = x.bit
      BY <2>1, <3>1 DEF Free
    <3>3. ToSet(y.list) = S \ {h} /\ Len(y.list) = n - 1
      BY <1>1, <1>2a, <1>2, <2>1, <3>2, OneLess
    <3>4. Bits(y) = B
      BY <1>2a, <1>2, <1>6, <2>3, <3>2, <3>3 DEF Bits
    <3>5. TurnsLeft(y) = (n - 1) + Cardinality(B)
      BY <3>3, <3>4 DEF TurnsLeft
    <3> QED BY <1>7, <1>8, <3>1, <3>5
  <2> QED BY <2>2, <2>3
<1> QED BY <1>2a, <1>2, <1>7, <1>8, <1>9

\* A sweep ends: it has found cnt victims or emptied the list, with the hand on a node
\* and no node lost, and it gave every node its second chance.
LEMMA SweepEnds ==
  ASSUME NEW l, Nodes(l, ToSet(l)), NEW b \in [Entries -> BOOLEAN], NEW h \in Entries \union {None},
         IF l = <<>> THEN h = None ELSE h \in ToSet(l), NEW cnt \in Nat,
         NEW s, s = [list |-> l, bit |-> b, hand |-> h, advice |-> <<>>],
         NEW y, y = Hand!Sweep(s, cnt)
  PROVE  Swept(y, ToSet(l), cnt) /\ Enough(y, cnt) /\ Chance(y, l, b)
<1>1. PICK T : T = ToSet(l)
  OBVIOUS
<1>2. Nodes(l, T) /\ T \in SUBSET Entries /\ l \in Seq(Entries)
  BY <1>1 DEF Nodes
<1>3. s.list = l /\ s.bit = b /\ s.hand = h /\ s.advice = <<>>
  OBVIOUS
<1>4. Swept(s, T, cnt)
  <2>1. s \in Sweeping
    BY <1>2 DEF Sweeping
  <2>2. HandOn(s)
    BY <1>1, <1>3 DEF HandOn
  <2>3. Nodes(<<>>, {}) /\ T \ ToSet(l) = {}
    BY <1>1, EmptyList
  <2>4. Nodes(s.advice, T \ ToSet(s.list)) /\ Len(s.advice) = 0
    BY <1>3, <2>3
  <2> QED BY <1>1, <1>2, <1>3, <2>1, <2>2, <2>4 DEF Swept
<1>5. Chance(s, l, b)
  BY <1>3 DEF Chance
<1> DEFINE S == {x \in Sweeping : Swept(x, T, cnt) /\ Chance(x, l, b)}
<1>6. \A x \in Sweeping : x \in S <=> Swept(x, T, cnt) /\ Chance(x, l, b)
  OBVIOUS
<1>7. s \in S
  BY <1>4, <1>5 DEF Swept
<1>8. ASSUME NEW x \in S PROVE Hand!Turn(x, cnt) \in S
  <2>1. Swept(x, T, cnt) /\ Chance(x, l, b)
    OBVIOUS
  <2>2. Swept(Hand!Turn(x, cnt), T, cnt)
    BY <1>2, <2>1, TurnKeeps
  <2>3. Chance(Hand!Turn(x, cnt), l, b)
    BY <2>1, TurnChance
  <2> QED BY <1>6, <2>2, <2>3 DEF Swept
<1> HIDE DEF S
<1>9. PICK n \in Nat : n = 2 * Len(s.list) /\ n = 2 * Len(l)
  BY <1>2, <1>3
<1>10. PICK after \in [0 .. n -> S] :
         /\ after[0] = s /\ \A k \in 1 .. n : after[k] = Hand!Turn(after[k - 1], cnt)
         /\ Hand!Sweep(s, cnt) = after[n]
  <2>1. n = 2 * Len(s.list)
    BY <1>9
  <2>2. \E after \in [0 .. n -> S] :
          /\ after[0] = s /\ \A k \in 1 .. n : after[k] = Hand!Turn(after[k - 1], cnt)
          /\ Hand!Sweep(s, cnt) = after[n]
    BY <1>7, <1>8, <2>1, SweepRuns, SMTT(40)
  <2> QED BY <2>2
<1>11. \A k \in 0 .. n : Swept(after[k], T, cnt) /\ Chance(after[k], l, b)
  BY <1>10 DEF S
<1> DEFINE P == {k \in Nat : k <= n => Enough(after[k], cnt) \/ TurnsLeft(after[k]) + k <= n}
<1>12. 0 \in P
  <2>1. TurnsLeft(s) \in Nat /\ TurnsLeft(s) <= 2 * Len(s.list)
    BY <1>2, <1>4, TurnCounts
  <2> QED BY <1>9, <1>10, <2>1
<1>13. ASSUME NEW k \in P PROVE k + 1 \in P
  <2> SUFFICES ASSUME k + 1 <= n PROVE Enough(after[k + 1], cnt) \/ TurnsLeft(after[k + 1]) + (k + 1) <= n
    OBVIOUS
  <2>1. k \in 0 .. n /\ k + 1 \in 1 .. n /\ (k + 1) - 1 = k
    BY <1>13
  <2>2. PICK x : x = after[k]
    OBVIOUS
  <2>3. Swept(x, T, cnt) /\ after[k + 1] = Hand!Turn(x, cnt)
    BY <1>10, <1>11, <2>1, <2>2
  <2>4. CASE Enough(x, cnt)
    <3>1. Hand!Turn(x, cnt) = x
      BY <2>3, <2>4, TurnIs DEF Swept
    <3> QED BY <2>3, <2>4, <3>1
  <2>5. CASE ~Enough(x, cnt)
    <3>1. TurnsLeft(x) \in Nat /\ TurnsLeft(Hand!Turn(x, cnt)) = TurnsLeft(x) - 1
      BY <1>2, <2>3, <2>5, TurnCounts
    <3>2. TurnsLeft(x) + k <= n
      BY <1>13, <2>1, <2>2, <2>5
    <3> QED BY <2>1, <2>3, <3>1, <3>2
  <2> QED BY <2>4, <2>5
<1>14. P = Nat
  <2>1. P \in SUBSET Nat
    OBVIOUS
  <2> HIDE DEF P
  <2> QED BY <2>1, <1>12, <1>13, NumberInduction
<1>15. y = after[n] /\ n \in 0 .. n
  BY <1>10
<1>16. Enough(y, cnt) \/ TurnsLeft(y) + n <= n
  <2>1. n \in P
    BY <1>14
  <2> QED BY <1>15, <2>1
<1>17. Swept(y, T, cnt) /\ Chance(y, l, b)
  BY <1>11, <1>15
<1>18. Enough(y, cnt)
  <2> SUFFICES ASSUME TurnsLeft(y) + n <= n PROVE Enough(y, cnt)
    BY <1>16
  <2>1. TurnsLeft(y) \in Nat /\ Len(y.list) <= TurnsLeft(y)
    BY <1>2, <1>17, TurnCounts
  <2>2. y.list \in Seq(Entries)
    BY <1>17 DEF Swept, Sweeping
  <2>3. Len(y.list) = 0
    BY <2>1, <2>2
  <2>4. y.list = <<>>
    BY <2>2, <2>3
  <2> QED BY <2>4 DEF Enough
<1> QED BY <1>1, <1>17, <1>18

\* The list of Clock and Sieve between two calls.
HandInv ==
  /\ Nodes(list, ToSet(list)) /\ bit \in [Entries -> BOOLEAN] /\ hand \in Entries \union {None}
  /\ IF list = <<>> THEN hand = None ELSE hand \in ToSet(list)
  /\ totalSize = Len(list)

\* A new node is a list of its own, whichever end it is pushed to.
LEMMA PushedNode ==
  ASSUME NEW l, Nodes(l, ToSet(l)), NEW e \in Entries, e \notin ToSet(l),
         NEW t, t = Append(l, e) \/ t = <<e>> \o l
  PROVE  Nodes(t, ToSet(t)) /\ ToSet(t) = ToSet(l) \union {e} /\ Len(t) = Len(l) + 1 /\ t # <<>>
<1>1. PICK own : own = ToSet(l)
  OBVIOUS
<1>2. Nodes(l, own) /\ e \notin own
  BY <1>1
<1>3. Nodes(t, own \union {e})
  <2>1. Nodes(Append(l, e), own \union {e}) /\ Nodes(<<e>> \o l, own \union {e})
    BY <1>2, BackNodes, FrontNodes
  <2> QED BY <2>1
<1>4. ToSet(t) = own \union {e}
  BY <1>3, NodesSet
<1>5. Len(t) = Len(l) + 1 /\ l \in Seq(Entries)
  BY DEF Nodes
<1> QED BY <1>1, <1>3, <1>4, <1>5

\* notify_insert of Clock and Sieve.
LEMMA HandInsert ==
  ASSUME HandInv, policy \in HandPolicy, NEW e \in Entries, Hand!NotifyInsert(e)
  PROVE  HandInv' /\ ToSet(list)' = ToSet(list) \union {e}
<1>1. \A s : Hand!ToSet(s) = ToSet(s)
  BY SameOperators
<1>2. CASE e \in ToSet(list)
  <2>1. list' = list /\ hand' = hand /\ totalSize' = totalSize /\ bit' = [bit EXCEPT ![e] = TRUE]
    BY <1>1, <1>2 DEF Hand!NotifyInsert
  <2> QED BY <1>2, <2>1 DEF HandInv
<1>3. CASE e \notin ToSet(list)
  <2>1. /\ list' = Append(list, e) \/ list' = <<e>> \o list
        /\ bit' = [bit EXCEPT ![e] = (policy = "Clock")]
        /\ hand' = IF (policy = "Clock" /\ hand = None) \/ (policy = "Sieve" /\ list = <<>>) THEN e ELSE hand
        /\ totalSize' = totalSize + 1
    BY <1>1, <1>3 DEF Hand!NotifyInsert
  <2>2. /\ Nodes(list', ToSet(list')) /\ ToSet(list') = ToSet(list) \union {e} /\ Len(list') = Len(list) + 1
        /\ list' # <<>>
    BY <1>3, <2>1, PushedNode DEF HandInv
  <2>3. bit' \in [Entries -> BOOLEAN]
    BY <2>1 DEF HandInv
  <2>4. hand' \in ToSet(list')
    BY <2>1, <2>2, PolicyAssumption DEF HandInv, HandPolicy
  <2>5. hand' \in Entries \union {None} /\ totalSize' = Len(list')
    BY <2>1, <2>2 DEF HandInv
  <2> QED BY <2>2, <2>3, <2>4, <2>5 DEF HandInv
<1> QED BY <1>2, <1>3

\* Victims of T that leave R, as many as were asked for or all there were.
LEMMA AllTaken ==
  ASSUME NEW w, NEW T, Nodes(w, T), NEW l, NEW R, Nodes(l, R), R \subseteq T, NEW adv, Nodes(adv, T \ R),
         NEW cnt \in Nat, Len(adv) <= cnt, Len(adv) = cnt \/ Len(l) = 0
  PROVE  TakesAll(adv, w, T, R, cnt) /\ Len(adv) + Len(l) = Len(w)
<1>1. Cardinality(T) = Len(w) /\ Cardinality(R) = Len(l) /\ Cardinality(T \ R) = Len(adv)
  BY NodesCounted
<1>2. IsFiniteSet(T)
  BY FS_Subset, PolicyAssumption DEF Nodes
<1>3. IsFiniteSet(R) /\ R \intersect T = R
  BY <1>2, FS_Subset
<1>4. Cardinality(T \ R) = Cardinality(T) - Cardinality(T \intersect R) /\ Cardinality(R) \in Nat /\ Cardinality(T) \in Nat
  BY <1>2, <1>3, FS_Difference, FS_CardinalityType
<1>5. PICK i \in Nat, j \in Nat : i = Cardinality(T) /\ j = Cardinality(R)
  BY <1>4
<1>6. Cardinality(T \ R) = i - j
  BY <1>3, <1>4, <1>5
<1>7. Len(adv) = i - j
  BY <1>1, <1>6, Zenon
<1>8. Len(l) = j /\ Len(w) = i
  BY <1>1, <1>5, Zenon
<1>9. i - j = IF i < cnt THEN i ELSE cnt
  <2>1. i - j <= cnt /\ (i - j = cnt \/ j = 0)
    BY <1>7, <1>8
  <2> QED BY <2>1
<1>10. ToSet(adv) = T \ R
  BY NodesSet
<1>11. Nodes(adv, ToSet(adv)) /\ ToSet(adv) \subseteq T /\ R = T \ ToSet(adv)
  BY <1>10
<1>12. Len(adv) = IF Len(w) < cnt THEN Len(w) ELSE cnt
  BY <1>7, <1>8, <1>9
<1>13. TakesAll(adv, w, T, R, cnt)
  BY <1>11, <1>12 DEF TakesAll
<1>14. Len(adv) + Len(l) = Len(w)
  BY <1>7, <1>8
<1> QED BY <1>13, <1>14

\* find_victim of Clock and Sieve.
LEMMA HandVictims ==
  ASSUME HandInv, policy \in HandPolicy, NEW cnt \in Nat, Hand!FindVictim(cnt)
  PROVE  /\ HandInv' /\ TakesAll(advice', list, ToSet(list), ToSet(list)', cnt)
         /\ advice' # <<>> /\ bit[advice'[1]] => \A e \in ToSet(list) : bit[e]
<1>1. \A s : Hand!ToSet(s) = ToSet(s)
  BY SameOperators
<1>2. PICK l, b, h : l = list /\ b = bit /\ h = hand
  OBVIOUS
<1>3. PICK s : s = [list |-> l, bit |-> b, hand |-> h, advice |-> <<>>]
  OBVIOUS
<1>4. PICK y : y = Hand!Sweep(s, cnt)
  OBVIOUS
<1>5. /\ list' = y.list /\ bit' = [e \in Entries |-> y.bit[e] /\ e \in ToSet(y.list)] /\ hand' = y.hand
      /\ totalSize' = totalSize - Len(y.advice) /\ advice' = y.advice
  BY <1>1, <1>2, <1>3, <1>4 DEF Hand!FindVictim
<1>6. PICK T : T = ToSet(l)
  OBVIOUS
<1>7. Nodes(l, ToSet(l)) /\ Nodes(l, T) /\ b \in [Entries -> BOOLEAN] /\ h \in Entries \union {None}
  BY <1>2, <1>6 DEF HandInv
<1>8. Swept(y, T, cnt) /\ Enough(y, cnt) /\ Chance(y, l, b)
  <2>1. IF l = <<>> THEN h = None ELSE h \in ToSet(l)
    BY <1>2 DEF HandInv
  <2> QED BY <1>3, <1>4, <1>6, <1>7, <2>1, SweepEnds
<1>9. PICK R : R = ToSet(y.list)
  OBVIOUS
<1>10. Nodes(y.list, R) /\ R \subseteq T /\ Nodes(y.advice, T \ R) /\ Len(y.advice) <= cnt /\ HandOn(y) /\ y \in Sweeping
  BY <1>8, <1>9 DEF Swept
<1>11. TakesAll(y.advice, l, T, R, cnt) /\ Len(y.advice) + Len(y.list) = Len(l)
  <2>1. PICK adv, left : adv = y.advice /\ left = y.list
    OBVIOUS
  <2>2. /\ Nodes(left, R) /\ R \subseteq T /\ Nodes(adv, T \ R) /\ Len(adv) <= cnt
        /\ Len(adv) = cnt \/ Len(left) = 0
    BY <1>8, <1>10, <2>1 DEF Enough
  <2>3. TakesAll(adv, l, T, R, cnt) /\ Len(adv) + Len(left) = Len(l)
    BY <1>7, <2>2, AllTaken
  <2> QED BY <2>1, <2>3
<1>12. y.list \in Seq(Entries) /\ y.advice \in Seq(Entries) /\ y.bit \in [Entries -> BOOLEAN] /\ y.hand \in Entries \union {None}
  BY <1>10 DEF Sweeping
<1>13. HandInv'
  <2>1. totalSize' = Len(y.list)
    <3>1. PICK i \in Nat, j \in Nat : i = Len(y.advice) /\ j = Len(y.list)
      BY <1>12
    <3>2. totalSize = i + j
      BY <1>2, <1>11, <3>1 DEF HandInv
    <3> QED BY <1>5, <3>1, <3>2
  <2>2. bit' \in [Entries -> BOOLEAN]
    BY <1>5, <1>12
  <2>3. IF y.list = <<>> THEN y.hand = None ELSE y.hand \in ToSet(y.list)
    BY <1>10 DEF HandOn
  <2>4. Nodes(list', ToSet(list'))
    BY <1>5, <1>9, <1>10
  <2> QED BY <1>5, <1>12, <2>1, <2>2, <2>3, <2>4 DEF HandInv
<1>14. y.advice # <<>> /\ b[y.advice[1]] => \A e \in ToSet(l) : b[e]
  BY <1>8 DEF Chance
<1> QED BY <1>2, <1>5, <1>6, <1>9, <1>11, <1>13, <1>14

-----------------------------------------------------------------------------
(* S3-FIFO: the turns of its loops                                         *)

\* A queue and its last element.
Butlast(q) == SubSeq(q, 1, Len(q) - 1)

\* Taking the oldest entry of a queue.
LEMMA PopBack ==
  ASSUME NEW q \in Seq(Entries), q # <<>>, NEW e, e = q[Len(q)], NEW t, t = Butlast(q)
  PROVE  /\ e \in Entries /\ t \in Seq(Entries) /\ Len(q) \in Nat \ {0} /\ Len(t) = Len(q) - 1
         /\ ToSet(q) = ToSet(t) \union {e} /\ S3!Last(q) = e /\ S3!Front(q) = t
         /\ Nodes(q, ToSet(q)) => Nodes(t, ToSet(t)) /\ ToSet(t) = ToSet(q) \ {e}
<1>1. PICK n \in Nat : n = Len(q)
  OBVIOUS
<1>2. n # 0 /\ n \in 1 .. n
  BY <1>1
<1>3. t \in Seq(Entries) /\ Len(t) = n - 1 /\ \A i \in 1 .. n - 1 : t[i] = q[i]
  BY <1>1, <1>2 DEF Butlast
<1>4. e \in Entries
  BY <1>1, <1>2
<1>5. /\ \A x : x \in ToSet(q) <=> \E i \in 1 .. n : q[i] = x
      /\ \A x : x \in ToSet(t) <=> \E i \in 1 .. n - 1 : t[i] = x
  BY <1>1, <1>3, Members
<1>6. 1 .. n = (1 .. n - 1) \union {n}
  BY <1>2
<1>7. ToSet(q) = ToSet(t) \union {e}
  BY <1>1, <1>2, <1>3, <1>5, <1>6
<1>8. S3!Last(q) = e /\ S3!Front(q) = t
  BY DEF S3!Last, S3!Front, Butlast
<1>9. ASSUME Nodes(q, ToSet(q)) PROVE Nodes(t, ToSet(t)) /\ ToSet(t) = ToSet(q) \ {e}
  <2>1. \A i, j \in 1 .. n : q[i] = q[j] => i = j
    BY <1>1, <1>9 DEF Nodes
  <2>2. \A i, j \in 1 .. n - 1 : i < j => t[i] # t[j]
    <3> SUFFICES ASSUME NEW i \in 1 .. n - 1, NEW j \in 1 .. n - 1, i < j PROVE t[i] # t[j]
      OBVIOUS
    <3>1. i \in 1 .. n /\ j \in 1 .. n /\ i # j /\ t[i] = q[i] /\ t[j] = q[j]
      BY <1>3
    <3> QED BY <2>1, <3>1
  <2>3. Nodes(t, ToSet(t))
    BY <1>3, <2>2, DistinctNodes
  <2>4. e \notin ToSet(t)
    <3> SUFFICES ASSUME NEW i \in 1 .. n - 1, t[i] = e PROVE FALSE
      BY <1>5
    <3>1. i \in 1 .. n /\ i # n /\ q[i] = q[n]
      BY <1>1, <1>2, <1>3
    <3> QED BY <1>2, <2>1, <3>1
  <2> QED BY <1>7, <2>3, <2>4
<1> QED BY <1>1, <1>2, <1>3, <1>4, <1>7, <1>8, <1>9

\* Putting an entry at the front of a queue.
LEMMA PushedEntry ==
  ASSUME NEW q \in Seq(Entries), NEW e \in Entries, NEW t, t = <<e>> \o q
  PROVE  /\ t \in Seq(Entries) /\ Len(t) = Len(q) + 1 /\ ToSet(t) = ToSet(q) \union {e} /\ S3!Cons(e, q) = t
         /\ Nodes(q, ToSet(q)) /\ e \notin ToSet(q) => Nodes(t, ToSet(t))
<1>1. PICK n \in Nat : n = Len(q)
  OBVIOUS
<1>2. t \in Seq(Entries) /\ Len(t) = n + 1 /\ t[1] = e /\ \A i \in 2 .. n + 1 : t[i] = q[i - 1]
  BY <1>1
<1>3. \A x : x \in ToSet(t) <=> \E i \in 1 .. n + 1 : t[i] = x
  <2>1. t \in Seq(Entries) /\ Len(t) = n + 1
    BY <1>2
  <2>2. \A x : x \in ToSet(t) <=> \E i \in 1 .. Len(t) : t[i] = x
    BY <2>1, Members
  <2> QED BY <2>1, <2>2
<1>4. \A x : x \in ToSet(q) <=> \E i \in 1 .. n : q[i] = x
  BY <1>1, Members
<1>5. ASSUME NEW x \in ToSet(q) PROVE x \in ToSet(t)
  <2>1. PICK i \in 1 .. n : q[i] = x
    BY <1>4
  <2>2. i + 1 \in 2 .. n + 1 /\ i + 1 \in 1 .. n + 1 /\ (i + 1) - 1 = i
    OBVIOUS
  <2> QED BY <1>2, <1>3, <2>1, <2>2
<1>6. ASSUME NEW x \in ToSet(t), x # e PROVE x \in ToSet(q)
  <2>1. PICK i \in 1 .. n + 1 : t[i] = x
    BY <1>3
  <2>2. i \in 2 .. n + 1 /\ i - 1 \in 1 .. n
    BY <1>2, <1>6, <2>1
  <2> QED BY <1>2, <1>4, <2>1, <2>2
<1>7. e \in ToSet(t)
  BY <1>2, <1>3
<1>8. ToSet(t) = ToSet(q) \union {e}
  BY <1>5, <1>6, <1>7
<1>9. ASSUME Nodes(q, ToSet(q)), e \notin ToSet(q) PROVE Nodes(t, ToSet(t))
  BY <1>9, PushedNode
<1>10. S3!Cons(e, q) = t
  BY DEF S3!Cons
<1> QED BY <1>1, <1>2, <1>8, <1>9, <1>10

\* A state of find_victim of S3-FIFO.
Freqs == 0 .. 3 \union {9}
Evicting ==
  [small : Seq(Entries), main : Seq(Entries), ghost : Seq(Entries), ghostSet : SUBSET Entries,
   freq : [Entries -> Freqs], smallSize : Nat, mainSize : Nat, totalSize : Nat, advice : Seq(Entries)]

\* The turns of the two inner loops, with e the oldest entry.
Promote(x, e) ==
  [small |-> Butlast(x.small), main |-> <<e>> \o x.main, ghost |-> x.ghost, ghostSet |-> x.ghostSet,
   freq |-> [x.freq EXCEPT ![e] = 0], smallSize |-> x.smallSize - 1, mainSize |-> x.mainSize + 1,
   totalSize |-> x.totalSize, advice |-> x.advice]
Demote(x, e) ==
  [small |-> Butlast(x.small), main |-> x.main, ghost |-> <<e>> \o x.ghost, ghostSet |-> x.ghostSet \union {e},
   freq |-> [x.freq EXCEPT ![e] = 9], smallSize |-> x.smallSize - 1, mainSize |-> x.mainSize,
   totalSize |-> x.totalSize - 1, advice |-> Append(x.advice, e)]
Again(x, e) ==
  [small |-> x.small, main |-> <<e>> \o Butlast(x.main), ghost |-> x.ghost, ghostSet |-> x.ghostSet,
   freq |-> [x.freq EXCEPT ![e] = x.freq[e] - 1], smallSize |-> x.smallSize, mainSize |-> x.mainSize,
   totalSize |-> x.totalSize, advice |-> x.advice]
Leave(x, e) ==
  [small |-> x.small, main |-> Butlast(x.main), ghost |-> x.ghost, ghostSet |-> x.ghostSet,
   freq |-> [x.freq EXCEPT ![e] = 9], smallSize |-> x.smallSize, mainSize |-> x.mainSize - 1,
   totalSize |-> x.totalSize - 1, advice |-> Append(x.advice, e)]

\* A turn of evict_from_small moves the oldest entry to main or advises it.
LEMMA TurnSmallIs ==
  ASSUME NEW x \in Evicting, x.small # <<>>, NEW e, e = x.small[Len(x.small)]
  PROVE  S3!TurnSmall(x) = IF x.freq[e] \in 2 .. 3 THEN Promote(x, e) ELSE Demote(x, e)
<1>1. /\ x = [small |-> x.small, main |-> x.main, ghost |-> x.ghost, ghostSet |-> x.ghostSet, freq |-> x.freq,
              smallSize |-> x.smallSize, mainSize |-> x.mainSize, totalSize |-> x.totalSize, advice |-> x.advice]
      /\ x.small \in Seq(Entries) /\ x.freq \in [Entries -> Freqs]
      /\ x.main \in Seq(Entries) /\ x.ghost \in Seq(Entries)
  BY DEF Evicting
<1>2. e \in Entries /\ S3!Last(x.small) = e /\ S3!Front(x.small) = Butlast(x.small)
  BY <1>1, PopBack
<1>3. S3!Cons(e, x.main) = <<e>> \o x.main /\ S3!Cons(e, x.ghost) = <<e>> \o x.ghost
  BY DEF S3!Cons
<1>4. x.freq[e] \in Freqs
  BY <1>1, <1>2
<1>5. S3!Absent = 9
  BY DEF S3!Absent
<1>6. CASE x.freq[e] \in 2 .. 3
  <2>1. x.freq[e] # 9 /\ x.freq[e] > 1
    BY <1>6
  <2>2. S3!TurnSmall(x) =
          [[x EXCEPT !.small = Butlast(x.small), !.smallSize = @ - 1]
             EXCEPT !.main = <<e>> \o x.main, !.mainSize = @ + 1, !.freq[e] = 0]
    BY <1>1, <1>2, <1>3, <1>5, <2>1 DEF S3!TurnSmall
  <2> QED BY <1>1, <1>6, <2>2 DEF Promote
<1>7. CASE x.freq[e] \notin 2 .. 3
  <2>1. ~((IF x.freq[e] = S3!Absent THEN 0 ELSE x.freq[e]) > 1)
    BY <1>4, <1>5, <1>7 DEF Freqs
  <2>2. S3!TurnSmall(x) =
          [[x EXCEPT !.small = Butlast(x.small), !.smallSize = @ - 1]
             EXCEPT !.totalSize = @ - 1, !.ghost = <<e>> \o x.ghost, !.ghostSet = @ \union {e},
                    !.freq[e] = 9, !.advice = Append(@, e)]
    BY <1>1, <1>2, <1>3, <1>5, <2>1 DEF S3!TurnSmall
  <2> QED BY <1>1, <1>7, <2>2 DEF Demote
<1> QED BY <1>6, <1>7

\* A turn of evict_from_main sends the oldest entry round again or advises it.
LEMMA TurnMainIs ==
  ASSUME NEW x \in Evicting, x.main # <<>>, NEW e, e = x.main[Len(x.main)]
  PROVE  S3!TurnMain(x) = IF x.freq[e] \in 1 .. 3 THEN Again(x, e) ELSE Leave(x, e)
<1>1. /\ x = [small |-> x.small, main |-> x.main, ghost |-> x.ghost, ghostSet |-> x.ghostSet, freq |-> x.freq,
              smallSize |-> x.smallSize, mainSize |-> x.mainSize, totalSize |-> x.totalSize, advice |-> x.advice]
      /\ x.main \in Seq(Entries) /\ x.freq \in [Entries -> Freqs]
  BY DEF Evicting
<1>2. e \in Entries /\ S3!Last(x.main) = e /\ S3!Front(x.main) = Butlast(x.main)
  BY <1>1, PopBack
<1>3. S3!Cons(e, Butlast(x.main)) = <<e>> \o Butlast(x.main)
  BY DEF S3!Cons
<1>4. x.freq[e] \in Freqs
  BY <1>1, <1>2
<1>5. S3!Absent = 9
  BY DEF S3!Absent
<1>6. CASE x.freq[e] \in 1 .. 3
  <2>1. x.freq[e] # 9 /\ x.freq[e] > 0
    BY <1>6
  <2>2. S3!TurnMain(x) = [x EXCEPT !.main = <<e>> \o Butlast(x.main), !.freq[e] = x.freq[e] - 1]
    BY <1>1, <1>2, <1>3, <1>5, <2>1 DEF S3!TurnMain
  <2> QED BY <1>1, <1>6, <2>2 DEF Again
<1>7. CASE x.freq[e] \notin 1 .. 3
  <2>1. ~((IF x.freq[e] = S3!Absent THEN 0 ELSE x.freq[e]) > 0)
    BY <1>4, <1>5, <1>7 DEF Freqs
  <2>2. S3!TurnMain(x) = [x EXCEPT !.main = Butlast(x.main), !.mainSize = @ - 1, !.totalSize = @ - 1,
                                   !.freq[e] = 9, !.advice = Append(@, e)]
    BY <1>1, <1>2, <1>3, <1>5, <2>1 DEF S3!TurnMain
  <2> QED BY <1>1, <1>7, <2>2 DEF Leave
<1> QED BY <1>6, <1>7

\* The entries that can still be advised.
Kept(x) == ToSet(x.small) \union ToSet(x.main)

\* The sizes and the ghost set are those of the queues.
S3Good(x) ==
  /\ x \in Evicting
  /\ x.smallSize = Len(x.small) /\ x.mainSize = Len(x.main) /\ x.totalSize = Len(x.small) + Len(x.main)
  /\ x.ghostSet = ToSet(x.ghost)
  /\ \A e \in Entries : x.freq[e] # 9 /\ e \notin x.ghostSet => e \in Kept(x)

\* When no advised entry comes back, each entry is in one queue, once; of those of T
\* the others are advised, and the ghosts of G and they are all the ghosts.
S3Once(x, T, G) ==
  /\ Nodes(x.small, ToSet(x.small)) /\ Nodes(x.main, ToSet(x.main))
  /\ ToSet(x.small) \intersect ToSet(x.main) = {}
  /\ \A e \in Entries : x.freq[e] # 9 <=> e \in Kept(x)
  /\ Kept(x) \subseteq T /\ Nodes(x.advice, T \ Kept(x))
  /\ x.ghostSet \subseteq G \union ToSet(x.advice)

\* The parts of a state.
LEMMA EvictingIs ==
  ASSUME NEW x \in Evicting
  PROVE  /\ x.small \in Seq(Entries) /\ x.main \in Seq(Entries) /\ x.ghost \in Seq(Entries)
         /\ x.ghostSet \in SUBSET Entries /\ x.freq \in [Entries -> Freqs]
         /\ x.smallSize \in Nat /\ x.mainSize \in Nat /\ x.totalSize \in Nat /\ x.advice \in Seq(Entries)
  BY DEF Evicting

\* Setting a frequency.
LEMMA NewFreq ==
  ASSUME NEW f \in [Entries -> Freqs], NEW e \in Entries, NEW v \in Freqs
  PROVE  \E g \in [Entries -> Freqs] : g = [f EXCEPT ![e] = v] /\ \A a \in Entries : g[a] = IF a = e THEN v ELSE f[a]
<1> DEFINE g == [f EXCEPT ![e] = v]
<1>1. g \in [Entries -> Freqs] /\ \A a \in Entries : g[a] = IF a = e THEN v ELSE f[a]
  OBVIOUS
<1> HIDE DEF g
<1>2. \E h \in [Entries -> Freqs] : h = g /\ \A a \in Entries : h[a] = IF a = e THEN v ELSE f[a]
  BY <1>1
<1> QED BY <1>2 DEF g

\* An entry that is advised next joins the victims.
LEMMA NextVictim ==
  ASSUME NEW adv, NEW own, Nodes(adv, own), NEW e \in Entries, e \notin own, NEW new, new = Append(adv, e),
         NEW more, more = own \union {e}
  PROVE  Nodes(new, more) /\ ToSet(new) = ToSet(adv) \union {e}
<1>1. Nodes(new, more)
  BY BackNodes
<1>2. ToSet(adv) = own /\ ToSet(new) = more
  BY <1>1, NodesSet
<1> QED BY <1>1, <1>2

\* A turn of evict_from_small takes an entry out of small, and keeps the structures.
LEMMA TurnSmallKeeps ==
  ASSUME NEW x, S3Good(x), x.small # <<>>, NEW y, y = S3!TurnSmall(x), NEW T, NEW G
  PROVE  /\ S3Good(y) /\ Len(y.small) = Len(x.small) - 1
         /\ y.advice = x.advice \/ Len(y.advice) = Len(x.advice) + 1
         /\ S3Once(x, T, G) => S3Once(y, T, G)
<1>1. x \in Evicting
  BY DEF S3Good
<1>2. /\ x.small \in Seq(Entries) /\ x.main \in Seq(Entries) /\ x.ghost \in Seq(Entries)
      /\ x.ghostSet \in SUBSET Entries /\ x.freq \in [Entries -> Freqs]
      /\ x.smallSize \in Nat /\ x.mainSize \in Nat /\ x.totalSize \in Nat /\ x.advice \in Seq(Entries)
  BY <1>1, EvictingIs
<1>3. PICK e : e = x.small[Len(x.small)]
  OBVIOUS
<1>4. PICK t : t = Butlast(x.small)
  OBVIOUS
<1>5. /\ e \in Entries /\ t \in Seq(Entries) /\ Len(x.small) \in Nat \ {0} /\ Len(t) = Len(x.small) - 1
      /\ ToSet(x.small) = ToSet(t) \union {e}
      /\ Nodes(x.small, ToSet(x.small)) => Nodes(t, ToSet(t)) /\ ToSet(t) = ToSet(x.small) \ {e}
  BY <1>2, <1>3, <1>4, PopBack
<1>6. /\ x.smallSize = Len(x.small) /\ x.mainSize = Len(x.main) /\ x.totalSize = Len(x.small) + Len(x.main)
      /\ x.ghostSet = ToSet(x.ghost) /\ Len(x.main) \in Nat
      /\ \A a \in Entries : x.freq[a] # 9 /\ a \notin x.ghostSet => a \in ToSet(x.small) \union ToSet(x.main)
  BY <1>2 DEF S3Good, Kept
<1>7. CASE x.freq[e] \in 2 .. 3
  <2>1. y = Promote(x, e)
    BY <1>1, <1>3, <1>7, TurnSmallIs
  <2>2. PICK m : m = <<e>> \o x.main
    OBVIOUS
  <2>3. /\ m \in Seq(Entries) /\ Len(m) = Len(x.main) + 1 /\ ToSet(m) = ToSet(x.main) \union {e}
        /\ Nodes(x.main, ToSet(x.main)) /\ e \notin ToSet(x.main) => Nodes(m, ToSet(m))
    BY <1>2, <1>5, <2>2, PushedEntry
  <2>4. PICK f \in [Entries -> Freqs] :
          f = [x.freq EXCEPT ![e] = 0] /\ \A a \in Entries : f[a] = IF a = e THEN 0 ELSE x.freq[a]
    <3>1. PICK v \in Freqs : v = 0
      BY DEF Freqs
    <3>2. PICK h : h = x.freq
      OBVIOUS
    <3>3. h \in [Entries -> Freqs] /\ e \in Entries
      BY <1>2, <1>5, <3>2
    <3>4. \E g \in [Entries -> Freqs] : g = [h EXCEPT ![e] = v] /\ \A a \in Entries : g[a] = IF a = e THEN v ELSE h[a]
      BY <3>3, NewFreq
    <3> QED BY <3>1, <3>2, <3>4
  <2>5. y = [small |-> t, main |-> m, ghost |-> x.ghost, ghostSet |-> x.ghostSet, freq |-> f,
             smallSize |-> x.smallSize - 1, mainSize |-> x.mainSize + 1, totalSize |-> x.totalSize, advice |-> x.advice]
    BY <1>4, <2>1, <2>2, <2>4 DEF Promote
  <2>6. /\ y.small = t /\ y.main = m /\ y.ghost = x.ghost /\ y.ghostSet = x.ghostSet /\ y.freq = f
        /\ y.smallSize = x.smallSize - 1 /\ y.mainSize = x.mainSize + 1 /\ y.totalSize = x.totalSize /\ y.advice = x.advice
    BY <2>5
  <2>7. y \in Evicting
    <3>1. x.smallSize - 1 \in Nat /\ x.mainSize + 1 \in Nat
      BY <1>2, <1>5, <1>6
    <3> QED BY <1>2, <1>5, <2>3, <2>4, <2>5, <3>1 DEF Evicting
  <2>8. Kept(y) = Kept(x)
    BY <1>5, <2>3, <2>6 DEF Kept
  <2>9. \A a \in Entries : f[a] # 9 <=> x.freq[a] # 9
    BY <1>2, <1>5, <1>7, <2>4
  <2>10. S3Good(y)
    <3>1. y.smallSize = Len(t) /\ y.mainSize = Len(m) /\ y.totalSize = Len(t) + Len(m)
      <4>1. PICK i \in Nat, j \in Nat : i = Len(x.small) /\ j = Len(x.main)
        BY <1>5, <1>6
      <4>2. Len(t) = i - 1 /\ Len(m) = j + 1 /\ y.smallSize = i - 1 /\ y.mainSize = j + 1 /\ y.totalSize = i + j
        BY <1>5, <1>6, <2>3, <2>6, <4>1
      <4> QED BY <4>2
    <3>2. \A a \in Entries : y.freq[a] # 9 /\ a \notin y.ghostSet => a \in Kept(y)
      BY <2>6, <2>8, <2>9 DEF S3Good
    <3> QED BY <1>6, <2>6, <2>7, <3>1, <3>2 DEF S3Good
  <2>11. ASSUME S3Once(x, T, G) PROVE S3Once(y, T, G)
    <3>1. Nodes(t, ToSet(t)) /\ ToSet(t) = ToSet(x.small) \ {e}
      BY <1>5, <2>11 DEF S3Once
    <3>2. e \notin ToSet(x.main) /\ Nodes(m, ToSet(m))
      BY <1>5, <2>3, <2>11 DEF S3Once
    <3>3. ToSet(t) \intersect ToSet(m) = {}
      BY <2>3, <2>11, <3>1 DEF S3Once
    <3>4. \A a \in Entries : y.freq[a] # 9 <=> a \in Kept(y)
      BY <2>6, <2>8, <2>9, <2>11 DEF S3Once
    <3> QED BY <2>6, <2>8, <2>11, <3>1, <3>2, <3>3, <3>4 DEF S3Once
  <2> QED BY <1>5, <2>6, <2>10, <2>11
<1>8. CASE x.freq[e] \notin 2 .. 3
  <2>1. y = Demote(x, e)
    BY <1>1, <1>3, <1>8, TurnSmallIs
  <2>2. PICK m : m = <<e>> \o x.ghost
    OBVIOUS
  <2>3. m \in Seq(Entries) /\ ToSet(m) = ToSet(x.ghost) \union {e}
    BY <1>2, <1>5, <2>2, PushedEntry
  <2>4. PICK f \in [Entries -> Freqs] :
          f = [x.freq EXCEPT ![e] = 9] /\ \A a \in Entries : f[a] = IF a = e THEN 9 ELSE x.freq[a]
    <3>1. PICK v \in Freqs : v = 9
      BY DEF Freqs
    <3>2. PICK h : h = x.freq
      OBVIOUS
    <3>3. h \in [Entries -> Freqs] /\ e \in Entries
      BY <1>2, <1>5, <3>2
    <3>4. \E g \in [Entries -> Freqs] : g = [h EXCEPT ![e] = v] /\ \A a \in Entries : g[a] = IF a = e THEN v ELSE h[a]
      BY <3>3, NewFreq
    <3> QED BY <3>1, <3>2, <3>4
  <2>5. PICK adv \in Seq(Entries) : adv = Append(x.advice, e) /\ Len(adv) = Len(x.advice) + 1
    <3>1. PICK a \in Seq(Entries) : a = x.advice
      BY <1>2
    <3>2. Append(a, e) \in Seq(Entries) /\ Len(Append(a, e)) = Len(a) + 1
      BY <1>5, <3>1, AppendProperties
    <3> QED BY <3>1, <3>2
  <2>6. y = [small |-> t, main |-> x.main, ghost |-> m, ghostSet |-> x.ghostSet \union {e}, freq |-> f,
             smallSize |-> x.smallSize - 1, mainSize |-> x.mainSize, totalSize |-> x.totalSize - 1, advice |-> adv]
    BY <1>4, <2>1, <2>2, <2>4, <2>5 DEF Demote
  <2>7. /\ y.small = t /\ y.main = x.main /\ y.ghost = m /\ y.ghostSet = x.ghostSet \union {e} /\ y.freq = f
        /\ y.smallSize = x.smallSize - 1 /\ y.mainSize = x.mainSize /\ y.totalSize = x.totalSize - 1 /\ y.advice = adv
    BY <2>6
  <2>8. y \in Evicting
    <3>1. x.smallSize - 1 \in Nat /\ x.totalSize - 1 \in Nat 
      <4>1. PICK i \in Nat, j \in Nat : i = Len(x.small) /\ j = Len(x.main) /\ i # 0
        BY <1>5, <1>6
      <4>2. x.smallSize = i /\ x.totalSize = i + j
        BY <1>6, <4>1
      <4>3. i # 0
        BY <4>1
      <4>4. i - 1 \in Nat /\ (i + j) - 1 \in Nat
        BY <4>3
      <4> QED BY <4>2, <4>4
    <3>2. x.ghostSet \union {e} \in SUBSET Entries
      BY <1>2, <1>5
    <3> QED BY <1>2, <1>5, <2>3, <2>4, <2>5, <2>6, <3>1, <3>2 DEF Evicting
  <2>9. Kept(x) = Kept(y) \union {e} /\ e \in Kept(x)
    BY <1>5, <2>7 DEF Kept
  <2>10. \A a \in Entries : f[a] # 9 <=> x.freq[a] # 9 /\ a # e
    BY <1>2, <1>5, <2>4
  <2>11. S3Good(y)
    <3>1. y.smallSize = Len(t) /\ y.mainSize = Len(x.main) /\ y.totalSize = Len(t) + Len(x.main)
      BY <1>5, <1>6, <2>7
    <3>2. \A a \in Entries : y.freq[a] # 9 /\ a \notin y.ghostSet => a \in Kept(y)
      BY <2>7, <2>9, <2>10 DEF S3Good
    <3>3. y.ghostSet = ToSet(m)
      BY <1>6, <2>3, <2>7
    <3> QED BY <2>7, <2>8, <3>1, <3>2, <3>3 DEF S3Good
  <2>12. ASSUME S3Once(x, T, G) PROVE S3Once(y, T, G)
    <3>1. Nodes(t, ToSet(t)) /\ ToSet(t) = ToSet(x.small) \ {e}
      BY <1>5, <2>12 DEF S3Once
    <3>2. e \notin ToSet(x.main)
      BY <1>5, <2>12 DEF S3Once
    <3>3. ToSet(t) \intersect ToSet(x.main) = {} /\ Kept(y) = Kept(x) \ {e}
      BY <2>7, <2>12, <3>1, <3>2 DEF S3Once, Kept
    <3>4. \A a \in Entries : y.freq[a] # 9 <=> a \in Kept(y)
      BY <2>7, <2>10, <2>12, <3>3 DEF S3Once
    <3>5. PICK K : K = Kept(x)
      OBVIOUS
    <3>6. Nodes(adv, T \ (K \ {e})) /\ ToSet(adv) = ToSet(x.advice) \union {e}
      <4>1. Nodes(x.advice, T \ K) /\ K \subseteq T /\ e \in K
        BY <2>9, <2>12, <3>5 DEF S3Once
      <4>2. PICK old : old = x.advice
        OBVIOUS
      <4>3. Nodes(old, T \ K) /\ adv = Append(old, e) /\ e \in Entries
        BY <1>5, <2>5, <4>1, <4>2
      <4>4. PICK own, more : own = T \ K /\ more = T \ (K \ {e})
        OBVIOUS
      <4>5. Nodes(old, own) /\ e \notin own /\ more = own \union {e}
        BY <4>1, <4>3, <4>4
      <4>6. Nodes(adv, more) /\ ToSet(adv) = ToSet(old) \union {e}
        BY <4>3, <4>5, NextVictim
      <4> QED BY <4>2, <4>4, <4>6
    <3>7. Kept(y) \subseteq T /\ Nodes(y.advice, T \ Kept(y))
      BY <2>7, <2>12, <3>3, <3>5, <3>6 DEF S3Once
    <3>8. y.ghostSet \subseteq G \union ToSet(y.advice)
      BY <2>7, <2>12, <3>6 DEF S3Once
    <3>9. Nodes(y.small, ToSet(y.small)) /\ Nodes(y.main, ToSet(y.main)) /\ ToSet(y.small) \intersect ToSet(y.main) = {}
      BY <2>7, <2>12, <3>1, <3>3 DEF S3Once
    <3> QED BY <3>4, <3>7, <3>8, <3>9 DEF S3Once
  <2> QED BY <1>5, <2>5, <2>7, <2>11, <2>12
<1> QED BY <1>7, <1>8

\* The frequencies that evict_from_main can still lower.
FreqOf(x) == [e \in Entries |-> IF x.freq[e] = 9 THEN 0 ELSE x.freq[e]]
FreqSum(x) == Total(FreqOf(x))

\* They are at most three for each entry, and lowering one lowers the sum.
LEMMA SumLowered ==
  ASSUME NEW x \in Evicting
  PROVE  /\ FreqSum(x) \in Nat /\ FreqSum(x) <= 3 * Cardinality(Entries) /\ Cardinality(Entries) \in Nat
         /\ \A e \in Entries, y \in Evicting : x.freq[e] \in 1 .. 3 /\ y.freq = [x.freq EXCEPT ![e] = x.freq[e] - 1] =>
              FreqSum(y) = FreqSum(x) - 1
<1>1. x.freq \in [Entries -> Freqs] /\ IsFiniteSet(Entries)
  BY EvictingIs, PolicyAssumption
<1>2. PICK f \in [Entries -> Nat] : f = FreqOf(x) /\ \A e \in Entries : f[e] \in 0 .. 3
  <2>1. \A e \in Entries : FreqOf(x)[e] \in 0 .. 3
    BY <1>1 DEF FreqOf, Freqs
  <2>2. FreqOf(x) \in [Entries -> Nat]
    BY <1>1 DEF FreqOf, Freqs
  <2> QED BY <2>1, <2>2
<1>3. Cardinality(Entries) \in Nat
  BY <1>1, FS_CardinalityType
<1>4. IsFiniteSet(1 .. 3) /\ Cardinality(1 .. 3) = 3
  <2>1. PICK a \in Int, b \in Int : a = 1 /\ b = 3
    OBVIOUS
  <2>2. a <= b + 1 /\ b - a + 1 = 3
    BY <2>1
  <2>3. IsFiniteSet(a .. b) /\ Cardinality(a .. b) = b - a + 1
    BY <2>2, IntervalSize
  <2> QED BY <2>1, <2>2, <2>3
<1>5. /\ IsFiniteSet(Entries \X (1 .. 3)) /\ Cardinality(Entries \X (1 .. 3)) = Cardinality(Entries) * 3
  BY <1>1, <1>4, FS_Product
<1>6. DOMAIN f = Entries
  OBVIOUS
<1>7. Units(f, Entries) \subseteq Entries \X (1 .. 3)
  <2> SUFFICES ASSUME NEW e \in Entries PROVE {e} \X (1 .. f[e]) \subseteq Entries \X (1 .. 3)
    BY DEF Units
  <2>1. f[e] \in 0 .. 3
    BY <1>2
  <2> QED BY <2>1
<1>8. Total(f) = Cardinality(Units(f, Entries))
  BY <1>6 DEF Total
<1>9. Total(f) \in Nat /\ Total(f) <= Cardinality(Entries) * 3
  <2>1. IsFiniteSet(Units(f, Entries)) /\ Cardinality(Units(f, Entries)) <= Cardinality(Entries \X (1 .. 3))
    BY <1>5, <1>7, FS_Subset
  <2>2. Cardinality(Units(f, Entries)) \in Nat
    BY <2>1, FS_CardinalityType
  <2> QED BY <1>5, <1>8, <2>1, <2>2
<1>10. ASSUME NEW e \in Entries, NEW y \in Evicting, x.freq[e] \in 1 .. 3, y.freq = [x.freq EXCEPT ![e] = x.freq[e] - 1]
       PROVE  FreqSum(y) = FreqSum(x) - 1
  <2>1. f[e] = x.freq[e] /\ f[e] \in 1 .. 3
    BY <1>2, <1>10 DEF FreqOf
  <2>2. FreqOf(y) = [f EXCEPT ![e] = f[e] - 1]
    BY <1>1, <1>2, <1>10, <2>1 DEF FreqOf
  <2>3. PICK v \in Nat : v = f[e] - 1
    BY <2>1
  <2>4. Total(f) \in Nat /\ Total([f EXCEPT ![e] = v]) = Total(f) - f[e] + v
    BY <1>1, TotalUpdate
  <2>5. FreqSum(y) = Total(f) - f[e] + v
    BY <2>2, <2>3, <2>4 DEF FreqSum
  <2>6. Total(f) - f[e] + v = Total(f) - 1
    BY <2>1, <2>3, <2>4
  <2> QED BY <1>2, <2>5, <2>6 DEF FreqSum
<1>11. FreqSum(x) = Total(f)
  BY <1>2 DEF FreqSum
<1> QED BY <1>3, <1>9, <1>10, <1>11

\* A turn of evict_from_main lowers a frequency or finds a victim, and keeps the structures.
LEMMA TurnMainKeeps ==
  ASSUME NEW x, S3Good(x), x.main # <<>>, NEW y, y = S3!TurnMain(x), NEW T, NEW G
  PROVE  /\ S3Good(y) /\ y.small = x.small
         /\ \/ y.advice = x.advice /\ y.main # <<>> /\ FreqSum(y) = FreqSum(x) - 1
            \/ Len(y.advice) = Len(x.advice) + 1
         /\ S3Once(x, T, G) => S3Once(y, T, G)
<1>1. x \in Evicting
  BY DEF S3Good
<1>2. /\ x.small \in Seq(Entries) /\ x.main \in Seq(Entries) /\ x.ghost \in Seq(Entries)
      /\ x.ghostSet \in SUBSET Entries /\ x.freq \in [Entries -> Freqs]
      /\ x.smallSize \in Nat /\ x.mainSize \in Nat /\ x.totalSize \in Nat /\ x.advice \in Seq(Entries)
  BY <1>1, EvictingIs
<1>3. PICK e : e = x.main[Len(x.main)]
  OBVIOUS
<1>4. PICK t : t = Butlast(x.main)
  OBVIOUS
<1>5. /\ e \in Entries /\ t \in Seq(Entries) /\ Len(x.main) \in Nat \ {0} /\ Len(t) = Len(x.main) - 1
      /\ ToSet(x.main) = ToSet(t) \union {e}
      /\ Nodes(x.main, ToSet(x.main)) => Nodes(t, ToSet(t)) /\ ToSet(t) = ToSet(x.main) \ {e}
  BY <1>2, <1>3, <1>4, PopBack
<1>6. /\ x.smallSize = Len(x.small) /\ x.mainSize = Len(x.main) /\ x.totalSize = Len(x.small) + Len(x.main)
      /\ x.ghostSet = ToSet(x.ghost) /\ Len(x.small) \in Nat
  BY <1>2 DEF S3Good
<1>7. CASE x.freq[e] \in 1 .. 3
  <2>1. y = Again(x, e)
    BY <1>1, <1>3, <1>7, TurnMainIs
  <2>2. PICK m : m = <<e>> \o t
    OBVIOUS
  <2>3. /\ m \in Seq(Entries) /\ Len(m) = Len(t) + 1 /\ ToSet(m) = ToSet(t) \union {e}
        /\ Nodes(t, ToSet(t)) /\ e \notin ToSet(t) => Nodes(m, ToSet(m))
    BY <1>5, <2>2, PushedEntry
  <2>4. Len(m) = Len(x.main) /\ ToSet(m) = ToSet(x.main) /\ m # <<>>
    <3>1. PICK i \in Nat : i = Len(x.main) /\ i # 0
      BY <1>5
    <3>2. Len(m) = i
      BY <1>5, <2>3, <3>1
    <3> QED BY <1>5, <2>3, <3>1, <3>2
  <2>5. PICK f \in [Entries -> Freqs] :
          /\ f = [x.freq EXCEPT ![e] = x.freq[e] - 1]
          /\ \A a \in Entries : f[a] = IF a = e THEN x.freq[e] - 1 ELSE x.freq[a]
    <3>1. PICK v \in Freqs : v = x.freq[e] - 1
      BY <1>7 DEF Freqs
    <3>2. PICK h : h = x.freq
      OBVIOUS
    <3>3. h \in [Entries -> Freqs] /\ e \in Entries
      BY <1>2, <1>5, <3>2
    <3>4. \E g \in [Entries -> Freqs] : g = [h EXCEPT ![e] = v] /\ \A a \in Entries : g[a] = IF a = e THEN v ELSE h[a]
      BY <3>3, NewFreq
    <3> QED BY <3>1, <3>2, <3>4
  <2>6. y = [small |-> x.small, main |-> m, ghost |-> x.ghost, ghostSet |-> x.ghostSet, freq |-> f,
             smallSize |-> x.smallSize, mainSize |-> x.mainSize, totalSize |-> x.totalSize, advice |-> x.advice]
    BY <1>4, <2>1, <2>2, <2>5 DEF Again
  <2>7. /\ y.small = x.small /\ y.main = m /\ y.ghost = x.ghost /\ y.ghostSet = x.ghostSet /\ y.freq = f
        /\ y.smallSize = x.smallSize /\ y.mainSize = x.mainSize /\ y.totalSize = x.totalSize /\ y.advice = x.advice
    BY <2>6
  <2>8. y \in Evicting
    BY <1>2, <2>3, <2>5, <2>6 DEF Evicting
  <2>9. Kept(y) = Kept(x)
    BY <2>4, <2>7 DEF Kept
  <2>10. \A a \in Entries : f[a] # 9 <=> x.freq[a] # 9
    <3>1. x.freq[e] # 9 /\ x.freq[e] - 1 # 9
      BY <1>7
    <3> QED BY <2>5, <3>1
  <2>11. S3Good(y)
    <3>1. y.smallSize = Len(y.small) /\ y.mainSize = Len(y.main) /\ y.totalSize = Len(y.small) + Len(y.main)
      BY <1>6, <2>4, <2>7
    <3>2. \A a \in Entries : y.freq[a] # 9 /\ a \notin y.ghostSet => a \in Kept(y)
      BY <2>7, <2>9, <2>10 DEF S3Good
    <3> QED BY <1>6, <2>7, <2>8, <3>1, <3>2 DEF S3Good
  <2>12. ASSUME S3Once(x, T, G) PROVE S3Once(y, T, G)
    <3>1. Nodes(t, ToSet(t)) /\ e \notin ToSet(t)
      BY <1>5, <2>12 DEF S3Once
    <3>2. Nodes(m, ToSet(m))
      BY <2>3, <3>1
    <3>3. ToSet(x.small) \intersect ToSet(m) = {}
      BY <2>4, <2>12 DEF S3Once
    <3>4. \A a \in Entries : y.freq[a] # 9 <=> a \in Kept(y)
      BY <2>7, <2>9, <2>10, <2>12 DEF S3Once
    <3> QED BY <2>7, <2>9, <2>12, <3>2, <3>3, <3>4 DEF S3Once
  <2>13. FreqSum(y) = FreqSum(x) - 1
    BY <1>1, <1>5, <1>7, <2>5, <2>7, <2>8, SumLowered
  <2> QED BY <2>4, <2>7, <2>11, <2>12, <2>13
<1>8. CASE x.freq[e] \notin 1 .. 3
  <2>1. y = Leave(x, e)
    BY <1>1, <1>3, <1>8, TurnMainIs
  <2>4. PICK f \in [Entries -> Freqs] :
          f = [x.freq EXCEPT ![e] = 9] /\ \A a \in Entries : f[a] = IF a = e THEN 9 ELSE x.freq[a]
    <3>1. PICK v \in Freqs : v = 9
      BY DEF Freqs
    <3>2. PICK h : h = x.freq
      OBVIOUS
    <3>3. h \in [Entries -> Freqs] /\ e \in Entries
      BY <1>2, <1>5, <3>2
    <3>4. \E g \in [Entries -> Freqs] : g = [h EXCEPT ![e] = v] /\ \A a \in Entries : g[a] = IF a = e THEN v ELSE h[a]
      BY <3>3, NewFreq
    <3> QED BY <3>1, <3>2, <3>4
  <2>5. PICK adv \in Seq(Entries) : adv = Append(x.advice, e) /\ Len(adv) = Len(x.advice) + 1
    <3>1. PICK a \in Seq(Entries) : a = x.advice
      BY <1>2
    <3>2. Append(a, e) \in Seq(Entries) /\ Len(Append(a, e)) = Len(a) + 1
      BY <1>5, <3>1, AppendProperties
    <3> QED BY <3>1, <3>2
  <2>6. y = [small |-> x.small, main |-> t, ghost |-> x.ghost, ghostSet |-> x.ghostSet, freq |-> f,
             smallSize |-> x.smallSize, mainSize |-> x.mainSize - 1, totalSize |-> x.totalSize - 1, advice |-> adv]
    BY <1>4, <2>1, <2>4, <2>5 DEF Leave
  <2>7. /\ y.small = x.small /\ y.main = t /\ y.ghost = x.ghost /\ y.ghostSet = x.ghostSet /\ y.freq = f
        /\ y.smallSize = x.smallSize /\ y.mainSize = x.mainSize - 1 /\ y.totalSize = x.totalSize - 1 /\ y.advice = adv
    BY <2>6
  <2>8. /\ y \in Evicting
        /\ y.smallSize = Len(y.small) /\ y.mainSize = Len(y.main) /\ y.totalSize = Len(y.small) + Len(y.main)
    <3>1. PICK i \in Nat, j \in Nat : i = Len(x.small) /\ j = Len(x.main)
      BY <1>5, <1>6
    <3>2. j # 0
      BY <1>5, <3>1
    <3>3. j - 1 \in Nat /\ (i + j) - 1 \in Nat /\ (i + j) - 1 = i + (j - 1)
      BY <3>2
    <3>4. x.smallSize = i /\ x.mainSize = j /\ x.totalSize = i + j /\ Len(t) = j - 1
      BY <1>5, <1>6, <3>1
    <3>5. x.mainSize - 1 \in Nat /\ x.totalSize - 1 \in Nat
      BY <3>3, <3>4
    <3>6. y \in Evicting
      BY <1>2, <1>5, <2>4, <2>5, <2>6, <3>5 DEF Evicting
    <3> QED BY <2>7, <3>1, <3>3, <3>4, <3>6
  <2>9. Kept(x) = Kept(y) \union {e} /\ e \in Kept(x)
    BY <1>5, <2>7 DEF Kept
  <2>10. \A a \in Entries : f[a] # 9 <=> x.freq[a] # 9 /\ a # e
    BY <1>2, <1>5, <2>4
  <2>11. S3Good(y)
    <3>1. \A a \in Entries : y.freq[a] # 9 /\ a \notin y.ghostSet => a \in Kept(y)
      BY <2>7, <2>9, <2>10 DEF S3Good
    <3> QED BY <1>6, <2>7, <2>8, <3>1 DEF S3Good
  <2>12. ASSUME S3Once(x, T, G) PROVE S3Once(y, T, G)
    <3>1. Nodes(t, ToSet(t)) /\ ToSet(t) = ToSet(x.main) \ {e}
      BY <1>5, <2>12 DEF S3Once
    <3>2. e \notin ToSet(x.small)
      BY <1>5, <2>12 DEF S3Once
    <3>3. ToSet(x.small) \intersect ToSet(t) = {} /\ Kept(y) = Kept(x) \ {e}
      BY <2>7, <2>12, <3>1, <3>2 DEF S3Once, Kept
    <3>4. \A a \in Entries : y.freq[a] # 9 <=> a \in Kept(y)
      BY <2>7, <2>10, <2>12, <3>3 DEF S3Once
    <3>5. PICK K : K = Kept(x)
      OBVIOUS
    <3>6. Nodes(adv, T \ (K \ {e})) /\ ToSet(adv) = ToSet(x.advice) \union {e}
      <4>1. Nodes(x.advice, T \ K) /\ K \subseteq T /\ e \in K
        BY <2>9, <2>12, <3>5 DEF S3Once
      <4>2. PICK old : old = x.advice
        OBVIOUS
      <4>3. Nodes(old, T \ K) /\ adv = Append(old, e) /\ e \in Entries
        BY <1>5, <2>5, <4>1, <4>2
      <4>4. PICK own, more : own = T \ K /\ more = T \ (K \ {e})
        OBVIOUS
      <4>5. Nodes(old, own) /\ e \notin own /\ more = own \union {e}
        BY <4>1, <4>3, <4>4
      <4>6. Nodes(adv, more) /\ ToSet(adv) = ToSet(old) \union {e}
        BY <4>3, <4>5, NextVictim
      <4> QED BY <4>2, <4>4, <4>6
    <3>7. Kept(y) \subseteq T /\ Nodes(y.advice, T \ Kept(y))
      BY <2>7, <2>12, <3>3, <3>5, <3>6 DEF S3Once
    <3>8. y.ghostSet \subseteq G \union ToSet(y.advice)
      BY <2>7, <2>12, <3>6 DEF S3Once
    <3>9. Nodes(y.small, ToSet(y.small)) /\ Nodes(y.main, ToSet(y.main)) /\ ToSet(y.small) \intersect ToSet(y.main) = {}
      BY <2>7, <2>12, <3>1, <3>3 DEF S3Once
    <3> QED BY <3>4, <3>7, <3>8, <3>9 DEF S3Once
  <2> QED BY <2>5, <2>7, <2>11, <2>12
<1> QED BY <1>7, <1>8

-----------------------------------------------------------------------------
(* S3-FIFO: the loops end                                                  *)

\* The inner loop of evict_from_small.
LEMMA SmallRuns ==
  ASSUME NEW S, NEW s \in S, NEW n \in Nat, n = Len(s.small),
         \A x \in S : x.small # <<>> /\ x.advice = s.advice => S3!TurnSmall(x) \in S
  PROVE  \E after : /\ \A k \in 0 .. n : after[k] \in S
                    /\ after[0] = s
                    /\ \A k \in 1 .. n : after[k] = IF after[k - 1].small = <<>> \/ after[k - 1].advice # s.advice
                                                    THEN after[k - 1] ELSE S3!TurnSmall(after[k - 1])
                    /\ S3!EvictSmall(s) = after[n]
<1> DEFINE Op(x) == IF x.small = <<>> \/ x.advice # s.advice THEN x ELSE S3!TurnSmall(x)
           Eq(g) == g = [k \in 0 .. n |-> IF k = 0 THEN s ELSE Op(g[k - 1])]
           after == CHOOSE g : Eq(g)
<1>1. \A x \in S : Op(x) \in S
  OBVIOUS
<1>2. S3!EvictSmall(s) = after[n]
  BY DEF S3!EvictSmall
<1> HIDE DEF Op
<1>2a. PICK step \in [S -> S] : \A x \in S : step[x] = Op(x)
  <2>1. [x \in S |-> Op(x)] \in [S -> S] /\ \A x \in S : [z \in S |-> Op(z)][x] = Op(x)
    BY <1>1
  <2> QED BY <2>1
<1>3. PICK f : IsLoop(f, n, S, s, step)
  BY LoopExists
<1>4. Eq(f)
  <2>1. f \in [0 .. n -> S] /\ f[0] = s /\ \A k \in 1 .. n : f[k - 1] \in S /\ f[k] = step[f[k - 1]]
    BY <1>3 DEF IsLoop
  <2>2. \A k \in 1 .. n : f[k] = Op(f[k - 1])
    BY <1>2a, <2>1
  <2>3. \A k \in 0 .. n : f[k] = IF k = 0 THEN s ELSE Op(f[k - 1])
    <3>1. \A k \in 0 .. n : k = 0 \/ k \in 1 .. n
      OBVIOUS
    <3> QED BY <2>1, <2>2, <3>1
  <2> QED BY <2>1, <2>3
<1>5. Eq(after)
  BY <1>4
<1> HIDE DEF after
<1>6. after[0] = s /\ \A k \in 1 .. n : after[k] = Op(after[k - 1])
  <2>1. \A k \in 0 .. n : after[k] = IF k = 0 THEN s ELSE Op(after[k - 1])
    BY <1>5
  <2>2. 0 \in 0 .. n /\ \A k \in 1 .. n : k \in 0 .. n /\ k # 0
    OBVIOUS
  <2> QED BY <2>1, <2>2
<1>7. \A k \in 0 .. n : after[k] \in S
  <2>1. after[0] \in S /\ \A k \in 1 .. n : after[k - 1] \in S => after[k] \in S
    BY <1>1, <1>6
  <2> QED BY <2>1, LoopStays
<1> QED BY <1>2, <1>6, <1>7 DEF Op

\* The inner loop of evict_from_main.
LEMMA MainRuns ==
  ASSUME NEW S, NEW s \in S, NEW n \in Nat, n = 3 * Cardinality(Entries) + 1,
         \A x \in S : x.main # <<>> /\ x.advice = s.advice => S3!TurnMain(x) \in S
  PROVE  \E after : /\ \A k \in 0 .. n : after[k] \in S
                    /\ after[0] = s
                    /\ \A k \in 1 .. n : after[k] = IF after[k - 1].main = <<>> \/ after[k - 1].advice # s.advice
                                                    THEN after[k - 1] ELSE S3!TurnMain(after[k - 1])
                    /\ S3!EvictMain(s) = after[n]
<1> DEFINE Op(x) == IF x.main = <<>> \/ x.advice # s.advice THEN x ELSE S3!TurnMain(x)
           Eq(g) == g = [k \in 0 .. n |-> IF k = 0 THEN s ELSE Op(g[k - 1])]
           after == CHOOSE g : Eq(g)
<1>1. \A x \in S : Op(x) \in S
  OBVIOUS
<1>2. S3!EvictMain(s) = after[n]
  <2>1. S3!MaxFreq * S3!Cardinality(Entries) + 1 = n
    BY SameOperators DEF S3!MaxFreq
  <2> QED BY <2>1 DEF S3!EvictMain
<1> HIDE DEF Op
<1>2a. PICK step \in [S -> S] : \A x \in S : step[x] = Op(x)
  <2>1. [x \in S |-> Op(x)] \in [S -> S] /\ \A x \in S : [z \in S |-> Op(z)][x] = Op(x)
    BY <1>1
  <2> QED BY <2>1
<1>3. PICK f : IsLoop(f, n, S, s, step)
  BY LoopExists
<1>4. Eq(f)
  <2>1. f \in [0 .. n -> S] /\ f[0] = s /\ \A k \in 1 .. n : f[k - 1] \in S /\ f[k] = step[f[k - 1]]
    BY <1>3 DEF IsLoop
  <2>2. \A k \in 1 .. n : f[k] = Op(f[k - 1])
    BY <1>2a, <2>1
  <2>3. \A k \in 0 .. n : f[k] = IF k = 0 THEN s ELSE Op(f[k - 1])
    <3>1. \A k \in 0 .. n : k = 0 \/ k \in 1 .. n
      OBVIOUS
    <3> QED BY <2>1, <2>2, <3>1
  <2> QED BY <2>1, <2>3
<1>5. Eq(after)
  BY <1>4
<1> HIDE DEF after
<1>6. after[0] = s /\ \A k \in 1 .. n : after[k] = Op(after[k - 1])
  <2>1. \A k \in 0 .. n : after[k] = IF k = 0 THEN s ELSE Op(after[k - 1])
    BY <1>5
  <2>2. 0 \in 0 .. n /\ \A k \in 1 .. n : k \in 0 .. n /\ k # 0
    OBVIOUS
  <2> QED BY <2>1, <2>2
<1>7. \A k \in 0 .. n : after[k] \in S
  <2>1. after[0] \in S /\ \A k \in 1 .. n : after[k - 1] \in S => after[k] \in S
    BY <1>1, <1>6
  <2> QED BY <2>1, LoopStays
<1> QED BY <1>2, <1>6, <1>7 DEF Op

\* The rounds of find_victim of S3-FIFO.
LEMMA RoundsRun ==
  ASSUME NEW S, NEW s \in S, NEW cnt \in Nat, NEW n \in Nat, n = cnt + 1, \A x \in S : S3!Round(x, cnt) \in S
  PROVE  \E after : /\ \A k \in 0 .. n : after[k] \in S
                    /\ after[0] = s /\ \A k \in 1 .. n : after[k] = S3!Round(after[k - 1], cnt)
                    /\ S3!Evict(s, cnt) = after[n]
<1> DEFINE Eq(g) == g = [k \in 0 .. n |-> IF k = 0 THEN s ELSE S3!Round(g[k - 1], cnt)]
           after == CHOOSE g : Eq(g)
<1>1. S3!Evict(s, cnt) = after[n]
  BY DEF S3!Evict
<1>1a. PICK step \in [S -> S] : \A x \in S : step[x] = S3!Round(x, cnt)
  <2>1. [x \in S |-> S3!Round(x, cnt)] \in [S -> S] /\ \A x \in S : [z \in S |-> S3!Round(z, cnt)][x] = S3!Round(x, cnt)
    OBVIOUS
  <2> QED BY <2>1
<1>2. PICK f : IsLoop(f, n, S, s, step)
  BY LoopExists
<1>3. Eq(f)
  <2>1. f \in [0 .. n -> S] /\ f[0] = s /\ \A k \in 1 .. n : f[k - 1] \in S /\ f[k] = step[f[k - 1]]
    BY <1>2 DEF IsLoop
  <2>2. \A k \in 1 .. n : f[k] = S3!Round(f[k - 1], cnt)
    BY <1>1a, <2>1
  <2>3. \A k \in 0 .. n : f[k] = IF k = 0 THEN s ELSE S3!Round(f[k - 1], cnt)
    BY <2>1, <2>2
  <2> QED BY <2>1, <2>3
<1>4. Eq(after)
  BY <1>3
<1> HIDE DEF after
<1>5. after[0] = s /\ \A k \in 1 .. n : after[k] = S3!Round(after[k - 1], cnt)
  BY <1>4
<1>6. \A k \in 0 .. n : after[k] \in S
  <2>1. after[0] \in S /\ \A k \in 1 .. n : after[k - 1] \in S => after[k] \in S
    BY <1>5
  <2> QED BY <2>1, LoopStays
<1> QED BY <1>1, <1>5, <1>6

\* evict_from_small finds a victim, or moves all of small to main.
LEMMA SmallEvicts ==
  ASSUME NEW s, S3Good(s), NEW y, y = S3!EvictSmall(s), NEW T, NEW G
  PROVE  /\ S3Good(y) /\ (S3Once(s, T, G) => S3Once(y, T, G))
         /\ \/ y.advice = s.advice /\ y.small = <<>>
            \/ Len(y.advice) = Len(s.advice) + 1
<1>1. s \in Evicting /\ s.small \in Seq(Entries) /\ s.advice \in Seq(Entries)
  BY EvictingIs DEF S3Good
<1>2. PICK n \in Nat : n = Len(s.small)
  BY <1>1
<1> DEFINE Ok(x) == /\ S3Good(x) /\ (S3Once(s, T, G) => S3Once(x, T, G))
                    /\ x.advice = s.advice \/ Len(x.advice) = Len(s.advice) + 1
           S == {x \in Evicting : Ok(x)}
<1>3. s \in S
  BY <1>1
<1>4. ASSUME NEW x \in S, x.small # <<>>, x.advice = s.advice PROVE S3!TurnSmall(x) \in S
  <2>1. PICK z : z = S3!TurnSmall(x)
    OBVIOUS
  <2>2. /\ S3Good(z) /\ (S3Once(x, T, G) => S3Once(z, T, G))
        /\ z.advice = x.advice \/ Len(z.advice) = Len(x.advice) + 1
    BY <1>4, <2>1, TurnSmallKeeps
  <2>3. Ok(z) /\ z \in Evicting
    BY <1>4, <2>2 DEF S3Good
  <2> QED BY <2>1, <2>3
<1>5. \A x \in S : Ok(x)
  OBVIOUS
<1> HIDE DEF S
<1>6. PICK after :
        /\ \A k \in 0 .. n : after[k] \in S
        /\ after[0] = s
        /\ \A k \in 1 .. n : after[k] = IF after[k - 1].small = <<>> \/ after[k - 1].advice # s.advice
                                        THEN after[k - 1] ELSE S3!TurnSmall(after[k - 1])
        /\ S3!EvictSmall(s) = after[n]
  BY <1>2, <1>3, <1>4, SmallRuns, SMTT(40)
<1>7. \A k \in 0 .. n : Ok(after[k])
  BY <1>5, <1>6
<1> DEFINE Left(k) == after[k].advice # s.advice \/ Len(after[k].small) + k <= n
           P == {k \in Nat : k <= n => Left(k)}
<1>8. 0 \in P
  BY <1>2, <1>6
<1>9. ASSUME NEW k \in P PROVE k + 1 \in P
  <2> SUFFICES ASSUME k + 1 <= n, after[k + 1].advice = s.advice PROVE Len(after[k + 1].small) + (k + 1) <= n
    <3>1. k + 1 \in Nat /\ ((k + 1 <= n => Left(k + 1)) => k + 1 \in P)
      <4> HIDE DEF Left
      <4> QED OBVIOUS
    <3> QED BY <3>1
  <2>1. k \in 0 .. n /\ k + 1 \in 1 .. n /\ (k + 1) - 1 = k
    BY <1>9
  <2>2. PICK x : x = after[k]
    OBVIOUS
  <2>3. after[k + 1] = IF x.small = <<>> \/ x.advice # s.advice THEN x ELSE S3!TurnSmall(x)
    BY <1>6, <2>1, <2>2
  <2>4. S3Good(x) /\ x.small \in Seq(Entries)
    BY <1>7, <2>1, <2>2, EvictingIs DEF S3Good
  <2>5. x.advice = s.advice
    BY <1>4, <2>3
  <2>6. Len(x.small) + k <= n
    BY <1>9, <2>1, <2>2, <2>5
  <2>7. CASE x.small = <<>>
    <3>1. after[k + 1].small = <<>>
      BY <2>3, <2>7
    <3>2. Len(<<>>) = 0
      OBVIOUS
    <3> QED BY <2>1, <3>1, <3>2
  <2>8. CASE x.small # <<>>
    <3>1. after[k + 1] = S3!TurnSmall(x)
      BY <2>3, <2>5, <2>8
    <3>2. Len(after[k + 1].small) = Len(x.small) - 1
      BY <2>4, <2>8, <3>1, TurnSmallKeeps
    <3>3. PICK i \in Nat : i = Len(x.small)
      BY <2>4
    <3>4. i + k <= n /\ Len(after[k + 1].small) = i - 1
      BY <2>6, <3>2, <3>3
    <3>5. (i - 1) + (k + 1) <= n
      BY <1>9, <3>4
    <3> QED BY <3>4, <3>5
  <2> QED BY <2>7, <2>8
<1>10. P = Nat
  <2>1. P \in SUBSET Nat
    OBVIOUS
  <2> HIDE DEF P
  <2> QED BY <2>1, <1>8, <1>9, NumberInduction
<1>11. y = after[n] /\ n \in 0 .. n
  BY <1>6
<1>12. y.advice # s.advice \/ Len(y.small) + n <= n
  <2>1. n \in P
    BY <1>10
  <2> QED BY <1>11, <2>1
<1>13. Ok(y)
  BY <1>7, <1>11
<1>14. ASSUME y.advice = s.advice PROVE y.small = <<>>
  <2>1. y.small \in Seq(Entries)
    BY <1>13, EvictingIs DEF S3Good
  <2>2. PICK i \in Nat : i = Len(y.small)
    BY <2>1
  <2>3. i + n <= n
    BY <1>12, <1>14, <2>2
  <2>4. i = 0
    BY <2>3
  <2>5. Len(y.small) = 0
    BY <2>2, <2>4
  <2> QED BY <2>1, <2>5
<1> QED BY <1>13, <1>14

\* evict_from_main finds a victim, if main is not empty.
LEMMA MainEvicts ==
  ASSUME NEW s, S3Good(s), s.main # <<>>, NEW y, y = S3!EvictMain(s), NEW T, NEW G
  PROVE  /\ S3Good(y) /\ (S3Once(s, T, G) => S3Once(y, T, G))
         /\ y.small = s.small /\ Len(y.advice) = Len(s.advice) + 1
<1>1. s \in Evicting /\ s.advice \in Seq(Entries)
  BY EvictingIs DEF S3Good
<1>2. Cardinality(Entries) \in Nat /\ FreqSum(s) \in Nat /\ FreqSum(s) <= 3 * Cardinality(Entries)
  BY <1>1, SumLowered
<1>3. PICK c \in Nat : c = 3 * Cardinality(Entries) /\ FreqSum(s) <= c
  BY <1>2
<1>4. PICK n \in Nat : n = c + 1 /\ n = 3 * Cardinality(Entries) + 1
  BY <1>3
<1> DEFINE Ok(x) == /\ S3Good(x) /\ (S3Once(s, T, G) => S3Once(x, T, G))
                    /\ x.small = s.small
                    /\ x.advice = s.advice => x.main # <<>>
                    /\ x.advice = s.advice \/ Len(x.advice) = Len(s.advice) + 1
           S == {x \in Evicting : Ok(x)}
<1>5. s \in S
  BY <1>1
<1>6. ASSUME NEW x \in S, x.main # <<>>, x.advice = s.advice PROVE S3!TurnMain(x) \in S
  <2>1. PICK z : z = S3!TurnMain(x)
    OBVIOUS
  <2>2. /\ S3Good(z) /\ (S3Once(x, T, G) => S3Once(z, T, G)) /\ z.small = x.small
        /\ \/ z.advice = x.advice /\ z.main # <<>>
           \/ Len(z.advice) = Len(x.advice) + 1
    BY <1>6, <2>1, TurnMainKeeps
  <2>3. Len(z.advice) = Len(s.advice) + 1 => z.advice # s.advice
    BY <1>1
  <2>4. Ok(z) /\ z \in Evicting
    BY <1>6, <2>2, <2>3 DEF S3Good
  <2> QED BY <2>1, <2>4
<1>7. \A x \in S : Ok(x)
  OBVIOUS
<1> HIDE DEF S
<1>8. PICK after :
        /\ \A k \in 0 .. n : after[k] \in S
        /\ after[0] = s
        /\ \A k \in 1 .. n : after[k] = IF after[k - 1].main = <<>> \/ after[k - 1].advice # s.advice
                                        THEN after[k - 1] ELSE S3!TurnMain(after[k - 1])
        /\ S3!EvictMain(s) = after[n]
  BY <1>4, <1>5, <1>6, MainRuns
<1>9. \A k \in 0 .. n : Ok(after[k])
  BY <1>7, <1>8
<1> DEFINE P == {k \in Nat : k <= n => after[k].advice # s.advice \/ FreqSum(after[k]) + k <= c}
<1>10. 0 \in P
  BY <1>2, <1>3, <1>8
<1>11. ASSUME NEW k \in P PROVE k + 1 \in P
  <2> SUFFICES ASSUME k + 1 <= n, after[k + 1].advice = s.advice PROVE FreqSum(after[k + 1]) + (k + 1) <= c
    OBVIOUS
  <2>1. k \in 0 .. n /\ k + 1 \in 1 .. n /\ (k + 1) - 1 = k
    BY <1>11
  <2>2. PICK x : x = after[k]
    OBVIOUS
  <2>3. after[k + 1] = IF x.main = <<>> \/ x.advice # s.advice THEN x ELSE S3!TurnMain(x)
    BY <1>8, <2>1, <2>2
  <2>4. Ok(x)
    BY <1>9, <2>1, <2>2
  <2>5. x.advice = s.advice
    BY <2>3
  <2>6. after[k + 1] = S3!TurnMain(x) /\ x.main # <<>> /\ S3Good(x)
    BY <2>3, <2>4, <2>5
  <2>7. FreqSum(x) + k <= c
    BY <1>11, <2>1, <2>2, <2>5
  <2>8. FreqSum(x) \in Nat
    BY <2>6, SumLowered DEF S3Good
  <2>9. Len(after[k + 1].advice) # Len(x.advice) + 1
    BY <1>1, <2>5
  <2>10. FreqSum(after[k + 1]) = FreqSum(x) - 1
    BY <2>6, <2>9, TurnMainKeeps
  <2> QED BY <2>1, <2>7, <2>8, <2>10
<1>12. P = Nat
  <2>1. P \in SUBSET Nat
    OBVIOUS
  <2> HIDE DEF P
  <2> QED BY <2>1, <1>10, <1>11, NumberInduction
<1>13. y = after[n] /\ n \in 0 .. n
  BY <1>8
<1>14. y.advice # s.advice \/ FreqSum(y) + n <= c
  <2>1. n \in P
    BY <1>12
  <2> QED BY <1>13, <2>1
<1>15. Ok(y)
  BY <1>9, <1>13
<1>16. FreqSum(y) \in Nat
  BY <1>15, SumLowered DEF S3Good
<1>17. y.advice # s.advice
  BY <1>4, <1>14, <1>16
<1> QED BY <1>15, <1>17

\* Whether find_victim is over, and the rounds that it can still take.
Ended(x, cnt) == Len(x.advice) = cnt \/ x.totalSize = 0
RoundsLeft(x, cnt) == (cnt - Len(x.advice)) + (IF x.small = <<>> THEN 0 ELSE 1)

\* A round of find_victim: unless it is over, there is one round less to go.
LEMMA RoundKeeps ==
  ASSUME NEW x, S3Good(x), NEW cnt \in Nat, Len(x.advice) <= cnt, NEW y, y = S3!Round(x, cnt), NEW T, NEW G
  PROVE  /\ S3Good(y) /\ (S3Once(x, T, G) => S3Once(y, T, G)) /\ Len(y.advice) <= cnt
         /\ IF Ended(x, cnt) THEN y = x ELSE RoundsLeft(y, cnt) <= RoundsLeft(x, cnt) - 1
<1>1. /\ x \in Evicting /\ x.small \in Seq(Entries) /\ x.main \in Seq(Entries) /\ x.advice \in Seq(Entries)
      /\ x.smallSize = Len(x.small) /\ x.totalSize = Len(x.small) + Len(x.main)
  BY EvictingIs DEF S3Good
<1>2. CASE Ended(x, cnt)
  <2>1. y = x
    BY <1>2 DEF Ended, S3!Round
  <2> QED BY <1>2, <2>1
<1>3. CASE ~Ended(x, cnt)
  <2>1. PICK a \in Nat : a = Len(x.advice)
    BY <1>1
  <2>2. a < cnt
    BY <1>3, <2>1 DEF Ended
  <2>3. CASE x.small # <<>> /\ S3!SmallIsLarge(x)
    <3>1. y = S3!EvictSmall(x)
      BY <1>3, <2>3 DEF Ended, S3!Round
    <3>2. /\ S3Good(y) /\ (S3Once(x, T, G) => S3Once(y, T, G))
          /\ (y.advice = x.advice /\ y.small = <<>>) \/ Len(y.advice) = Len(x.advice) + 1
      BY <3>1, SmallEvicts
    <3>3. CASE y.advice = x.advice /\ y.small = <<>>
      <4>1. RoundsLeft(y, cnt) = (cnt - a) + 0 /\ RoundsLeft(x, cnt) = (cnt - a) + 1
        BY <2>1, <2>3, <3>3 DEF RoundsLeft
      <4>2. Len(y.advice) <= cnt /\ (cnt - a) + 0 <= ((cnt - a) + 1) - 1
        BY <2>1, <2>2, <3>3
      <4> QED BY <1>3, <3>2, <4>1, <4>2
    <3>4. CASE Len(y.advice) = Len(x.advice) + 1
      <4>1. PICK v \in 0 .. 1 : RoundsLeft(y, cnt) = (cnt - (a + 1)) + v
        <5>1. PICK v \in 0 .. 1 : v = IF y.small = <<>> THEN 0 ELSE 1
          OBVIOUS
        <5> QED BY <2>1, <3>4, <5>1 DEF RoundsLeft
      <4>2. RoundsLeft(x, cnt) = (cnt - a) + 1
        BY <2>1, <2>3 DEF RoundsLeft
      <4>3. Len(y.advice) <= cnt /\ (cnt - (a + 1)) + v <= ((cnt - a) + 1) - 1
        BY <2>1, <2>2, <3>4
      <4> QED BY <1>3, <3>2, <4>1, <4>2, <4>3
    <3> QED BY <3>2, <3>3, <3>4
  <2>4. CASE ~(x.small # <<>> /\ S3!SmallIsLarge(x))
    <3>1. y = S3!EvictMain(x)
      BY <1>3, <2>4 DEF Ended, S3!Round
    <3>2. x.main # <<>>
      <4>1. PICK i \in Nat, j \in Nat : i = Len(x.small) /\ j = Len(x.main)
        BY <1>1
      <4>2. i + j # 0
        BY <1>1, <1>3, <4>1 DEF Ended
      <4>3. CASE x.small = <<>>
        <5>1. i = 0
          BY <4>1, <4>3
        <5>2. j # 0
          BY <4>2, <5>1
        <5> QED BY <4>1, <5>2
      <4>4. CASE x.small # <<>>
        <5>1. ~(i * SmallShare >= i + j)
          BY <1>1, <2>4, <4>1, <4>2, <4>4 DEF S3!SmallIsLarge
        <5>2. SmallShare \in Nat \ {0}
          BY PolicyAssumption
        <5>3. i * SmallShare >= i
          <6>1. PICK d \in Nat : SmallShare = d + 1
            <7>1. SmallShare - 1 \in Nat /\ SmallShare = (SmallShare - 1) + 1
              BY <5>2
            <7> QED BY <7>1
          <6>2. i * (d + 1) = i * d + i /\ i * d \in Nat
            OBVIOUS
          <6> QED BY <6>1, <6>2
        <5>4. PICK p \in Nat : p = i * SmallShare
          BY <5>2
        <5>5. j # 0
          BY <5>1, <5>3, <5>4
        <5> QED BY <4>1, <5>5
      <4> QED BY <4>3, <4>4
    <3>3. /\ S3Good(y) /\ (S3Once(x, T, G) => S3Once(y, T, G))
          /\ y.small = x.small /\ Len(y.advice) = Len(x.advice) + 1
      BY <3>1, <3>2, MainEvicts
    <3>4. PICK v \in 0 .. 1 : v = IF x.small = <<>> THEN 0 ELSE 1
      OBVIOUS
    <3>5. RoundsLeft(y, cnt) = (cnt - (a + 1)) + v /\ RoundsLeft(x, cnt) = (cnt - a) + v
      BY <2>1, <3>3, <3>4 DEF RoundsLeft
    <3>6. Len(y.advice) <= cnt /\ (cnt - (a + 1)) + v <= ((cnt - a) + v) - 1
      BY <2>1, <2>2, <3>3
    <3> QED BY <1>3, <3>3, <3>5, <3>6
  <2> QED BY <2>3, <2>4
<1> QED BY <1>2, <1>3

\* find_victim of S3-FIFO ends, with cnt victims or no entry left.
LEMMA EvictEnds ==
  ASSUME NEW s, S3Good(s), s.advice = <<>>, NEW cnt \in Nat, NEW y, y = S3!Evict(s, cnt), NEW T, NEW G
  PROVE  S3Good(y) /\ (S3Once(s, T, G) => S3Once(y, T, G)) /\ Len(y.advice) <= cnt /\ Ended(y, cnt)
<1> DEFINE Ok(x) == S3Good(x) /\ (S3Once(s, T, G) => S3Once(x, T, G)) /\ Len(x.advice) <= cnt
           S == {x \in Evicting : Ok(x)}
<1>1. s \in S
  <2>1. Len(s.advice) = 0 /\ s \in Evicting
    BY DEF S3Good
  <2> QED BY <2>1
<1>2. ASSUME NEW x \in S PROVE S3!Round(x, cnt) \in S
  <2>1. PICK z : z = S3!Round(x, cnt)
    OBVIOUS
  <2>2. S3Good(z) /\ (S3Once(x, T, G) => S3Once(z, T, G)) /\ Len(z.advice) <= cnt
    BY <1>2, <2>1, RoundKeeps
  <2>3. Ok(z) /\ z \in Evicting
    BY <1>2, <2>2 DEF S3Good
  <2> QED BY <2>1, <2>3
<1>3. \A x \in S : Ok(x)
  OBVIOUS
<1> HIDE DEF S
<1>4. PICK n \in Nat : n = cnt + 1
  OBVIOUS
<1>5. PICK after :
        /\ \A k \in 0 .. n : after[k] \in S
        /\ after[0] = s /\ \A k \in 1 .. n : after[k] = S3!Round(after[k - 1], cnt)
        /\ S3!Evict(s, cnt) = after[n]
  BY <1>1, <1>2, <1>4, RoundsRun
<1>6. \A k \in 0 .. n : Ok(after[k])
  BY <1>3, <1>5
<1> HIDE DEF Ok
<1> DEFINE Left(k) == Ended(after[k], cnt) \/ RoundsLeft(after[k], cnt) + k <= cnt + 1
           P == {k \in Nat : k <= n => Left(k)}
<1>7. 0 \in P
  <2>1. RoundsLeft(s, cnt) <= cnt + 1
    <3>1. Len(s.advice) = 0
      OBVIOUS
    <3>2. PICK v \in 0 .. 1 : v = IF s.small = <<>> THEN 0 ELSE 1
      OBVIOUS
    <3>3. RoundsLeft(s, cnt) = (cnt - 0) + v
      BY <3>1, <3>2 DEF RoundsLeft
    <3> QED BY <3>3
  <2>2. RoundsLeft(s, cnt) + 0 <= cnt + 1
    <3>1. RoundsLeft(s, cnt) \in Int
      BY DEF RoundsLeft
    <3> QED BY <2>1, <3>1
  <2> QED BY <1>5, <2>2
<1>8. ASSUME NEW k \in P PROVE k + 1 \in P
  <2> SUFFICES ASSUME k + 1 <= n PROVE Left(k + 1)
    <3> HIDE DEF Left
    <3> QED OBVIOUS
  <2>1. k \in 0 .. n /\ k + 1 \in 1 .. n /\ (k + 1) - 1 = k /\ Left(k)
    BY <1>8
  <2>2. PICK x : x = after[k]
    OBVIOUS
  <2>3. PICK z : z = after[k + 1] /\ z = S3!Round(x, cnt)
    BY <1>5, <2>1, <2>2
  <2>4. Ok(x)
    BY <1>6, <2>1, <2>2
  <2>5. IF Ended(x, cnt) THEN z = x ELSE RoundsLeft(z, cnt) <= RoundsLeft(x, cnt) - 1
    BY <2>3, <2>4, RoundKeeps DEF Ok
  <2>6. CASE Ended(x, cnt)
    BY <2>3, <2>5, <2>6
  <2>7. CASE ~Ended(x, cnt)
    <3>1. RoundsLeft(x, cnt) + k <= cnt + 1
      BY <2>1, <2>2, <2>7
    <3>2. Ok(z)
      <4>1. k + 1 \in 0 .. n
        BY <2>1
      <4> QED BY <1>6, <2>3, <4>1
    <3>3. x.advice \in Seq(Entries) /\ z.advice \in Seq(Entries)
      BY <2>4, <3>2, EvictingIs DEF Ok, S3Good
    <3>4. PICK i \in Int, j \in Int : i = RoundsLeft(x, cnt) /\ j = RoundsLeft(z, cnt)
      <4>1. RoundsLeft(x, cnt) \in Int
        BY <3>3 DEF RoundsLeft
      <4>2. RoundsLeft(z, cnt) \in Int
        BY <3>3 DEF RoundsLeft
      <4> QED BY <4>1, <4>2
    <3>5. i + k <= cnt + 1 /\ j <= i - 1
      BY <2>5, <2>7, <3>1, <3>4
    <3>6. j + (k + 1) <= cnt + 1
      BY <2>1, <3>5
    <3> QED BY <2>3, <3>4, <3>6
  <2> QED BY <2>6, <2>7
<1>9. P = Nat
  <2>1. P \in SUBSET Nat
    OBVIOUS
  <2> HIDE DEF P
  <2> QED BY <2>1, <1>7, <1>8, NumberInduction
<1>10. y = after[n] /\ n \in 0 .. n
  BY <1>5
<1>11. Ok(y) /\ Left(n)
  <2>1. n \in P
    BY <1>9
  <2>2. Left(n)
    <3> HIDE DEF Left
    <3> QED BY <2>1
  <2> QED BY <1>6, <1>10, <2>2
<1>12. Ended(y, cnt)
  <2> SUFFICES ASSUME RoundsLeft(y, cnt) + n <= cnt + 1 PROVE Ended(y, cnt)
    BY <1>10, <1>11
  <2>1. y.advice \in Seq(Entries) /\ Len(y.advice) <= cnt
    BY <1>11, EvictingIs DEF Ok, S3Good
  <2>2. PICK a \in Nat : a = Len(y.advice)
    BY <2>1
  <2>3. PICK v \in 0 .. 1 : RoundsLeft(y, cnt) = (cnt - a) + v
    <3>1. PICK v \in 0 .. 1 : v = IF y.small = <<>> THEN 0 ELSE 1
      OBVIOUS
    <3> QED BY <2>2, <3>1 DEF RoundsLeft
  <2>4. a <= cnt /\ ((cnt - a) + v) + (cnt + 1) <= cnt + 1
    BY <1>4, <2>1, <2>2, <2>3
  <2>5. a = cnt
    BY <2>4
  <2> QED BY <2>2, <2>5 DEF Ended
<1> QED BY <1>11, <1>12 DEF Ok

-----------------------------------------------------------------------------
(* S3-FIFO: its calls                                                      *)

\* retain takes the entry out of a queue, and nothing else.
LEMMA RetainIs ==
  ASSUME NEW s \in Seq(Entries), NEW e, NEW t, t = S3!Retain(s, e)
  PROVE  t \in Seq(Entries) /\ ToSet(t) = ToSet(s) \ {e}
<1> DEFINE Part(x) == IF x = e THEN <<>> ELSE <<x>>
           Parts(q) == [i \in 1 .. Len(q) |-> Part(q[i])]
           Good(q) == FlattenSeq(Parts(q)) \in Seq(Entries) /\ ToSet(FlattenSeq(Parts(q))) = ToSet(q) \ {e}
           P == {n \in Nat : \A q \in Seq(Entries) : Len(q) = n => Good(q)}
<1>1. \A x \in Entries : Part(x) \in Seq(Entries) /\ ToSet(Part(x)) = {x} \ {e}
  <2> SUFFICES ASSUME NEW x \in Entries PROVE Part(x) \in Seq(Entries) /\ ToSet(Part(x)) = {x} \ {e}
    OBVIOUS
  <2>1. CASE x = e
    BY <2>1, EmptyList
  <2>2. CASE x # e
    <3>1. ToSet(<<x>>) = {x}
      BY DEF ToSet
    <3> QED BY <2>2, <3>1
  <2> QED BY <2>1, <2>2
<1>2. \A q \in Seq(Entries) : Parts(q) \in Seq(Seq(Entries)) /\ Len(Parts(q)) = Len(q)
  <2> SUFFICES ASSUME NEW q \in Seq(Entries) PROVE Parts(q) \in Seq(Seq(Entries)) /\ Len(Parts(q)) = Len(q)
    OBVIOUS
  <2>1. PICK n \in Nat : n = Len(q)
    OBVIOUS
  <2>2. \A i \in 1 .. n : q[i] \in Entries
    BY <2>1
  <2> HIDE DEF Part
  <2>3. Parts(q) \in [1 .. n -> Seq(Entries)]
    BY <1>1, <2>1, <2>2
  <2> HIDE DEF Parts
  <2> QED BY <2>1, <2>3
<1> HIDE DEF Part
<1>3. 0 \in P
  <2> SUFFICES ASSUME NEW q \in Seq(Entries), Len(q) = 0 PROVE Good(q)
    OBVIOUS
  <2>1. q = <<>> /\ Parts(q) = <<>>
    <3>1. q = <<>> /\ Parts(q) \in Seq(Seq(Entries)) /\ Len(Parts(q)) = 0
      BY <1>2
    <3> HIDE DEF Parts
    <3> QED BY <3>1
  <2> QED BY <2>1, FlattenEmpty, EmptyList
<1>4. ASSUME NEW n \in P PROVE n + 1 \in P
  <2> SUFFICES ASSUME NEW q \in Seq(Entries), Len(q) = n + 1 PROVE Good(q)
    OBVIOUS
  <2>1. PICK a, r : a = q[Len(q)] /\ r = Butlast(q)
    OBVIOUS
  <2>2. q # <<>>
    OBVIOUS
  <2>3. a \in Entries /\ r \in Seq(Entries) /\ Len(r) = Len(q) - 1 /\ ToSet(q) = ToSet(r) \union {a}
    BY <2>1, <2>2, PopBack
  <2>4. Len(r) = n
    BY <2>3
  <2>5. Good(r)
    BY <2>3, <2>4
  <2>6. Parts(q) = Append(Parts(r), Part(a))
    <3>1. \A i \in 1 .. n : r[i] = q[i]
      BY <2>1, <2>4 DEF Butlast
    <3>2. a = q[n + 1]
      BY <2>1
    <3>3. PICK pr \in Seq(Seq(Entries)) : pr = Parts(r) /\ Len(pr) = n
      BY <1>2, <2>3, <2>4
    <3>4. \A i \in 1 .. n : pr[i] = Part(q[i])
      BY <2>4, <3>1, <3>3
    <3>5. PICK pq \in Seq(Seq(Entries)) : pq = Parts(q) /\ Len(pq) = n + 1
      BY <1>2
    <3>6. \A i \in 1 .. n + 1 : pq[i] = Part(q[i])
      BY <3>5
    <3> HIDE DEF Parts
    <3>7. PICK w \in Seq(Seq(Entries)) :
            w = Append(pr, Part(a)) /\ Len(w) = n + 1 /\ w[n + 1] = Part(a) /\ \A i \in 1 .. n : w[i] = pr[i]
      <4>1. PICK S : S = Seq(Entries)
        OBVIOUS
      <4>2. PICK x \in S : x = Part(a)
        BY <1>1, <2>3, <4>1
      <4>3. pr \in Seq(S)
        BY <4>1
      <4>4. /\ Append(pr, x) \in Seq(S) /\ Len(Append(pr, x)) = Len(pr) + 1
            /\ (\A i \in 1 .. Len(pr) : Append(pr, x)[i] = pr[i]) /\ Append(pr, x)[Len(pr) + 1] = x
        BY <4>3, AppendProperties
      <4> QED BY <3>3, <4>1, <4>2, <4>4
    <3>8. \A i \in 1 .. n + 1 : w[i] = pq[i]
      <4>1. \A i \in 1 .. n + 1 : i \in 1 .. n \/ i = n + 1
        OBVIOUS
      <4> QED BY <3>2, <3>4, <3>6, <3>7, <4>1
    <3>9. w = pq
      BY <3>5, <3>7, <3>8
    <3> QED BY <3>3, <3>5, <3>7, <3>9
  <2>7. PICK ss \in Seq(Seq(Entries)) : ss = Parts(r)
    BY <1>2, <2>3
  <2>8. PICK x \in Seq(Entries) : x = Part(a) /\ ToSet(x) = {a} \ {e}
    BY <1>1, <2>3
  <2> HIDE DEF Parts
  <2>9. FlattenSeq(Parts(q)) = FlattenSeq(ss) \o x
    BY <2>6, <2>7, <2>8, FlattenAppend
  <2>10. PICK u \in Seq(Entries) : u = FlattenSeq(ss) /\ ToSet(u) = ToSet(r) \ {e}
    BY <2>5, <2>7
  <2>11. PICK v : v = u \o x
    OBVIOUS
  <2>12. v \in Seq(Entries) /\ ToSet(v) = ToSet(u) \union ToSet(x)
    BY <2>11, JoinedSet
  <2>13. ToSet(v) = ToSet(q) \ {e}
    BY <2>3, <2>8, <2>10, <2>12
  <2> QED BY <2>9, <2>10, <2>11, <2>12, <2>13
<1>5. P = Nat
  <2>1. P \in SUBSET Nat
    OBVIOUS
  <2> HIDE DEF P
  <2> QED BY <1>3, <1>4, <2>1, NumberInduction
<1>6. Good(s)
  <2>1. Len(s) \in P
    BY <1>5
  <2> HIDE DEF Good
  <2> QED BY <2>1
<1>7. t = FlattenSeq(Parts(s))
  <2>1. \A ss : S3!FlattenSeq(ss) = FlattenSeq(ss)
    BY DEF S3!FlattenSeq, FlattenSeq
  <2>2. DOMAIN s = 1 .. Len(s)
    OBVIOUS
  <2> QED BY <2>1, <2>2 DEF S3!Retain, Part
<1> QED BY <1>6, <1>7

\* The queues of S3-FIFO between two calls, and when no advised entry comes back.
S3Inv ==
  /\ small \in Seq(Entries) /\ main \in Seq(Entries) /\ ghost \in Seq(Entries)
  /\ ghostSet \in SUBSET Entries /\ freq \in [Entries -> Freqs]
  /\ smallSize = Len(small) /\ mainSize = Len(main) /\ s3Size = Len(small) + Len(main)
  /\ ghostSet = ToSet(ghost)
  /\ \A e \in Entries : freq[e] # 9 /\ e \notin ghostSet => e \in ToSet(small) \union ToSet(main)
S3OnceInv ==
  /\ Nodes(small, ToSet(small)) /\ Nodes(main, ToSet(main)) /\ ToSet(small) \intersect ToSet(main) = {}
  /\ \A e \in Entries : freq[e] # 9 <=> e \in ToSet(small) \union ToSet(main)
  /\ ghostSet \subseteq advised /\ (ToSet(small) \union ToSet(main)) \intersect advised = {}

\* inc_frequency counts up to its cap and leaves unknown entries alone.
LEMMA IncIs ==
  ASSUME S3Inv, NEW e \in Entries
  PROVE  S3!Inc(e) \in [Entries -> Freqs] /\ \A a \in Entries : S3!Inc(e)[a] # 9 <=> freq[a] # 9
<1>1. freq[e] \in Freqs /\ freq \in [Entries -> Freqs]
  BY DEF S3Inv
<1>2. PICK v \in Freqs : v = (IF freq[e] = 9 \/ freq[e] = 3 THEN freq[e] ELSE freq[e] + 1) /\ (v # 9 <=> freq[e] # 9)
  <2>1. CASE freq[e] = 9 \/ freq[e] = 3
    BY <1>1, <2>1
  <2>2. CASE ~(freq[e] = 9 \/ freq[e] = 3)
    <3>1. PICK k \in Freqs : k = freq[e]
      BY <1>1
    <3>2. k \in 0 .. 2
      BY <2>2, <3>1 DEF Freqs
    <3>3. k + 1 \in 1 .. 3
      BY <3>2
    <3>4. k + 1 \in Freqs /\ k + 1 # 9
      BY <3>3 DEF Freqs
    <3> QED BY <2>2, <3>1, <3>4
  <2> QED BY <2>1, <2>2
<1>3. S3!Inc(e) = [freq EXCEPT ![e] = v]
  BY <1>1, <1>2 DEF S3!Inc, S3!Absent, S3!MaxFreq
<1>4. PICK g \in [Entries -> Freqs] : g = [freq EXCEPT ![e] = v] /\ \A a \in Entries : g[a] = IF a = e THEN v ELSE freq[a]
  BY <1>1, NewFreq
<1> QED BY <1>2, <1>3, <1>4

\* A new entry has not been touched.
LEMMA ZeroFreq ==
  ASSUME NEW f \in [Entries -> Freqs], NEW e \in Entries
  PROVE  \E g \in [Entries -> Freqs] : g = [f EXCEPT ![e] = 0] /\ \A a \in Entries : g[a] = IF a = e THEN 0 ELSE f[a]
<1> DEFINE g == [f EXCEPT ![e] = 0]
<1>1. 0 \in Freqs
  BY DEF Freqs
<1>2. g \in [Entries -> Freqs] /\ \A a \in Entries : g[a] = IF a = e THEN 0 ELSE f[a]
  BY <1>1
<1> HIDE DEF g
<1>3. \E h \in [Entries -> Freqs] : h = g /\ \A a \in Entries : h[a] = IF a = e THEN 0 ELSE f[a]
  BY <1>2
<1> QED BY <1>3 DEF g

\* notify_access of S3-FIFO.
LEMMA S3Access ==
  ASSUME S3Inv, NEW e \in Entries, S3!NotifyAccess(e)
  PROVE  S3Inv' /\ (S3OnceInv => S3OnceInv') /\ small' = small /\ main' = main
<1>1. PICK f : f = freq'
  OBVIOUS
<1>2. f \in [Entries -> Freqs] /\ \A a \in Entries : f[a] # 9 <=> freq[a] # 9
  <2>1. f = S3!Inc(e) \/ f = freq
    BY <1>1 DEF S3!NotifyAccess
  <2>2. freq \in [Entries -> Freqs]
    BY DEF S3Inv
  <2> QED BY <2>1, <2>2, IncIs
<1>3. /\ small' = small /\ main' = main /\ ghost' = ghost /\ ghostSet' = ghostSet /\ smallSize' = smallSize
      /\ mainSize' = mainSize /\ s3Size' = s3Size /\ advised' = advised
  BY DEF S3!NotifyAccess
<1>4. S3Inv'
  BY <1>1, <1>2, <1>3 DEF S3Inv
<1>5. ASSUME S3OnceInv PROVE S3OnceInv'
  BY <1>1, <1>2, <1>3, <1>5 DEF S3OnceInv
<1> QED BY <1>3, <1>4, <1>5

\* notify_insert of S3-FIFO.
LEMMA S3Insert ==
  ASSUME S3Inv, NEW e \in Entries, S3!NotifyInsert(e)
  PROVE  /\ S3Inv'
         /\ S3OnceInv /\ advised \subseteq advised' =>
              S3OnceInv' /\ (ToSet(small) \union ToSet(main))' = (ToSet(small) \union ToSet(main)) \union {e}
<1>1. /\ small \in Seq(Entries) /\ main \in Seq(Entries) /\ ghost \in Seq(Entries)
      /\ ghostSet \in SUBSET Entries /\ freq \in [Entries -> Freqs] /\ ghostSet = ToSet(ghost)
      /\ smallSize = Len(small) /\ mainSize = Len(main) /\ s3Size = Len(small) + Len(main)
      /\ Len(small) \in Nat /\ Len(main) \in Nat
      /\ \A a \in Entries : freq[a] # 9 /\ a \notin ghostSet => a \in ToSet(small) \union ToSet(main)
  BY DEF S3Inv
<1>2. S3!Exists(e) <=> freq[e] # 9 /\ e \notin ghostSet
  BY DEF S3!Exists, S3!Absent
<1>3. advised' = advised \ {e}
  BY DEF S3!NotifyInsert
<1>4. CASE S3!Exists(e)
  <2>1. PICK f : f = freq'
    OBVIOUS
  <2>2. f \in [Entries -> Freqs] /\ \A a \in Entries : f[a] # 9 <=> freq[a] # 9
    BY <1>4, <2>1, IncIs DEF S3!NotifyInsert
  <2>3. /\ small' = small /\ main' = main /\ ghost' = ghost /\ ghostSet' = ghostSet /\ smallSize' = smallSize
        /\ mainSize' = mainSize /\ s3Size' = s3Size
    BY <1>4 DEF S3!NotifyInsert
  <2>4. S3Inv'
    BY <2>1, <2>2, <2>3 DEF S3Inv
  <2>5. ASSUME S3OnceInv, advised \subseteq advised' PROVE S3OnceInv'
    <3>1. advised' = advised
      BY <1>3, <2>5
    <3> QED BY <2>1, <2>2, <2>3, <2>5, <3>1 DEF S3OnceInv
  <2>6. e \in ToSet(small) \union ToSet(main)
    BY <1>1, <1>2, <1>4
  <2> QED BY <2>3, <2>4, <2>5, <2>6
<1>5. CASE ~S3!Exists(e) /\ e \in ghostSet
  <2>1. PICK m, g : m = <<e>> \o main /\ g = S3!Retain(ghost, e)
    OBVIOUS
  <2>2. m \in Seq(Entries) /\ Len(m) = Len(main) + 1 /\ ToSet(m) = ToSet(main) \union {e} /\ S3!Cons(e, main) = m
    BY <1>1, <2>1, PushedEntry
  <2>3. g \in Seq(Entries) /\ ToSet(g) = ToSet(ghost) \ {e}
    BY <1>1, <2>1, RetainIs
  <2>4. /\ ghostSet' = ghostSet \ {e} /\ ghost' = g /\ main' = m /\ mainSize' = mainSize + 1 /\ s3Size' = s3Size + 1
        /\ small' = small /\ smallSize' = smallSize /\ freq' = freq
    BY <1>5, <2>1, <2>2 DEF S3!NotifyInsert
  <2>5. S3Inv'
    <3>1. mainSize' = Len(m) /\ s3Size' = Len(small) + Len(m)
      BY <1>1, <2>2, <2>4
    <3>2. ghostSet' \in SUBSET Entries /\ ghostSet' = ToSet(g)
      BY <1>1, <2>3, <2>4
    <3>3. \A a \in Entries : freq[a] # 9 /\ a \notin ghostSet' => a \in ToSet(small) \union ToSet(m)
      BY <1>1, <2>2, <2>4
    <3> QED BY <1>1, <2>2, <2>3, <2>4, <3>1, <3>2, <3>3 DEF S3Inv
  <2>6. ASSUME S3OnceInv, advised \subseteq advised' PROVE FALSE
    BY <1>3, <1>5, <2>6 DEF S3OnceInv
  <2> QED BY <2>5, <2>6
<1>6. CASE ~S3!Exists(e) /\ e \notin ghostSet
  <2>1. PICK m : m = <<e>> \o small
    OBVIOUS
  <2>2. /\ m \in Seq(Entries) /\ Len(m) = Len(small) + 1 /\ ToSet(m) = ToSet(small) \union {e} /\ S3!Cons(e, small) = m
        /\ Nodes(small, ToSet(small)) /\ e \notin ToSet(small) => Nodes(m, ToSet(m))
    BY <1>1, <2>1, PushedEntry
  <2>3. PICK f \in [Entries -> Freqs] : f = [freq EXCEPT ![e] = 0] /\ \A a \in Entries : f[a] = IF a = e THEN 0 ELSE freq[a]
    <3>1. freq \in [Entries -> Freqs]
      BY <1>1
    <3> QED BY <3>1, ZeroFreq
  <2>4. /\ small' = m /\ smallSize' = smallSize + 1 /\ s3Size' = s3Size + 1 /\ freq' = f
        /\ main' = main /\ mainSize' = mainSize /\ ghost' = ghost /\ ghostSet' = ghostSet
    BY <1>6, <2>2, <2>3 DEF S3!NotifyInsert
  <2>5. S3Inv'
    <3>1. smallSize' = Len(m) /\ s3Size' = Len(m) + Len(main)
      BY <1>1, <2>2, <2>4
    <3>2. \A a \in Entries : f[a] # 9 /\ a \notin ghostSet => a \in ToSet(m) \union ToSet(main)
      BY <1>1, <2>2, <2>3
    <3> QED BY <1>1, <2>2, <2>3, <2>4, <3>1, <3>2 DEF S3Inv
  <2>6. ASSUME S3OnceInv, advised \subseteq advised'
        PROVE  S3OnceInv' /\ (ToSet(small) \union ToSet(main))' = (ToSet(small) \union ToSet(main)) \union {e}
    <3>1. e \notin advised /\ advised' = advised
      BY <1>3, <2>6
    <3>2. e \notin ToSet(small) \union ToSet(main)
      BY <1>2, <1>6, <2>6 DEF S3OnceInv
    <3>3. ToSet(m) \union ToSet(main) = (ToSet(small) \union ToSet(main)) \union {e} /\ ToSet(m) \intersect ToSet(main) = {}
      BY <2>2, <2>6, <3>2 DEF S3OnceInv
    <3>4. Nodes(m, ToSet(m)) /\ Nodes(main, ToSet(main))
      BY <2>2, <2>6, <3>2 DEF S3OnceInv
    <3>5. \A a \in Entries : f[a] # 9 <=> a \in ToSet(m) \union ToSet(main)
      BY <2>3, <2>6, <3>3 DEF S3OnceInv
    <3>6. ghostSet \subseteq advised /\ (ToSet(m) \union ToSet(main)) \intersect advised = {}
      BY <2>6, <3>1, <3>3 DEF S3OnceInv
    <3> QED BY <2>4, <3>1, <3>3, <3>4, <3>5, <3>6 DEF S3OnceInv
  <2> QED BY <2>5, <2>6
<1> QED BY <1>4, <1>5, <1>6

\* find_victim of S3-FIFO.
LEMMA S3Victims ==
  ASSUME S3Inv, NEW cnt \in Nat, S3!FindVictim(cnt)
  PROVE  /\ S3Inv'
         /\ S3OnceInv => S3OnceInv' /\ \E w : TakesAll(advice', w, ToSet(small) \union ToSet(main),
                                                        (ToSet(small) \union ToSet(main))', cnt)
<1>1. PICK a, b, c, d, f : a = small /\ b = main /\ c = ghost /\ d = ghostSet /\ f = freq
  OBVIOUS
<1>2. PICK i, j, k : i = smallSize /\ j = mainSize /\ k = s3Size
  OBVIOUS
<1>3. PICK s : s = [small |-> a, main |-> b, ghost |-> c, ghostSet |-> d, freq |-> f,
                    smallSize |-> i, mainSize |-> j, totalSize |-> k, advice |-> <<>>]
  OBVIOUS
<1>4. PICK y : y = S3!Evict(s, cnt)
  OBVIOUS
<1>5. /\ small' = y.small /\ main' = y.main /\ ghost' = y.ghost /\ ghostSet' = y.ghostSet /\ freq' = y.freq
      /\ smallSize' = y.smallSize /\ mainSize' = y.mainSize /\ s3Size' = y.totalSize
      /\ advice' = y.advice /\ advised' = advised \union ToSet(y.advice)
  BY <1>1, <1>2, <1>3, <1>4, SameOperators DEF S3!FindVictim
<1>6. /\ s.small = a /\ s.main = b /\ s.ghost = c /\ s.ghostSet = d /\ s.freq = f
      /\ s.smallSize = i /\ s.mainSize = j /\ s.totalSize = k /\ s.advice = <<>>
  BY <1>3
<1>7. Kept(s) = ToSet(small) \union ToSet(main) /\ Kept(y) = (ToSet(small) \union ToSet(main))'
  BY <1>1, <1>5, <1>6 DEF Kept
<1>8. S3Good(s)
  <2>1. s \in Evicting
    <3>1. i \in Nat /\ j \in Nat /\ k \in Nat
      BY <1>2 DEF S3Inv
    <3> QED BY <1>1, <1>3, <3>1 DEF S3Inv, Evicting
  <2> QED BY <1>1, <1>2, <1>6, <1>7, <2>1 DEF S3Inv, S3Good
<1>9. PICK T, G : T = Kept(s) /\ G = ghostSet
  OBVIOUS
<1>10. S3Good(y) /\ (S3Once(s, T, G) => S3Once(y, T, G)) /\ Len(y.advice) <= cnt /\ Ended(y, cnt)
  BY <1>4, <1>6, <1>8, EvictEnds
<1>11. y \in Evicting
  BY <1>10 DEF S3Good
<1>12. S3Inv'
  BY <1>5, <1>7, <1>10, <1>11, EvictingIs DEF S3Inv, S3Good
<1>13. ASSUME S3OnceInv
       PROVE  S3OnceInv' /\ \E w : TakesAll(advice', w, ToSet(small) \union ToSet(main), (ToSet(small) \union ToSet(main))', cnt)
  <2>1. S3Once(s, T, G)
    <3>1. T \ Kept(s) = {} /\ Nodes(<<>>, {})
      BY <1>9, EmptyList
    <3>2. \A e \in Entries : s.freq[e] # 9 <=> e \in Kept(s)
      BY <1>1, <1>6, <1>7, <1>13 DEF S3OnceInv
    <3>3. Nodes(s.small, ToSet(s.small)) /\ Nodes(s.main, ToSet(s.main)) /\ ToSet(s.small) \intersect ToSet(s.main) = {}
      BY <1>1, <1>6, <1>13 DEF S3OnceInv
    <3>4. s.ghostSet \subseteq G \union ToSet(s.advice)
      BY <1>1, <1>6, <1>9
    <3>5. Nodes(s.advice, T \ Kept(s)) /\ Kept(s) \subseteq T
      BY <1>6, <1>9, <3>1
    <3> QED BY <3>2, <3>3, <3>4, <3>5 DEF S3Once
  <2>2. S3Once(y, T, G)
    BY <1>10, <2>1
  <2>3. PICK R, adv, u, v : R = Kept(y) /\ adv = y.advice /\ u = y.small /\ v = y.main
    OBVIOUS
  <2>4. /\ Nodes(u, ToSet(u)) /\ Nodes(v, ToSet(v)) /\ ToSet(u) \intersect ToSet(v) = {} /\ R = ToSet(u) \union ToSet(v)
        /\ R \subseteq T /\ Nodes(adv, T \ R) /\ y.ghostSet \subseteq G \union ToSet(adv)
        /\ \A e \in Entries : y.freq[e] # 9 <=> e \in R
    BY <2>2, <2>3 DEF S3Once, Kept
  <2>5. Nodes(a, ToSet(a)) /\ Nodes(b, ToSet(b)) /\ ToSet(a) \intersect ToSet(b) = {} /\ T = ToSet(a) \union ToSet(b)
    BY <1>1, <1>7, <1>9, <1>13 DEF S3OnceInv
  <2>6. ToSet(adv) = T \ R
    BY <2>4, NodesSet
  <2>7. S3OnceInv'
    <3>1. G \subseteq advised /\ T \intersect advised = {}
      BY <1>7, <1>9, <1>13 DEF S3OnceInv
    <3>2. ghostSet' \subseteq advised' /\ R \intersect advised' = {}
      BY <1>5, <2>3, <2>4, <2>6, <3>1
    <3>3. R = (ToSet(small) \union ToSet(main))'
      BY <1>7, <2>3
    <3> QED BY <1>5, <2>3, <2>4, <3>2, <3>3 DEF S3OnceInv
  <2>8. PICK w : w = a \o b
    OBVIOUS
  <2>9. PICK l : l = u \o v
    OBVIOUS
  <2>10. Nodes(w, T)
    <3>1. PICK A, B : A = ToSet(a) /\ B = ToSet(b)
      OBVIOUS
    <3>2. Nodes(a, A) /\ Nodes(b, B) /\ A \intersect B = {}
      BY <2>5, <3>1
    <3>3. Nodes(w, A \union B)
      BY <2>8, <3>2, NodesJoin
    <3> QED BY <2>5, <3>1, <3>3
  <2>11. Nodes(l, R) /\ Len(l) = Len(u) + Len(v)
    <3>1. PICK A, B : A = ToSet(u) /\ B = ToSet(v)
      OBVIOUS
    <3>2. Nodes(u, A) /\ Nodes(v, B) /\ A \intersect B = {}
      BY <2>4, <3>1
    <3>3. Nodes(l, A \union B)
      BY <2>9, <3>2, NodesJoin
    <3>4. Len(l) = Len(u) + Len(v)
      BY <2>9, <3>2 DEF Nodes
    <3> QED BY <2>4, <3>1, <3>3, <3>4
  <2>12. y.totalSize = Len(l)
    BY <1>10, <2>3, <2>11 DEF S3Good
  <2>13. Len(adv) <= cnt /\ (Len(adv) = cnt \/ Len(l) = 0)
    BY <1>10, <2>3, <2>12 DEF Ended
  <2>14. TakesAll(adv, w, T, R, cnt)
    BY <2>4, <2>10, <2>11, <2>13, AllTaken
  <2> QED BY <1>5, <1>7, <1>9, <2>3, <2>7, <2>14
<1> QED BY <1>12, <1>13

-----------------------------------------------------------------------------
(* All policies                                                            *)

\* What the contract tracks for each policy, before and after a step.
LEMMA TrackedIs ==
  /\ policy \in QueuePolicy => Tracked = Evictable /\ Advice = advice
  /\ policy \in HandPolicy => Tracked = ToSet(list) /\ Advice = advice
  /\ policy = "S3Once" => Tracked = ToSet(small) \union ToSet(main) /\ Advice = advice
  /\ policy \notin QueuePolicy \union HandPolicy \union {"S3Once"} => Tracked = {}
  /\ policy = "S3" => Advice = <<>>
  /\ policy # "S3" => Advice = advice
  BY DEF HandPolicy, QueuePolicy, Tracked, Advice

\* The same after a step.
LEMMA TrackedNext ==
  ASSUME policy' = policy
  PROVE  /\ policy \in QueuePolicy => Tracked' = Evictable' /\ Advice' = advice'
         /\ policy \in HandPolicy => Tracked' = ToSet(list)' /\ Advice' = advice'
         /\ policy = "S3Once" => Tracked' = (ToSet(small) \union ToSet(main))' /\ Advice' = advice'
         /\ policy \notin QueuePolicy \union HandPolicy \union {"S3Once"} => Tracked' = {}
         /\ policy = "S3" => Advice' = <<>>
         /\ policy # "S3" => Advice' = advice'
  BY DEF HandPolicy, QueuePolicy, Tracked, Advice

\* The contract allows a step that tracks one more entry, which is not on disk;
LEMMA InsertAllowed ==
  ASSUME policy' = policy, onDisk' = onDisk, onDisk = {}, NEW e \in Entries, Tracked' = Tracked \union {e}, Advice' = <<>>
  PROVE  Contract!CNext
<1>1. (policy # "Liquid")' = (policy # "Liquid")
  OBVIOUS
<1>2. "MemoryArrow" \in Contract!Memory /\ "MemoryArrow" \notin Contract!Disk
  BY DEF Contract!Memory, Contract!Disk
<1>3. Contract!CInsert(e, "MemoryArrow")
  BY <1>1, <1>2 DEF Contract!CInsert
<1> QED BY <1>2, <1>3 DEF Contract!CNext

\* a step that tracks the same entries and gives no victim;
LEMMA AccessAllowed ==
  ASSUME policy' = policy, onDisk' = onDisk, Tracked' = Tracked, Advice' = <<>>
  PROVE  Contract!CNext
<1>1. (policy # "Liquid")' = (policy # "Liquid")
  OBVIOUS
<1>2. Contract!CAccess
  BY <1>1 DEF Contract!CAccess
<1> QED BY <1>2 DEF Contract!CNext

\* a step that changes nothing;
LEMMA RestAllowed ==
  ASSUME policy' = policy, onDisk' = onDisk, Tracked' = Tracked, Advice' = Advice
  PROVE  UNCHANGED Contract!cvars
<1>1. (policy # "Liquid")' = (policy # "Liquid")
  OBVIOUS
<1> QED BY <1>1 DEF Contract!cvars

\* a step that takes out the entries it advises.
LEMMA VictimsAllowed ==
  ASSUME policy' = policy, onDisk' = onDisk, NEW cnt \in 0 .. MaxCount, NEW w, TakesAll(Advice', w, Tracked, Tracked', cnt)
  PROVE  Contract!CNext
<1>1. PICK adv, V, E, R : adv = Advice' /\ V = ToSet(adv) /\ E = Tracked /\ R = Tracked'
  OBVIOUS
<1>2. /\ Nodes(adv, V) /\ Nodes(w, E) /\ V \subseteq E /\ R = E \ V
      /\ Len(adv) = IF Len(w) < cnt THEN Len(w) ELSE cnt
  BY <1>1 DEF TakesAll
<1>3. Cardinality(V) = Len(adv) /\ Cardinality(E) = Len(w)
  BY <1>2, NodesCounted
<1>4. {adv[i] : i \in 1 .. Len(adv)} = V
  BY <1>2 DEF Nodes
<1>5. Cardinality(V) = IF Cardinality(E) < cnt THEN Cardinality(E) ELSE cnt
  BY <1>2, <1>3
<1>6. (policy # "Liquid")' = (policy # "Liquid")
  OBVIOUS
<1>7. \A S : Contract!Cardinality(S) = Cardinality(S)
  BY SameOperators
<1>8. Contract!CFindVictim(cnt)
  BY <1>1, <1>2, <1>3, <1>4, <1>5, <1>6, <1>7 DEF Contract!CFindVictim
<1> QED BY <1>8 DEF Contract!CNext

\* The contract of the queue policies is that of all policies.
LEMMA QueueAllowed ==
  ASSUME policy \in QueuePolicy, policy' = policy, [QueueContract!CNext]_QueueContract!cvars
  PROVE  [Contract!CNext]_Contract!cvars
<1>1. Tracked = Evictable /\ Advice = advice /\ Tracked' = Evictable' /\ Advice' = advice'
  BY TrackedIs, TrackedNext
<1>2. CASE UNCHANGED QueueContract!cvars
  BY <1>1, <1>2 DEF QueueContract!cvars, Contract!cvars
<1>3. CASE QueueContract!CNext
  <2>1. \A e, type : QueueContract!CInsert(e, type) => Contract!CInsert(e, type)
    BY <1>1 DEF QueueContract!CInsert, Contract!CInsert, QueueContract!Memory, Contract!Memory, QueueContract!Disk, Contract!Disk
  <2>2. QueueContract!CAccess => Contract!CAccess
    BY <1>1 DEF QueueContract!CAccess, Contract!CAccess
  <2>3. \A cnt : QueueContract!CFindVictim(cnt) => Contract!CFindVictim(cnt)
    <3>1. \A S : QueueContract!Cardinality(S) = Contract!Cardinality(S)
      BY DEF QueueContract!Cardinality, QueueContract!IsFiniteSet, Contract!Cardinality, Contract!IsFiniteSet
    <3> QED BY <1>1, <3>1 DEF QueueContract!CFindVictim, Contract!CFindVictim
  <2>4. QueueContract!Memory = Contract!Memory /\ QueueContract!Disk = Contract!Disk
    BY DEF QueueContract!Memory, Contract!Memory, QueueContract!Disk, Contract!Disk
  <2> QED BY <1>3, <2>1, <2>2, <2>3, <2>4 DEF QueueContract!CNext, Contract!CNext
<1> QED BY <1>2, <1>3

\* All policies side by side: the one that runs is in order, the others rest.
PolicyInv ==
  /\ IF policy \in QueuePolicy THEN QueueInv ELSE lists = [q \in Queues |-> <<>>] /\ onDisk = {}
  /\ HandInv /\ (policy \notin HandPolicy => list = <<>>)
  /\ S3Inv /\ (policy = "S3Once" => S3OnceInv)
  /\ LinkInv

\* Whether a step gives a second chance.
Spared == advice' # <<>> /\ Len(advice') = 1 /\ bit[advice'[1]] => \A e \in ToSet(list) : bit[e]

\* The new policies are in order.
LEMMA FirstPolicies == ASSUME Init PROVE PolicyInv /\ Contract!CInit
<1>1. <<>> \in Seq(Entries) /\ Len(<<>>) = 0 /\ ToSet(<<>>) = {} /\ Nodes(<<>>, {})
  BY EmptyList
<1>2. HandInv /\ list = <<>> /\ advice = <<>>
  <2>1. list = <<>> /\ bit = [e \in Entries |-> FALSE] /\ hand = None /\ totalSize = 0 /\ advice = <<>>
    BY DEF Init, Hand!Init
  <2>2. bit \in [Entries -> BOOLEAN]
    BY <2>1
  <2> QED BY <1>1, <2>1, <2>2 DEF HandInv
<1>3. /\ small = <<>> /\ main = <<>> /\ ghost = <<>> /\ ghostSet = {} /\ freq = [e \in Entries |-> 9]
      /\ smallSize = 0 /\ mainSize = 0 /\ s3Size = 0 /\ advised = {}
  BY DEF Init, S3!Init, S3!Absent
<1>4. S3Inv
  <2>1. freq \in [Entries -> Freqs] /\ \A e \in Entries : freq[e] = 9
    <3>1. 9 \in Freqs
      BY DEF Freqs
    <3> QED BY <1>3, <3>1
  <2> QED BY <1>1, <1>3, <2>1 DEF S3Inv
<1>5. S3OnceInv
  BY <1>1, <1>3 DEF S3OnceInv
<1>6. LinkInv
  <2>1. Spelled(<<>>, State, owned)
    BY FirstList DEF Init
  <2> QED BY <1>1, <2>1 DEF LinkInv
<1>7. lists = [q \in Queues |-> <<>>] /\ onDisk = {} /\ QueueInit
  BY DEF Init, QueueInit
<1>8. PolicyInv
  BY <1>2, <1>4, <1>5, <1>6, <1>7, FirstQueues DEF PolicyInv
<1>9. Tracked = {} /\ Advice = <<>>
  <2>1. policy \in QueuePolicy => Evictable = {}
    BY <1>7, EmptyList DEF Evictable, Queues
  <2> QED BY <1>1, <1>2, <1>3, <2>1, TrackedIs
<1>10. Contract!CInit
  BY <1>7, <1>9 DEF Contract!CInit
<1> QED BY <1>8, <1>10

\* A list of Clock or Sieve that a step leaves alone stays in order;
LEMMA HandRests == ASSUME HandInv, UNCHANGED handVars PROVE HandInv' /\ list' = list
<1>1. list' = list /\ bit' = bit /\ hand' = hand /\ totalSize' = totalSize
  BY DEF handVars
<1> QED BY <1>1 DEF HandInv

\* so do the queues of S3-FIFO,
LEMMA S3Rests == ASSUME S3Inv, UNCHANGED s3Vars PROVE S3Inv' /\ (S3OnceInv => S3OnceInv')
<1>1. /\ small' = small /\ main' = main /\ ghost' = ghost /\ ghostSet' = ghostSet /\ freq' = freq /\ smallSize' = smallSize
      /\ mainSize' = mainSize /\ s3Size' = s3Size /\ advised' = advised
  BY DEF s3Vars
<1>2. S3Inv'
  BY <1>1 DEF S3Inv
<1>3. S3OnceInv => S3OnceInv'
  BY <1>1 DEF S3OnceInv
<1> QED BY <1>2, <1>3

\* and the intrusive list.
LEMMA LinksRest == ASSUME LinkInv, UNCHANGED linkVars PROVE LinkInv'
<1>1. State' = State /\ owned' = owned
  BY DEF linkVars, State
<1> QED BY <1>1 DEF LinkInv

\* A call of a queue policy.
LEMMA QueueRunsStep ==
  ASSUME PolicyInv, QueueRuns PROVE PolicyInv' /\ [Contract!CNext]_Contract!cvars /\ Spared
<1>1. policy \in QueuePolicy /\ QueueInv /\ QueueNext /\ list = <<>>
  BY DEF PolicyInv, QueueRuns, QueuePolicy, HandPolicy
<1>2. QueueInv' /\ [QueueContract!CNext]_QueueContract!cvars
  BY <1>1, QueueStep
<1>3. policy' = policy
  BY <1>1 DEF QueueNext, NotifyInsert, NotifyAccess, FindVictim
<1>4. [Contract!CNext]_Contract!cvars
  BY <1>1, <1>2, <1>3, QueueAllowed
<1>5. HandInv' /\ list' = list /\ S3Inv' /\ LinkInv' /\ policy # "S3Once" /\ policy \notin HandPolicy
  BY <1>1, HandRests, S3Rests, LinksRest DEF PolicyInv, QueueRuns, QueuePolicy, HandPolicy
<1>6. PolicyInv'
  BY <1>1, <1>2, <1>3, <1>5 DEF PolicyInv
<1>7. Spared
  BY <1>1, EmptyList DEF Spared
<1> QED BY <1>4, <1>6, <1>7

\* A call of Clock or Sieve.
LEMMA HandRunsStep ==
  ASSUME PolicyInv, HandRuns PROVE PolicyInv' /\ [Contract!CNext]_Contract!cvars /\ Spared
<1>1. /\ policy \in HandPolicy /\ policy \notin QueuePolicy /\ policy # "S3Once" /\ HandInv /\ Hand!Next
      /\ S3Inv /\ LinkInv /\ lists = [q \in Queues |-> <<>>] /\ onDisk = {}
  BY DEF PolicyInv, HandRuns, QueuePolicy, HandPolicy
<1>2. policy' = policy
  BY <1>1 DEF Hand!Next, Hand!NotifyInsert, Hand!NotifyAccess, Hand!FindVictim
<1>3. lists' = lists /\ onDisk' = onDisk
  BY DEF HandRuns, queueState
<1>4. S3Inv' /\ LinkInv'
  BY <1>1, S3Rests, LinksRest DEF HandRuns
<1>5. HandInv' => PolicyInv'
  BY <1>1, <1>2, <1>3, <1>4 DEF PolicyInv
<1>6. Tracked = ToSet(list) /\ Advice = advice /\ Tracked' = ToSet(list)' /\ Advice' = advice'
  BY <1>1, <1>2, TrackedIs, TrackedNext
<1>7. ASSUME NEW e \in Entries, Hand!NotifyInsert(e)
      PROVE  HandInv' /\ Contract!CNext /\ Spared
  <2>1. HandInv' /\ ToSet(list)' = ToSet(list) \union {e} /\ advice' = <<>>
    BY <1>1, <1>7, HandInsert DEF Hand!NotifyInsert
  <2>2. Contract!CNext
    BY <1>1, <1>2, <1>3, <1>6, <2>1, InsertAllowed
  <2> QED BY <2>1, <2>2 DEF Spared
<1>8. ASSUME NEW e \in Entries, Hand!NotifyAccess(e)
      PROVE  HandInv' /\ Contract!CNext /\ Spared
  <2>1. list' = list /\ hand' = hand /\ totalSize' = totalSize /\ advice' = <<>>
    BY <1>8 DEF Hand!NotifyAccess
  <2>2. bit' \in [Entries -> BOOLEAN]
    <3>1. bit' = [bit EXCEPT ![e] = bit[e] \/ e \in ToSet(list)]
      BY <1>8, SameOperators DEF Hand!NotifyAccess
    <3>2. bit \in [Entries -> BOOLEAN] /\ (bit[e] \/ e \in ToSet(list)) \in BOOLEAN
      BY <1>1 DEF HandInv
    <3> QED BY <3>1, <3>2
  <2>3. HandInv'
    BY <1>1, <2>1, <2>2 DEF HandInv
  <2>4. Contract!CNext
    BY <1>2, <1>3, <1>6, <2>1, AccessAllowed
  <2> QED BY <2>1, <2>3, <2>4 DEF Spared
<1>9. ASSUME NEW cnt \in 0 .. MaxCount, Hand!FindVictim(cnt)
      PROVE  HandInv' /\ Contract!CNext /\ Spared
  <2>1. cnt \in Nat
    BY PolicyAssumption
  <2>2. /\ HandInv' /\ TakesAll(advice', list, ToSet(list), ToSet(list)', cnt)
        /\ advice' # <<>> /\ bit[advice'[1]] => \A e \in ToSet(list) : bit[e]
    BY <1>1, <1>9, <2>1, HandVictims
  <2>3. TakesAll(Advice', list, Tracked, Tracked', cnt)
    BY <1>6, <2>2
  <2>4. Contract!CNext
    BY <1>2, <1>3, <2>3, VictimsAllowed
  <2> QED BY <2>2, <2>4 DEF Spared
<1> QED BY <1>1, <1>5, <1>7, <1>8, <1>9 DEF Hand!Next

\* A call of S3-FIFO.
LEMMA S3RunsStep ==
  ASSUME PolicyInv, S3Runs \/ S3OnceRuns PROVE PolicyInv' /\ [Contract!CNext]_Contract!cvars /\ Spared
<1>1. /\ policy \in {"S3", "S3Once"} /\ policy \notin QueuePolicy /\ policy \notin HandPolicy /\ S3!Next
      /\ policy = "S3Once" => S3OnceInv /\ advised \subseteq advised'
      /\ S3Inv /\ HandInv /\ LinkInv /\ list = <<>> /\ lists = [q \in Queues |-> <<>>] /\ onDisk = {}
  BY DEF PolicyInv, S3Runs, S3OnceRuns, QueuePolicy, HandPolicy
<1>2. policy' = policy /\ lists' = lists /\ onDisk' = onDisk
  BY DEF S3Runs, S3OnceRuns, queueState
<1>3. HandInv' /\ list' = list /\ LinkInv'
  BY <1>1, HandRests, LinksRest DEF S3Runs, S3OnceRuns
<1>4. Spared
  BY <1>1, EmptyList DEF Spared
<1>5. S3Inv' /\ (policy = "S3Once" => S3OnceInv') => PolicyInv'
  BY <1>1, <1>2, <1>3 DEF PolicyInv
<1>6. ASSUME policy = "S3" PROVE UNCHANGED Contract!cvars
  <2>1. Tracked = {} /\ Tracked' = {} /\ Advice = <<>> /\ Advice' = <<>>
    BY <1>1, <1>2, <1>6, TrackedIs, TrackedNext
  <2> QED BY <1>2, <2>1, RestAllowed
<1>7. policy = "S3Once" => /\ Tracked = ToSet(small) \union ToSet(main) /\ Advice = advice
                           /\ Tracked' = (ToSet(small) \union ToSet(main))' /\ Advice' = advice'
  BY <1>2, TrackedIs, TrackedNext
<1>8. ASSUME NEW e \in Entries, S3!NotifyInsert(e)
      PROVE  S3Inv' /\ (policy = "S3Once" => S3OnceInv' /\ Contract!CNext)
  <2>1. S3Inv' /\ advice' = <<>>
    BY <1>1, <1>8, S3Insert DEF S3!NotifyInsert
  <2>2. ASSUME policy = "S3Once" PROVE S3OnceInv' /\ Contract!CNext
    <3>1. S3OnceInv' /\ (ToSet(small) \union ToSet(main))' = (ToSet(small) \union ToSet(main)) \union {e}
      BY <1>1, <1>8, <2>2, S3Insert
    <3>2. Tracked' = Tracked \union {e} /\ Advice' = <<>>
      BY <1>7, <2>1, <2>2, <3>1
    <3> QED BY <1>1, <1>2, <3>1, <3>2, InsertAllowed
  <2> QED BY <2>1, <2>2
<1>9. ASSUME NEW e \in Entries, S3!NotifyAccess(e)
      PROVE  S3Inv' /\ (policy = "S3Once" => S3OnceInv' /\ Contract!CNext)
  <2>1. S3Inv' /\ (S3OnceInv => S3OnceInv') /\ small' = small /\ main' = main /\ advice' = <<>>
    BY <1>1, <1>9, S3Access DEF S3!NotifyAccess
  <2>2. ASSUME policy = "S3Once" PROVE Contract!CNext
    <3>1. Tracked' = Tracked /\ Advice' = <<>>
      BY <1>7, <2>1, <2>2
    <3> QED BY <1>2, <3>1, AccessAllowed
  <2> QED BY <1>1, <2>1, <2>2
<1>10. ASSUME NEW cnt \in 0 .. MaxCount, S3!FindVictim(cnt)
       PROVE  S3Inv' /\ (policy = "S3Once" => S3OnceInv' /\ Contract!CNext)
  <2>1. cnt \in Nat
    BY PolicyAssumption
  <2>2. S3Inv'
    BY <1>1, <1>10, <2>1, S3Victims
  <2>3. ASSUME policy = "S3Once" PROVE S3OnceInv' /\ Contract!CNext
    <3>1. S3OnceInv' /\ \E w : TakesAll(advice', w, ToSet(small) \union ToSet(main), (ToSet(small) \union ToSet(main))', cnt)
      BY <1>1, <1>10, <2>1, <2>3, S3Victims
    <3>2. PICK w : TakesAll(Advice', w, Tracked, Tracked', cnt)
      BY <1>7, <2>3, <3>1
    <3> QED BY <1>2, <3>1, <3>2, VictimsAllowed
  <2> QED BY <2>2, <2>3
<1>11. S3Inv' /\ (policy = "S3Once" => S3OnceInv' /\ Contract!CNext)
  BY <1>1, <1>8, <1>9, <1>10 DEF S3!Next
<1> QED BY <1>1, <1>4, <1>5, <1>6, <1>11

\* An operation of the list, and a step that does nothing.
LEMMA ListRunsStep ==
  ASSUME PolicyInv, ListRuns \/ UNCHANGED vars PROVE PolicyInv' /\ [Contract!CNext]_Contract!cvars /\ [Spared]_Hand!vars
<1>1. /\ policy' = policy /\ advice' = advice /\ lists' = lists /\ recent' = recent /\ onDisk' = onDisk
      /\ UNCHANGED handVars /\ UNCHANGED s3Vars /\ [ListNext]_linkVars
  BY DEF ListRuns, vars, queueState
<1>2. LinkInv'
  <2>1. CASE ListNext
    BY <2>1, ListStep DEF PolicyInv, LinkInv
  <2>2. CASE UNCHANGED linkVars
    BY <2>2, LinksRest DEF PolicyInv
  <2> QED BY <1>1, <2>1, <2>2
<1>3. HandInv' /\ list' = list /\ S3Inv' /\ (S3OnceInv => S3OnceInv')
  BY <1>1, HandRests, S3Rests DEF PolicyInv
<1>4. QueueInv => QueueInv'
  BY <1>1 DEF QueueInv
<1>5. PolicyInv'
  BY <1>1, <1>2, <1>3, <1>4 DEF PolicyInv
<1>6. small' = small /\ main' = main
  BY <1>1 DEF s3Vars
<1>7. Tracked' = Tracked /\ Advice' = Advice
  <2>1. Evictable' = Evictable /\ ToSet(list)' = ToSet(list) /\ (ToSet(small) \union ToSet(main))' = ToSet(small) \union ToSet(main)
    BY <1>1, <1>3, <1>6 DEF Evictable
  <2> QED BY <1>1, <2>1 DEF Tracked, Advice
<1>8. UNCHANGED Contract!cvars
  BY <1>1, <1>7, RestAllowed
<1>9. UNCHANGED Hand!vars
  BY <1>1 DEF Hand!vars, handVars
<1> QED BY <1>5, <1>8, <1>9

\* Every step keeps the invariant, is allowed by the contract and gives second chances.
LEMMA PolicyStep ==
  ASSUME PolicyInv, [Next]_vars PROVE PolicyInv' /\ [Contract!CNext]_Contract!cvars /\ [Spared]_Hand!vars
  BY QueueRunsStep, HandRunsStep, S3RunsStep, ListRunsStep DEF Next

\* PolicyInv holds after any sequence of calls.
LEMMA PolicyInvariant == Spec => []PolicyInv
<1>1. Init => PolicyInv
  BY FirstPolicies
<1>2. PolicyInv /\ [Next]_vars => PolicyInv'
  BY PolicyStep
<1> QED BY <1>1, <1>2, PTL DEF Spec

\* Every cache policy keeps the contract of CachePolicy, for any number of entries
\* and any calls: find_victim(cnt) takes out as many distinct entries as there are,
\* up to cnt, and every entry that notify_insert reported can be advised until it
\* was.  S3-FIFO does as long as advised entries do not come back.
THEOREM PoliciesMeetContract == Spec => MeetsContract
<1>1. Init => Contract!CInit
  BY FirstPolicies
<1>2. PolicyInv /\ [Next]_vars => [Contract!CNext]_Contract!cvars
  BY PolicyStep
<1> QED BY <1>1, <1>2, PolicyInvariant, PTL DEF Spec, MeetsContract, Contract!CSpec

\* find_victim of Clock and Sieve advises an entry alone that was touched since the
\* hand last passed it only when every entry was.
THEOREM HandsGiveSecondChances == Spec => SecondChance
<1> DEFINE Chances == advice' # <<>> /\ Len(advice') = 1 /\ bit[advice'[1]] => \A e \in Hand!ToSet(list) : bit[e]
<1>1. PolicyInv /\ [Next]_vars => [Chances]_Hand!vars
  <2>1. PolicyInv /\ [Next]_vars => [Spared]_Hand!vars
    BY PolicyStep
  <2>2. Spared => Chances
    BY SameOperators DEF Spared
  <2> HIDE DEF Chances
  <2> QED BY <2>1, <2>2
<1>2. [][Chances]_Hand!vars => SecondChance
  BY PTL DEF SecondChance, Hand!SecondChance
<1> HIDE DEF Chances
<1> QED BY <1>1, <1>2, PolicyInvariant, PTL DEF Spec

\* What PolicyInv says of the structures.
LEMMA StructuresInOrder == ASSUME PolicyInv PROVE StructuresAgree
<1>1. QueuesTypeOK
  <2>1. CASE policy \in QueuePolicy
    BY <2>1, QueueTypes DEF PolicyInv
  <2>2. CASE policy \notin QueuePolicy
    <3>1. lists = [q \in Queues |-> <<>>]
      BY <2>2 DEF PolicyInv
    <3>2. 0 \in 0 .. Cardinality(Entries) /\ <<>> \in [1 .. 0 -> Entries]
      <4>1. Cardinality(Entries) \in Nat
        BY FS_CardinalityType, PolicyAssumption
      <4> QED BY <4>1
    <3>3. lists \in [Queues -> UNION {[1 .. n -> Entries] : n \in 0 .. Cardinality(Entries)}]
      BY <3>1, <3>2
    <3>4. \A q \in Queues : DOMAIN lists[q] = {}
      BY <3>1
    <3> QED BY <3>3, <3>4 DEF QueuesTypeOK
  <2> QED BY <2>1, <2>2
<1>2. HandInv /\ S3Inv /\ LinkInv
  BY DEF PolicyInv
<1>3. Hand!TypeOK /\ Hand!HandInList
  <2>1. PICK l, own : l = list /\ own = ToSet(list)
    OBVIOUS
  <2>2. Nodes(l, own) /\ l \in Seq(Entries)
    BY <1>2, <2>1 DEF HandInv, Nodes
  <2>3. Cardinality(own) = Len(l) /\ Cardinality(Entries) \in Nat /\ Len(l) <= Cardinality(Entries)
    BY <2>2, NodesCounted
  <2>4. PICK n \in Nat : n = Len(l)
    BY <2>2
  <2>5. l \in [1 .. n -> Entries] /\ n \in 0 .. Cardinality(Entries)
    BY <2>2, <2>3, <2>4
  <2>6. l \in UNION {[1 .. k -> Entries] : k \in 0 .. Cardinality(Entries)}
    BY <2>5
  <2>7. totalSize \in Nat /\ totalSize = Len(list) /\ bit \in [Entries -> BOOLEAN]
    BY <1>2, <2>1, <2>2 DEF HandInv
  <2>8. Hand!TypeOK
    BY <2>1, <2>3, <2>6, <2>7, SameOperators DEF Hand!TypeOK
  <2>9. Hand!HandInList
    BY <1>2, SameOperators DEF HandInv, Hand!HandInList
  <2> QED BY <2>8, <2>9
<1>4. S3!TypeOK /\ S3!SizesMatch
  <2>1. \A s : S3!ToSet(s) = ToSet(s)
    BY SameOperators
  <2>2. S3!Absent = 9 /\ S3!MaxFreq = 3
    BY DEF S3!Absent, S3!MaxFreq
  <2>3. ToSet(small) \subseteq Entries /\ ToSet(main) \subseteq Entries /\ ToSet(ghost) \subseteq Entries
    BY <1>2, Members DEF S3Inv
  <2>4. smallSize \in Nat /\ mainSize \in Nat /\ s3Size \in Nat /\ s3Size = smallSize + mainSize
    BY <1>2 DEF S3Inv
  <2>5. S3!TypeOK
    BY <1>2, <2>1, <2>2, <2>3, <2>4 DEF S3Inv, Freqs, S3!TypeOK
  <2>6. S3!SizesMatch
    BY <1>2, <2>1, <2>2, <2>4 DEF S3Inv, S3!SizesMatch
  <2> QED BY <2>5, <2>6
<1>5. WellLinked
  BY <1>2, SpelledIsWellLinked
<1> QED BY <1>1, <1>3, <1>4, <1>5 DEF StructuresAgree

\* Whatever calls came before, the hand of Clock and Sieve is on a node of the list,
\* the sizes and the ghost set of S3-FIFO are those of its queues, an entry with a
\* frequency is in one of them, and the pointers of the list agree.
THEOREM StructuresStayInOrder == Spec => []StructuresAgree
  BY StructuresInOrder, PolicyInvariant, PTL
=============================================================================
