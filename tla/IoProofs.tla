------------------------------ MODULE IoProofs ------------------------------
(***************************************************************************)
(* The io_uring runtimes for any number of tasks, tokens and rings: no     *)
(* token is in two places, no ring has two users, and a task is completed  *)
(* with its own entry; and a read that reports success has the bytes that  *)
(* were written, for every block size and every range.                     *)
(***************************************************************************)
EXTENDS MCIoRuntimes, FiniteSetTheorems, SequenceTheorems, TLAPS

-----------------------------------------------------------------------------
(* Queues without duplicates                                               *)

Distinct(s) == \A i, j \in DOMAIN s : s[i] = s[j] => i = j

\* A queue without duplicates is as long as it has elements.
LEMMA DistinctLength ==
  ASSUME NEW S, NEW s \in Seq(S), Distinct(s)
  PROVE  Len(s) = Cardinality(Elements(s)) /\ IsFiniteSet(Elements(s))
<1>1. s \in [1..Len(s) -> Elements(s)] /\ Len(s) \in Nat
  BY DEF Elements
<1>2. s \in Bijection(1..Len(s), Elements(s))
  <2>1. IsInjective(s)
    BY DEF IsInjective, Distinct
  <2>2. \A x \in Elements(s) : \E i \in 1..Len(s) : s[i] = x
    BY <1>1 DEF Elements
  <2>3. s \in Injection(1..Len(s), Elements(s))
    BY <1>1, <2>1 DEF Injection
  <2>4. s \in Surjection(1..Len(s), Elements(s))
    BY <1>1, <2>2, Zenon DEF Surjection
  <2> QED BY <2>3, <2>4 DEF Bijection
<1>3. \A n \in Nat : IsFiniteSet(1..n) /\ Cardinality(1..n) = n
  BY FS_Interval
<1>4. IsFiniteSet(1..Len(s)) /\ Cardinality(1..Len(s)) = Len(s)
  BY <1>1, <1>3
<1> QED
  BY <1>2, <1>4, FS_Bijection DEF ExistsBijection

\* Pushing what is not in the queue (a token released, an entry posted).
LEMMA PushDistinct ==
  ASSUME NEW S, NEW s \in Seq(S), NEW x \in S
  PROVE  /\ Append(s, x) \in Seq(S) /\ Len(Append(s, x)) = Len(s) + 1
         /\ Elements(Append(s, x)) = Elements(s) \cup {x}
         /\ Distinct(s) /\ x \notin Elements(s) => Distinct(Append(s, x))
<1> DEFINE r == Append(s, x)
<1>1. /\ r \in Seq(S) /\ Len(r) = Len(s) + 1 /\ DOMAIN r = 1..Len(s) + 1
      /\ DOMAIN s = 1..Len(s) /\ Len(s) \in Nat
      /\ \A i \in 1..Len(s) : r[i] = s[i]
      /\ r[Len(s) + 1] = x
  OBVIOUS
<1>2. Elements(r) = Elements(s) \cup {x}
  <2>1. Elements(r) \subseteq Elements(s) \cup {x}
    BY <1>1 DEF Elements
  <2>2. Elements(s) \subseteq Elements(r)
    BY <1>1 DEF Elements
  <2>3. x \in Elements(r)
    BY <1>1 DEF Elements
  <2> QED BY <2>1, <2>2, <2>3
<1>3. Distinct(s) /\ x \notin Elements(s) => Distinct(r)
  BY <1>1 DEF Distinct, Elements
<1> QED BY <1>1, <1>2, <1>3

\* Popping the oldest element removes it.
LEMMA PopDistinct ==
  ASSUME NEW S, NEW s \in Seq(S), s # <<>>
  PROVE  /\ Head(s) \in S /\ Head(s) \in Elements(s)
         /\ Tail(s) \in Seq(S) /\ Len(Tail(s)) = Len(s) - 1
         /\ Distinct(s) => Distinct(Tail(s)) /\ Elements(Tail(s)) = Elements(s) \ {Head(s)}
<1> DEFINE r == Tail(s)
<1>1. /\ r \in Seq(S) /\ Len(r) = Len(s) - 1 /\ DOMAIN r = 1..Len(s) - 1
      /\ DOMAIN s = 1..Len(s) /\ Len(s) \in Nat \ {0}
      /\ \A i \in 1..Len(s) - 1 : r[i] = s[i + 1]
      /\ Head(s) = s[1] /\ s[1] \in S
  OBVIOUS
<1>2. Head(s) \in Elements(s)
  BY <1>1 DEF Elements
<1>3. ASSUME Distinct(s) PROVE Distinct(r) /\ Elements(r) = Elements(s) \ {Head(s)}
  <2>1. Distinct(r)
    BY <1>1, <1>3 DEF Distinct
  <2>2. Elements(r) \subseteq Elements(s) \ {Head(s)}
    BY <1>1, <1>3 DEF Distinct, Elements
  <2>3. ASSUME NEW x \in Elements(s) \ {Head(s)} PROVE x \in Elements(r)
    <3>1. PICK i \in 1..Len(s) : x = s[i]
      BY <1>1 DEF Elements
    <3>2. i - 1 \in 1..Len(s) - 1 /\ r[i - 1] = x
      BY <1>1, <3>1
    <3> QED BY <1>1, <3>2 DEF Elements
  <2> QED BY <2>1, <2>2, <2>3
<1> QED BY <1>1, <1>2, <1>3

\* The queue of tokens is filled with each token once.
LEMMA FilledInOrder ==
  InOrder \in Seq(Tokens) /\ Distinct(InOrder) /\ Elements(InOrder) = Tokens
<1> DEFINE n == Cardinality(Tokens)
<1>1. IsFiniteSet(Tokens) /\ n \in Nat
  BY IoAssumption, FS_CardinalityType
<1>2. PICK b : b \in Bijection(1..n, Tokens)
  BY <1>1, FS_CardinalityType DEF ExistsBijection
<1>3. b \in [1..n -> Tokens] /\ \A i, j \in DOMAIN b : b[i] = b[j] => i = j
  BY <1>2 DEF Bijection, Injection, IsInjective
<1>4. InOrder \in [1..n -> Tokens] /\ \A i, j \in DOMAIN InOrder : InOrder[i] = InOrder[j] => i = j
  BY <1>3 DEF InOrder
<1>5. InOrder \in Injection(1..n, Tokens)
  BY <1>4 DEF Injection, IsInjective
<1>6. IsFiniteSet(1..n) /\ Cardinality(1..n) = n
  <2>1. \A m \in Nat : IsFiniteSet(1..m) /\ Cardinality(1..m) = m
    BY FS_Interval
  <2> QED BY <1>1, <2>1
<1>7. InOrder \in Surjection(1..n, Tokens)
  BY <1>1, <1>5, <1>6, FS_Injection
<1>8. Elements(InOrder) = Tokens
  BY <1>4, <1>7 DEF Surjection, Elements
<1>9. InOrder \in Seq(Tokens)
  BY <1>1, <1>4
<1> QED BY <1>4, <1>8, <1>9 DEF Distinct

\* The empty queue.
LEMMA EmptyQueue == Elements(<<>>) = {} /\ Distinct(<<>>)
  BY DEF Elements, Distinct

-----------------------------------------------------------------------------
(* SharedRing: where a token and a completion can be                       *)

\* Submitted operations whose completion no drain has moved yet.
Ops == sInflight \cup Elements(sCq)
InUse(t) == \E c \in Ops : c.token = t

\* A future that has a token: before submission or after its completion was
\* taken, and in between.
Waiting == {"pending", "try", "retake", "giveup"}
Outside == {"submit", "release", "dropping"}

SharedType ==
  /\ pc \in [Futures -> Shared!PC]
  /\ token \in [Futures -> Tokens \cup {None}]
  /\ free \in Seq(Tokens) /\ Distinct(free)
  /\ store \in [Tokens -> Futures \cup {None}]
  /\ sInflight \in SUBSET Cqe /\ IsFiniteSet(sInflight)
  /\ sCq \in Seq(Cqe) /\ Distinct(sCq) /\ sInflight \cap Elements(sCq) = {}
  /\ abandoned \in SUBSET Tokens
  /\ lock \in Futures \cup {None} /\ batch \in 0..Len(sCq)
  /\ sGot \in [Futures -> Futures \cup {None}]

\* What the control state of a future says about its token.
SharedControl ==
  /\ \A f \in Futures : token[f] # None <=> pc[f] \in Waiting \cup Outside
  /\ \A f \in Futures : lock = f => pc[f] \in {"acquire", "retry", "try"}
  /\ \A f \in Futures : pc[f] \in Waiting => InUse(token[f]) \/ store[token[f]] # None
  /\ \A f \in Futures : pc[f] \in Outside => ~InUse(token[f]) /\ store[token[f]] = None

\* A token is in one place.
SharedPlaces ==
  /\ \A c, d \in Ops : c.token = d.token => c = d
  /\ \A t \in Elements(free) : t \notin abandoned /\ store[t] = None /\ ~InUse(t)
  /\ \A f, g \in Futures : token[f] # None /\ token[f] = token[g] => f = g
  /\ \A f \in Futures : token[f] # None => token[f] \notin Elements(free) \cup abandoned
  /\ \A t \in Tokens : store[t] # None => ~InUse(t)

\* No token is forgotten.
SharedFound ==
  \A t \in Tokens :
    \/ t \in Elements(free) \/ (\E f \in Futures : token[f] = t)
    \/ t \in abandoned /\ (InUse(t) \/ store[t] # None)

\* An operation and its completion belong to the future that holds the token,
\* until the future gives the token up.
SharedOwner ==
  /\ \A c \in Ops : c.token \in abandoned \/ token[c.of] = c.token
  /\ \A t \in Tokens : store[t] # None => t \in abandoned \/ token[store[t]] = t
  /\ \A f \in Futures : sGot[f] \in {None, f}

SharedInv == SharedType /\ SharedControl /\ SharedPlaces /\ SharedFound /\ SharedOwner

\* An operation carries a token and belongs to a future.
LEMMA OpsAreCqes ==
  ASSUME SharedType
  PROVE  \A c \in Ops : c.token \in Tokens /\ c.of \in Futures
<1>1. Elements(sCq) \subseteq Cqe
  BY DEF SharedType, Elements
<1> QED BY <1>1 DEF Ops, Cqe, SharedType

\* At the start every token is free and nothing is submitted.
LEMMA SharedInit == Shared!Init => SharedInv
<1> SUFFICES ASSUME Shared!Init PROVE SharedInv
  OBVIOUS
<1>0. Shared!Cardinality(Tokens) = Cardinality(Tokens)
  BY Zenon DEF Shared!Cardinality, Cardinality, Shared!IsFiniteSet, IsFiniteSet
<1>1. Shared!InOrder = InOrder
  BY <1>0, Zenon DEF Shared!InOrder, InOrder
<1>2. free \in Seq(Tokens) /\ Distinct(free) /\ Elements(free) = Tokens
  BY <1>1, FilledInOrder DEF Shared!Init
<1>3. sCq = <<>> /\ sInflight = {} /\ Elements(sCq) = {} /\ Distinct(sCq) /\ IsFiniteSet(sInflight)
  BY EmptyQueue, FS_EmptySet DEF Shared!Init
<1>4. Ops = {} /\ \A t : ~InUse(t)
  BY <1>3 DEF Ops, InUse
<1>5. SharedType
  BY <1>2, <1>3 DEF Shared!Init, SharedType, Shared!PC
<1>6. SharedControl /\ SharedPlaces /\ SharedFound /\ SharedOwner
  BY <1>2, <1>4, IoAssumption DEF Shared!Init, SharedControl, SharedPlaces, SharedFound, SharedOwner, Waiting, Outside
<1> QED BY <1>5, <1>6 DEF SharedInv

\* acquire_token: a popped token is held by one future, outside the ring.
LEMMA SharedPop ==
  ASSUME SharedInv, NEW f \in Futures, Shared!Pop(f)
  PROVE  SharedInv'
<1>1. CASE free # <<>>
  <2> DEFINE t == Head(free)
  <2>1. /\ token' = [token EXCEPT ![f] = t] /\ free' = Tail(free)
        /\ pc' = [pc EXCEPT ![f] = "submit"] /\ pc[f] \in {"created", "repop"}
        /\ UNCHANGED <<store, sInflight, sCq, abandoned, lock, batch, sGot>>
    BY <1>1 DEF Shared!Pop, Shared!Goto
  <2>2. /\ t \in Tokens /\ t \in Elements(free) /\ free' \in Seq(Tokens) /\ Distinct(free')
        /\ Elements(free') = Elements(free) \ {t}
    BY <1>1, <2>1, PopDistinct DEF SharedInv, SharedType
  <2>3. UNCHANGED <<Ops, Elements(sCq)>> /\ \A x : InUse(x)' = InUse(x)
    BY <2>1 DEF Ops, InUse
  <2>4. token[f] = None /\ lock # f
    BY <2>1 DEF SharedInv, SharedControl, Waiting, Outside
  <2>5. SharedType'
    BY <2>1, <2>2, <2>3 DEF SharedInv, SharedType, Shared!PC
  <2>6. SharedControl'
    BY <2>1, <2>2, <2>3, <2>4, IoAssumption DEF SharedInv, SharedType, SharedControl, SharedPlaces, Waiting, Outside
  <2>7. SharedPlaces' /\ SharedFound'
    BY <2>1, <2>2, <2>3, <2>4, IoAssumption DEF SharedInv, SharedType, SharedPlaces, SharedFound
  <2>8. SharedOwner'
    BY OpsAreCqes, <2>1, <2>2, <2>3, <2>4, IoAssumption DEF SharedInv, SharedType, SharedOwner
  <2> QED BY <2>5, <2>6, <2>7, <2>8 DEF SharedInv
<1>2. CASE free = <<>>
  <2>1. /\ pc' = [pc EXCEPT ![f] = IF pc[f] = "created" THEN "acquire" ELSE "retry"]
        /\ pc[f] \in {"created", "repop"}
        /\ UNCHANGED <<token, free, store, sInflight, sCq, abandoned, lock, batch, sGot>>
    BY <1>2 DEF Shared!Pop, Shared!Goto
  <2>2. UNCHANGED <<Ops, Elements(sCq), Elements(free)>> /\ \A x : InUse(x)' = InUse(x)
    BY <2>1 DEF Ops, InUse
  <2> QED BY <2>1, <2>2 DEF SharedInv, SharedType, SharedControl, SharedPlaces, SharedFound, SharedOwner,
        Waiting, Outside, Shared!PC
<1> QED BY <1>1, <1>2

\* A future that only moves on, without touching its token or the ring's state:
\* a failed try_lock, the end of a drain, a take that finds nothing.
LEMMA SharedMoves ==
  ASSUME SharedInv, NEW f \in Futures, NEW where \in Shared!PC,
         pc' = [pc EXCEPT ![f] = where],
         \/ pc[f] \in Waiting /\ where \in Waiting
         \/ pc[f] \notin Waiting \cup Outside /\ where \notin Waiting \cup Outside,
         UNCHANGED <<token, free, store, sInflight, sCq, abandoned, batch, sGot>>,
         lock' \in {lock, None} /\ lock' # f
  PROVE  SharedInv'
<1>1. UNCHANGED <<Ops, Elements(sCq), Elements(free)>> /\ \A x : InUse(x)' = InUse(x)
  BY DEF Ops, InUse
<1>2. SharedType'
  BY <1>1 DEF SharedInv, SharedType
<1>3. SharedControl'
  BY <1>1, IoAssumption DEF SharedInv, SharedType, SharedControl, Waiting, Outside
<1>4. SharedPlaces' /\ SharedFound' /\ SharedOwner'
  BY <1>1 DEF SharedInv, SharedPlaces, SharedFound, SharedOwner
<1> QED BY <1>2, <1>3, <1>4 DEF SharedInv

\* A completion that is taken is the taker's own, and its token is in no use
\* until it is pushed back.
LEMMA SharedTake ==
  ASSUME SharedInv, NEW f \in Futures, NEW found \in {"release", "dropping"},
         NEW missing \in Waiting, pc[f] \in {"pending", "retake"},
         Shared!Take(f, found, missing),
         UNCHANGED <<token, free, sInflight, sCq, abandoned, lock, batch>>
  PROVE  SharedInv'
<1> DEFINE t == token[f]
           c == store[t]
<1>1. t \in Tokens /\ t \notin abandoned /\ lock # f
  BY DEF SharedInv, SharedType, SharedControl, SharedPlaces, Waiting, Outside
<1>2. CASE c # None
  <2>1. /\ store' = [store EXCEPT ![t] = None] /\ sGot' = [sGot EXCEPT ![f] = c]
        /\ pc' = [pc EXCEPT ![f] = found]
    BY <1>2 DEF Shared!Take, Shared!Goto
  <2>2. c = f
    BY <1>1, <1>2, IoAssumption DEF SharedInv, SharedType, SharedOwner, SharedPlaces
  <2>3. UNCHANGED <<Ops, Elements(sCq), Elements(free)>> /\ \A x : InUse(x)' = InUse(x)
    BY DEF Ops, InUse
  <2>4. SharedType'
    BY <1>1, <2>1, <2>2, <2>3 DEF SharedInv, SharedType, Shared!PC
  <2>5. SharedControl'
    BY <1>1, <1>2, <2>1, <2>3 DEF SharedInv, SharedType, SharedControl, SharedPlaces, Waiting, Outside
  <2>6. SharedPlaces' /\ SharedFound' /\ SharedOwner'
    BY <1>1, <1>2, <2>1, <2>2, <2>3 DEF SharedInv, SharedType, SharedPlaces, SharedFound, SharedOwner
  <2> QED BY <2>4, <2>5, <2>6 DEF SharedInv
<1>3. CASE c = None
  <2>1. pc' = [pc EXCEPT ![f] = missing] /\ UNCHANGED <<store, sGot>>
    BY <1>3 DEF Shared!Take, Shared!Goto
  <2>2. missing \in Shared!PC /\ pc[f] \in Waiting
    BY DEF Waiting, Shared!PC
  <2> QED BY <1>1, <2>1, <2>2, SharedMoves
<1> QED BY <1>2, <1>3

\* release_token: the token goes back to the queue once.
LEMMA SharedRelease ==
  ASSUME SharedInv, NEW f \in Futures, Shared!ReleaseToken(f)
  PROVE  SharedInv'
<1> DEFINE t == token[f]
<1>1. /\ free' = Append(free, t) /\ token' = [token EXCEPT ![f] = None]
      /\ pc[f] \in {"release", "dropping"}
      /\ pc' = [pc EXCEPT ![f] = IF pc[f] = "release" THEN "done" ELSE "dropped"]
      /\ UNCHANGED <<store, sInflight, sCq, abandoned, lock, batch, sGot>>
  BY DEF Shared!ReleaseToken, Shared!Goto
<1>2. /\ t \in Tokens /\ t \notin abandoned /\ t \notin Elements(free) /\ lock # f
      /\ ~InUse(t) /\ store[t] = None
  BY <1>1 DEF SharedInv, SharedType, SharedControl, SharedPlaces, Waiting, Outside
<1>3. free' \in Seq(Tokens) /\ Distinct(free') /\ Elements(free') = Elements(free) \cup {t}
  BY <1>1, <1>2, PushDistinct DEF SharedInv, SharedType
<1>4. UNCHANGED <<Ops, Elements(sCq)>> /\ \A x : InUse(x)' = InUse(x)
  BY <1>1 DEF Ops, InUse
<1>5. SharedType'
  BY <1>1, <1>3, <1>4 DEF SharedInv, SharedType, Shared!PC
<1>6. SharedControl'
  BY <1>1, <1>2, <1>4 DEF SharedInv, SharedType, SharedControl, Waiting, Outside
<1>7. SharedPlaces' /\ SharedFound'
  BY <1>1, <1>2, <1>3, <1>4 DEF SharedInv, SharedType, SharedPlaces, SharedFound
<1>8. SharedOwner'
  <2>1. ASSUME NEW c \in Ops PROVE c.token \in abandoned \/ token'[c.of] = c.token
    BY <1>1, <1>2, OpsAreCqes DEF SharedInv, SharedType, SharedOwner, InUse
  <2>2. ASSUME NEW x \in Tokens, store[x] # None PROVE x \in abandoned \/ token'[store[x]] = x
    BY <1>1, <1>2, <2>2 DEF SharedInv, SharedType, SharedOwner
  <2> QED BY <1>1, <1>4, <2>1, <2>2 DEF SharedInv, SharedOwner
<1> QED BY <1>5, <1>6, <1>7, <1>8 DEF SharedInv

\* submit_task: the operation carries the submitter's token, which no other
\* operation carries.
LEMMA SharedSubmit ==
  ASSUME SharedInv, NEW f \in Futures, Shared!Submit(f)
  PROVE  SharedInv'
<1> DEFINE t == token[f]
           c == [token |-> t, of |-> f]
<1>1. /\ sInflight' = sInflight \cup {c} /\ pc[f] = "submit"
      /\ pc' = [pc EXCEPT ![f] = "pending"] /\ lock = None
      /\ UNCHANGED <<token, free, store, sCq, abandoned, lock, batch, sGot>>
  BY DEF Shared!Submit, Shared!Goto
<1>2. /\ t \in Tokens /\ t \notin abandoned /\ t \notin Elements(free)
      /\ ~InUse(t) /\ store[t] = None
  BY <1>1 DEF SharedInv, SharedType, SharedControl, SharedPlaces, Waiting, Outside
<1>3. Ops' = Ops \cup {c} /\ c \in Cqe /\ c \notin Ops /\ c.token = t /\ c.of = f
  BY <1>1, <1>2 DEF Ops, Cqe, InUse
<1>4. \A x : InUse(x)' <=> InUse(x) \/ x = t
  BY <1>3 DEF InUse
<1>5. SharedType'
  <2>1. IsFiniteSet(sInflight')
    BY <1>1, FS_AddElement DEF SharedInv, SharedType
  <2>2. sInflight' \in SUBSET Cqe /\ sInflight' \cap Elements(sCq') = {}
    BY <1>1, <1>3 DEF SharedInv, SharedType, Ops
  <2> QED BY <1>1, <2>1, <2>2 DEF SharedInv, SharedType, Shared!PC
<1>6. SharedControl'
  BY <1>1, <1>2, <1>4, IoAssumption DEF SharedInv, SharedType, SharedControl, SharedPlaces, Waiting, Outside
<1>7. SharedPlaces'
  BY <1>1, <1>2, <1>3, <1>4 DEF SharedInv, SharedType, SharedPlaces, InUse
<1>8. SharedFound' /\ SharedOwner'
  BY <1>1, <1>2, <1>3, <1>4 DEF SharedInv, SharedFound, SharedOwner
<1> QED BY <1>5, <1>6, <1>7, <1>8 DEF SharedInv

\* drain_completions: the entry at the head belongs to a waiting future, or its
\* token was given up and is free from now on.
LEMMA SharedDrain ==
  ASSUME SharedInv, NEW f \in Futures, Shared!DrainOne(f)
  PROVE  SharedInv'
<1> DEFINE c == Head(sCq)
           t == c.token
<1>1. /\ lock = f /\ batch > 0 /\ sCq' = Tail(sCq) /\ batch' = batch - 1
      /\ UNCHANGED <<pc, token, sInflight, lock, sGot>>
      /\ \/ /\ t \in abandoned /\ abandoned' = abandoned \ {t}
            /\ free' = Append(free, t) /\ UNCHANGED store
         \/ /\ t \notin abandoned /\ store' = [store EXCEPT ![t] = c.of]
            /\ UNCHANGED <<abandoned, free>>
  BY DEF Shared!DrainOne
<1>2. sCq # <<>> /\ batch \in Nat \ {0} /\ batch <= Len(sCq) /\ Len(sCq) \in Nat
  BY <1>1 DEF SharedInv, SharedType
<1>3. /\ c \in Cqe /\ c \in Elements(sCq) /\ sCq' \in Seq(Cqe) /\ Len(sCq') = Len(sCq) - 1
      /\ Distinct(sCq') /\ Elements(sCq') = Elements(sCq) \ {c}
  BY <1>1, <1>2, PopDistinct DEF SharedInv, SharedType
<1>4. c \in Ops /\ Ops' = Ops \ {c} /\ t \in Tokens /\ c.of \in Futures
  BY <1>1, <1>3 DEF Ops, Cqe, SharedInv, SharedType
<1>5. InUse(t) /\ \A x : InUse(x)' <=> InUse(x) /\ x # t
  BY <1>4 DEF InUse, SharedInv, SharedPlaces
<1>6. store[t] = None /\ t \notin Elements(free)
  BY <1>4, <1>5 DEF SharedInv, SharedPlaces
<1>7. batch' \in 0..Len(sCq')
  BY <1>1, <1>2, <1>3
<1>8. CASE t \in abandoned /\ abandoned' = abandoned \ {t} /\ free' = Append(free, t) /\ store' = store
  <2>1. free' \in Seq(Tokens) /\ Distinct(free') /\ Elements(free') = Elements(free) \cup {t}
    BY <1>4, <1>6, <1>8, PushDistinct DEF SharedInv, SharedType
  <2>2. \A g \in Futures : token[g] # t
    BY <1>4, <1>8, IoAssumption DEF SharedInv, SharedPlaces
  <2>3. SharedType'
    BY <1>1, <1>3, <1>7, <1>8, <2>1 DEF SharedInv, SharedType
  <2>4. SharedControl'
    BY <1>1, <1>5, <1>8, <2>2 DEF SharedInv, SharedControl
  <2>5. SharedPlaces'
    BY <1>1, <1>4, <1>5, <1>6, <1>8, <2>1, <2>2 DEF SharedInv, SharedPlaces
  <2>6. SharedFound' /\ SharedOwner'
    BY <1>1, <1>4, <1>5, <1>6, <1>8, <2>1, <2>2 DEF SharedInv, SharedFound, SharedOwner, SharedPlaces
  <2> QED BY <2>3, <2>4, <2>5, <2>6 DEF SharedInv
<1>9. CASE t \notin abandoned /\ store' = [store EXCEPT ![t] = c.of] /\ UNCHANGED <<abandoned, free>>
  <2>1. token[c.of] = t /\ c.of # None
    BY <1>4, <1>9, IoAssumption DEF SharedInv, SharedOwner
  <2>2. pc[c.of] \in Waiting
    BY <1>4, <1>5, <2>1, IoAssumption DEF SharedInv, SharedControl
  <2>3. \A g \in Futures : token[g] = t => g = c.of
    BY <1>4, <2>1, IoAssumption DEF SharedInv, SharedPlaces
  <2>4. SharedType'
    BY <1>1, <1>3, <1>4, <1>7, <1>9 DEF SharedInv, SharedType
  <2>5. SharedControl'
    BY <1>1, <1>4, <1>5, <1>9, <2>1, <2>2, <2>3 DEF SharedInv, SharedType, SharedControl, Waiting, Outside
  <2>6. SharedPlaces'
    BY <1>1, <1>4, <1>5, <1>6, <1>9, <2>1 DEF SharedInv, SharedType, SharedPlaces
  <2>7. SharedFound' /\ SharedOwner'
    BY <1>1, <1>4, <1>5, <1>9, <2>1 DEF SharedInv, SharedType, SharedFound, SharedOwner
  <2> QED BY <2>4, <2>5, <2>6, <2>7 DEF SharedInv
<1> QED BY <1>1, <1>8, <1>9

\* abandon_submission: the token that is marked still has its operation, or its
\* completion was stored in between and it has leaked.
LEMMA SharedMark ==
  ASSUME SharedInv, NEW f \in Futures, Shared!MarkAbandoned(f)
  PROVE  SharedInv'
<1> DEFINE t == token[f]
<1>1. /\ abandoned' = abandoned \cup {t} /\ token' = [token EXCEPT ![f] = None]
      /\ pc[f] = "giveup" /\ pc' = [pc EXCEPT ![f] = "dropped"] /\ lock = None
      /\ UNCHANGED <<free, store, sInflight, sCq, lock, batch, sGot>>
  BY DEF Shared!MarkAbandoned, Shared!Goto
<1>2. /\ t \in Tokens /\ t \notin abandoned /\ t \notin Elements(free)
      /\ InUse(t) \/ store[t] # None
  BY <1>1 DEF SharedInv, SharedType, SharedControl, SharedPlaces, Waiting, Outside
<1>3. UNCHANGED <<Ops, Elements(sCq), Elements(free)>> /\ \A x : InUse(x)' = InUse(x)
  BY <1>1 DEF Ops, InUse
<1>4. SharedType'
  BY <1>1, <1>2, <1>3 DEF SharedInv, SharedType, Shared!PC
<1>5. SharedControl'
  BY <1>1, <1>3, IoAssumption DEF SharedInv, SharedType, SharedControl, Waiting, Outside
<1>6. SharedPlaces' /\ SharedFound'
  BY <1>1, <1>2, <1>3 DEF SharedInv, SharedType, SharedPlaces, SharedFound
<1>7. SharedOwner'
  <2>1. ASSUME NEW c \in Ops PROVE c.token \in abandoned' \/ token'[c.of] = c.token
    BY <1>1, <1>2, OpsAreCqes DEF SharedInv, SharedType, SharedOwner
  <2>2. ASSUME NEW x \in Tokens, store[x] # None PROVE x \in abandoned' \/ token'[store[x]] = x
    BY <1>1, <1>2, <2>2 DEF SharedInv, SharedType, SharedOwner
  <2> QED BY <1>1, <1>3, <2>1, <2>2 DEF SharedInv, SharedOwner
<1> QED BY <1>4, <1>5, <1>6, <1>7 DEF SharedInv

\* The kernel posts an entry for each operation once.
LEMMA SharedKernel ==
  ASSUME SharedInv, Shared!Kernel
  PROVE  SharedInv'
<1>1. PICK c \in sInflight : sInflight' = sInflight \ {c} /\ sCq' = Append(sCq, c)
  BY DEF Shared!Kernel
<1>2. UNCHANGED <<pc, token, free, store, abandoned, lock, batch, sGot>>
  BY DEF Shared!Kernel
<1>3. c \in Cqe /\ c \notin Elements(sCq)
  BY DEF SharedInv, SharedType
<1>4. /\ sCq' \in Seq(Cqe) /\ Len(sCq') = Len(sCq) + 1 /\ Distinct(sCq')
      /\ Elements(sCq') = Elements(sCq) \cup {c}
  BY <1>1, <1>3, PushDistinct DEF SharedInv, SharedType
<1>5. Ops' = Ops /\ \A x : InUse(x)' = InUse(x)
  BY <1>1, <1>4 DEF Ops, InUse
<1>6. SharedType'
  <2>1. IsFiniteSet(sInflight') /\ sInflight' \in SUBSET Cqe
    BY <1>1, FS_RemoveElement DEF SharedInv, SharedType
  <2>2. sInflight' \cap Elements(sCq') = {}
    BY <1>1, <1>4 DEF SharedInv, SharedType
  <2>3. batch' \in 0..Len(sCq')
    BY <1>2, <1>4 DEF SharedInv, SharedType
  <2> QED BY <1>2, <1>4, <2>1, <2>2, <2>3 DEF SharedInv, SharedType
<1>7. SharedControl' /\ SharedPlaces' /\ SharedFound' /\ SharedOwner'
  BY <1>2, <1>5 DEF SharedInv, SharedControl, SharedPlaces, SharedFound, SharedOwner
<1> QED BY <1>6, <1>7 DEF SharedInv

\* Every step of every future and of the kernel keeps the invariant.
LEMMA SharedStep == SharedInv /\ (Shared!Next \/ UNCHANGED sharedVars) => SharedInv'
<1> SUFFICES ASSUME SharedInv, Shared!Next \/ UNCHANGED sharedVars PROVE SharedInv'
  OBVIOUS
<1>1. ASSUME NEW f \in Futures, Shared!TakeCompletion(f) PROVE SharedInv'
  BY <1>1, SharedTake DEF Shared!TakeCompletion, Waiting
<1>2. ASSUME NEW f \in Futures, Shared!DropFuture(f) PROVE SharedInv'
  <2>1. CASE pc[f] = "created" /\ Shared!Goto(f, "dropped") /\ UNCHANGED <<store, sGot>>
    <3>1. lock # f
      BY <2>1 DEF SharedInv, SharedControl
    <3> QED BY <1>2, <2>1, <3>1, SharedMoves DEF Shared!DropFuture, Shared!Goto, Waiting, Outside, Shared!PC
  <2>2. CASE pc[f] = "pending" /\ Shared!Take(f, "dropping", "giveup")
    BY <1>2, <2>2, SharedTake DEF Shared!DropFuture, Waiting
  <2> QED BY <1>2, <2>1, <2>2 DEF Shared!DropFuture
<1>3. ASSUME NEW f \in Futures, Shared!WouldBlock(f) PROVE SharedInv'
  BY <1>3, SharedMoves DEF Shared!WouldBlock, Shared!Goto, Waiting, Shared!PC
<1>4. ASSUME NEW f \in Futures, Shared!BeginDrain(f) PROVE SharedInv'
  <2>1. UNCHANGED <<Ops, Elements(sCq), Elements(free)>> /\ \A x : InUse(x)' = InUse(x)
    BY <1>4 DEF Shared!BeginDrain, Ops, InUse
  <2>2. batch' \in 0..Len(sCq')
    BY <1>4 DEF Shared!BeginDrain, SharedInv, SharedType
  <2> QED BY <1>4, <2>1, <2>2 DEF Shared!BeginDrain, SharedInv, SharedType, SharedControl, SharedPlaces,
        SharedFound, SharedOwner
<1>5. ASSUME NEW f \in Futures, Shared!EndDrain(f) PROVE SharedInv'
  <2>1. pc[f] \in {"acquire", "retry", "try"} /\ f # None
    BY <1>5, IoAssumption DEF Shared!EndDrain, SharedInv, SharedControl
  <2>2. CASE pc[f] = "acquire"
    BY <1>5, <2>1, <2>2, SharedMoves DEF Shared!EndDrain, Shared!Goto, Waiting, Outside, Shared!PC
  <2>3. CASE pc[f] = "retry"
    BY <1>5, <2>1, <2>3, SharedMoves DEF Shared!EndDrain, Shared!Goto, Waiting, Outside, Shared!PC
  <2>4. CASE pc[f] = "try"
    BY <1>5, <2>1, <2>4, SharedMoves DEF Shared!EndDrain, Shared!Goto, Waiting, Outside, Shared!PC
  <2> QED BY <2>1, <2>2, <2>3, <2>4
<1>6. CASE UNCHANGED sharedVars
  <2>1. UNCHANGED <<Ops, Elements(sCq), Elements(free)>> /\ \A x : InUse(x)' = InUse(x)
    BY <1>6 DEF sharedVars, Ops, InUse
  <2> QED BY <1>6, <2>1 DEF sharedVars, SharedInv, SharedType, SharedControl, SharedPlaces,
        SharedFound, SharedOwner
<1>7. ASSUME NEW f \in Futures, Shared!Step(f) PROVE SharedInv'
  BY <1>1, <1>3, <1>4, <1>5, <1>7, SharedPop, SharedSubmit, SharedRelease, SharedDrain, SharedMark
     DEF Shared!Step
<1> QED BY <1>2, <1>6, <1>7, SharedKernel DEF Shared!Next

\* The invariant says what TokenOnce says: in particular there are as many
\* operations as tokens in use.
LEMMA SharedTokenOnce == SharedInv => Shared!TokenOnce
<1> SUFFICES ASSUME SharedInv PROVE Shared!TokenOnce
  OBVIOUS
<1>1. \A S : Shared!Cardinality(S) = Cardinality(S)
  BY Zenon DEF Shared!Cardinality, Cardinality
<1>2. \A s : Shared!Elements(s) = Elements(s)
  BY DEF Shared!Elements, Elements
<1>3. Shared!Cqe = Cqe /\ \A t : Shared!Busy(t) <=> InUse(t)
  BY <1>2 DEF Shared!Cqe, Cqe, Shared!Busy, InUse, Ops
<1>4. Len(free) = Cardinality(Elements(free))
  BY DistinctLength DEF SharedInv, SharedType
<1>5. Elements(free) \subseteq Tokens /\ Elements(sCq) \subseteq Cqe
  BY DEF SharedInv, SharedType, Elements
<1>6. Shared!TypeOK
  BY <1>2, <1>3, <1>5 DEF SharedInv, SharedType, Shared!TypeOK
<1>7. Len(sCq) + Cardinality(sInflight) = Cardinality({t \in Tokens : InUse(t)})
  <2> DEFINE T == {t \in Tokens : InUse(t)}
             m == [c \in Ops |-> c.token]
  <2>1. IsFiniteSet(Elements(sCq)) /\ Len(sCq) = Cardinality(Elements(sCq))
    BY DistinctLength DEF SharedInv, SharedType
  <2>2. IsFiniteSet(sInflight) /\ sInflight \cap Elements(sCq) = {}
    BY DEF SharedInv, SharedType
  <2>3. /\ IsFiniteSet(Ops)
        /\ Cardinality(Ops) = Cardinality(sInflight) + Cardinality(Elements(sCq))
                                - Cardinality(sInflight \cap Elements(sCq))
    BY <2>1, <2>2, FS_Union DEF Ops
  <2>4. Cardinality(sInflight) \in Nat /\ Cardinality(Elements(sCq)) \in Nat /\ Cardinality({}) = 0
    BY <2>1, <2>2, FS_CardinalityType, FS_EmptySet
  <2>5. Cardinality(Ops) = Len(sCq) + Cardinality(sInflight)
    <3>1. Cardinality(sInflight \cap Elements(sCq)) = 0
      BY <2>2, <2>4, Zenon
    <3> HIDE DEF Ops
    <3> QED BY <2>1, <2>3, <2>4, <3>1
  <2>6. \A c \in Ops : c.token \in T
    BY OpsAreCqes DEF SharedInv, InUse
  <2>7. m \in Injection(Ops, T)
    BY <2>6 DEF SharedInv, SharedPlaces, Injection, IsInjective
  <2>8. \A t \in T : \E c \in Ops : m[c] = t
    BY DEF InUse
  <2>9. m \in Surjection(Ops, T)
    BY <2>6, <2>8 DEF Surjection
  <2>10. ExistsBijection(Ops, T)
    BY <2>7, <2>9 DEF ExistsBijection, Bijection
  <2> QED BY <2>3, <2>5, <2>10, FS_Bijection
<1>8. {t \in Tokens : Shared!Busy(t)} = {t \in Tokens : InUse(t)}
  BY <1>3
<1>9. /\ \A t \in Elements(free) : t \notin abandoned /\ store[t] = None /\ ~Shared!Busy(t)
      /\ \A f, g \in Futures : Shared!Holds(f) /\ token[f] = token[g] => f = g
      /\ \A f \in Futures : Shared!Holds(f) => token[f] \notin Elements(free) \cup abandoned
      /\ \A t \in Tokens : store[t] # None => ~Shared!Busy(t)
  BY <1>3 DEF SharedInv, SharedPlaces, Shared!Holds
<1>10. \A t \in Tokens :
         \/ t \in Elements(free) \/ (\E f \in Futures : token[f] = t)
         \/ (t \in abandoned /\ Shared!Busy(t)) \/ Shared!Leaked(t)
  BY <1>3 DEF SharedInv, SharedFound, Shared!Leaked
<1> QED BY <1>1, <1>2, <1>4, <1>6, <1>7, <1>8, <1>9, <1>10 DEF Shared!TokenOnce

-----------------------------------------------------------------------------
(* UringWorker: one operation for each token that is not free              *)

WOps == sq \cup wInflight \cup Elements(wCq)
OpsOf(t) == {c \in WOps : c.token = t}

PoolType ==
  /\ wState \in [Futures -> {"created", "submitted", "done", "dropped", "panicked"}]
  /\ worker \in {"drain", "poll", "dead"}
  /\ channel \in Seq(Futures) /\ tokens \in Seq(Tokens)
  /\ submitted \in [Tokens -> Futures \cup {None}]
  /\ sq \in SUBSET Cqe /\ wInflight \in SUBSET Cqe /\ wCq \in Seq(Cqe)
  /\ reply \in [Futures -> Futures \cup {None}]

\* An operation is queued, in the kernel, or completed, and only once.
PoolOnce ==
  /\ Distinct(wCq) /\ sq \cap wInflight = {}
  /\ Elements(wCq) \cap (sq \cup wInflight) = {}

PoolSlots ==
  worker # "dead" =>
    /\ Distinct(tokens)
    /\ \A t \in Tokens :
         \/ t \in Elements(tokens) /\ OpsOf(t) = {} /\ submitted[t] = None
         \/ t \notin Elements(tokens) /\ OpsOf(t) = {[token |-> t, of |-> submitted[t]]}

PoolInv ==
  PoolType /\ PoolOnce /\ PoolSlots /\ \A f \in Futures : reply[f] \in {None, f}

\* At the start every token is free and nothing is submitted.
LEMMA PoolInit == Pool!Init => PoolInv
<1> SUFFICES ASSUME Pool!Init PROVE PoolInv
  OBVIOUS
<1>1. Pool!Cardinality(Tokens) = Cardinality(Tokens)
  BY Zenon DEF Pool!Cardinality, Cardinality
<1>2. Pool!InOrder = InOrder
  BY <1>1, Zenon DEF Pool!InOrder, InOrder
<1>3. tokens \in Seq(Tokens) /\ Distinct(tokens) /\ Elements(tokens) = Tokens
  BY <1>2, FilledInOrder DEF Pool!Init
<1>4. WOps = {} /\ Elements(wCq) = {} /\ Distinct(wCq)
  BY EmptyQueue DEF Pool!Init, WOps
<1> QED BY <1>3, <1>4 DEF Pool!Init, PoolInv, PoolType, PoolOnce, PoolSlots, OpsOf

\* A free token takes the next task of the channel: its slot is empty.
LEMMA PoolSubmission ==
  ASSUME PoolInv, Pool!DrainSubmission
  PROVE  PoolInv'
<1> DEFINE t == Head(tokens)
           f == Head(channel)
           c == [token |-> t, of |-> f]
<1>1. /\ worker = "drain" /\ channel # <<>> /\ tokens # <<>>
      /\ channel' = Tail(channel) /\ tokens' = Tail(tokens) /\ sq' = sq \cup {c}
      /\ submitted' = [submitted EXCEPT ![t] = f]
      /\ UNCHANGED <<wState, worker, wInflight, wCq, reply>>
  BY DEF Pool!DrainSubmission
<1>2. /\ t \in Tokens /\ t \in Elements(tokens) /\ tokens' \in Seq(Tokens) /\ Distinct(tokens')
      /\ Elements(tokens') = Elements(tokens) \ {t}
  BY <1>1, PopDistinct DEF PoolInv, PoolType, PoolSlots
<1>3. f \in Futures /\ channel' \in Seq(Futures)
  BY <1>1, PopDistinct DEF PoolInv, PoolType
<1>4. OpsOf(t) = {} /\ c.token = t /\ c \in Cqe
  BY <1>1, <1>2, <1>3 DEF PoolInv, PoolSlots, Cqe
<1>5. c \notin WOps /\ WOps' = WOps \cup {c}
  BY <1>1, <1>4 DEF OpsOf, WOps
<1>6. \A x : OpsOf(x)' = IF x = t THEN {c} ELSE OpsOf(x)
  BY <1>4, <1>5 DEF OpsOf
<1>7. PoolType'
  BY <1>1, <1>2, <1>3, <1>4 DEF PoolInv, PoolType
<1>8. PoolOnce'
  BY <1>1, <1>5 DEF PoolInv, PoolOnce, WOps
<1>9. PoolSlots'
  BY <1>1, <1>2, <1>6 DEF PoolInv, PoolSlots, PoolType
<1> QED BY <1>1, <1>7, <1>8, <1>9 DEF PoolInv

\* A completion finds the task of its own future in the slot of its token.
LEMMA PoolCompletion ==
  ASSUME PoolInv, Pool!PollCompletion
  PROVE  PoolInv'
<1> DEFINE c == Head(wCq)
           t == c.token
           f == submitted[t]
<1>1. /\ worker = "poll" /\ wCq # <<>> /\ wCq' = Tail(wCq)
      /\ submitted' = [submitted EXCEPT ![t] = None]
      /\ UNCHANGED <<wState, channel, sq, wInflight>>
      /\ \/ worker' = "dead" /\ UNCHANGED <<tokens, reply>>
         \/ /\ reply' = [reply EXCEPT ![f] = c.of]
            /\ tokens' = Append(tokens, t)
            /\ UNCHANGED worker
  BY DEF Pool!PollCompletion
<1>2. /\ c \in Cqe /\ c \in Elements(wCq) /\ wCq' \in Seq(Cqe)
      /\ Distinct(wCq') /\ Elements(wCq') = Elements(wCq) \ {c}
  BY <1>1, PopDistinct DEF PoolInv, PoolType, PoolOnce
<1>3. WOps' = WOps \ {c} /\ c \in OpsOf(t) /\ t \in Tokens /\ c.of \in Futures
  BY <1>1, <1>2 DEF WOps, OpsOf, PoolInv, PoolOnce, Cqe
<1>4. OpsOf(t) = {[token |-> t, of |-> f]} /\ t \notin Elements(tokens)
  BY <1>1, <1>3 DEF PoolInv, PoolSlots
<1>5. c.of = f
  BY <1>3, <1>4
<1>6. \A x : OpsOf(x)' = IF x = t THEN {} ELSE OpsOf(x)
  BY <1>3, <1>4 DEF OpsOf
<1>7. PoolOnce'
  BY <1>1, <1>2 DEF PoolInv, PoolOnce
<1>8. CASE worker' = "dead" /\ UNCHANGED <<tokens, reply>>
  BY <1>1, <1>2, <1>7, <1>8 DEF PoolInv, PoolType, PoolSlots
<1>9. CASE reply' = [reply EXCEPT ![f] = c.of] /\ tokens' = Append(tokens, t) /\ UNCHANGED worker
  <2>1. /\ tokens' \in Seq(Tokens) /\ Distinct(tokens')
        /\ Elements(tokens') = Elements(tokens) \cup {t}
    BY <1>1, <1>3, <1>4, <1>9, PushDistinct DEF PoolInv, PoolType, PoolSlots
  <2>2. PoolType'
    BY <1>1, <1>2, <1>3, <1>9, <2>1 DEF PoolInv, PoolType
  <2>3. PoolSlots'
    BY <1>1, <1>3, <1>6, <1>9, <2>1 DEF PoolInv, PoolType, PoolSlots
  <2>4. \A g \in Futures : reply'[g] \in {None, g}
    BY <1>5, <1>9 DEF PoolInv, PoolType
  <2> QED BY <1>7, <2>2, <2>3, <2>4 DEF PoolInv
<1> QED BY <1>1, <1>8, <1>9

\* Every step of the futures, the worker and the kernel keeps the invariant.
LEMMA PoolStep == PoolInv /\ (Pool!Next \/ UNCHANGED workerVars) => PoolInv'
<1> SUFFICES ASSUME PoolInv, Pool!Next \/ UNCHANGED workerVars PROVE PoolInv'
  OBVIOUS
<1>1. ASSUME UNCHANGED <<worker, tokens, submitted, sq, wInflight, wCq, reply>>,
             channel' \in Seq(Futures),
             wState' \in [Futures -> {"created", "submitted", "done", "dropped", "panicked"}]
      PROVE  PoolInv'
  <2>1. UNCHANGED <<Elements(tokens), Elements(wCq), WOps>> /\ \A x : OpsOf(x)' = OpsOf(x)
    BY <1>1 DEF WOps, OpsOf
  <2> QED BY <1>1, <2>1 DEF PoolInv, PoolType, PoolOnce, PoolSlots
<1>2. ASSUME NEW f \in Futures, Pool!SubmitTask(f) PROVE PoolInv'
  <2>1. channel' = channel \/ channel' = Append(channel, f)
    BY <1>2 DEF Pool!SubmitTask
  <2>2. channel' \in Seq(Futures)
    <3>1. channel \in Seq(Futures) /\ f \in Futures
      BY <1>2 DEF PoolInv, PoolType
    <3> QED BY <2>1, <3>1
  <2> QED BY <1>1, <1>2, <2>2 DEF Pool!SubmitTask, PoolInv, PoolType
<1>3. ASSUME NEW f \in Futures, Pool!Receive(f) \/ Pool!DropFuture(f) PROVE PoolInv'
  BY <1>1, <1>3 DEF Pool!Receive, Pool!DropFuture, PoolInv, PoolType
<1>4. CASE Pool!SubmitRing
  <2>1. UNCHANGED <<Elements(tokens), Elements(wCq), WOps>> /\ \A x : OpsOf(x)' = OpsOf(x)
    BY <1>4 DEF Pool!SubmitRing, WOps, OpsOf
  <2> QED BY <1>4, <2>1 DEF Pool!SubmitRing, PoolInv, PoolType, PoolOnce, PoolSlots
<1>5. CASE Pool!PollEnd
  <2>1. UNCHANGED <<Elements(tokens), Elements(wCq), WOps>> /\ \A x : OpsOf(x)' = OpsOf(x)
    BY <1>5 DEF Pool!PollEnd, WOps, OpsOf
  <2> QED BY <1>5, <2>1 DEF Pool!PollEnd, PoolInv, PoolType, PoolOnce, PoolSlots
<1>6. CASE Pool!Kernel
  <2>1. PICK c \in wInflight : wInflight' = wInflight \ {c} /\ wCq' = Append(wCq, c)
    BY <1>6 DEF Pool!Kernel
  <2>2. UNCHANGED <<wState, channel, worker, tokens, submitted, sq, reply>>
    BY <1>6 DEF Pool!Kernel
  <2>3. c \in Cqe /\ c \notin Elements(wCq) /\ c \notin sq
    BY DEF PoolInv, PoolType, PoolOnce
  <2>4. wCq' \in Seq(Cqe) /\ Distinct(wCq') /\ Elements(wCq') = Elements(wCq) \cup {c}
    BY <2>1, <2>3, PushDistinct DEF PoolInv, PoolType, PoolOnce
  <2>5. WOps' = WOps /\ \A x : OpsOf(x)' = OpsOf(x)
    BY <2>1, <2>2, <2>4 DEF WOps, OpsOf
  <2>6. PoolOnce'
    BY <2>1, <2>2, <2>3, <2>4 DEF PoolInv, PoolOnce
  <2> QED BY <2>1, <2>2, <2>4, <2>5, <2>6 DEF PoolInv, PoolType, PoolSlots
<1>7. CASE UNCHANGED workerVars
  BY <1>1, <1>7 DEF workerVars, PoolInv, PoolType
<1> QED BY <1>2, <1>3, <1>4, <1>5, <1>6, <1>7, PoolSubmission, PoolCompletion
        DEF Pool!Next, Pool!Worker, Pool!Step

\* The invariant says what TokenOnce says.
LEMMA PoolTokenOnce == PoolInv => Pool!TokenOnce
<1> SUFFICES ASSUME PoolInv PROVE Pool!TokenOnce
  OBVIOUS
<1>1. \A S : Pool!Cardinality(S) = Cardinality(S)
  BY Zenon DEF Pool!Cardinality, Cardinality
<1>2. (\A s : Pool!Elements(s) = Elements(s)) /\ Pool!Cqe = Cqe
  BY DEF Pool!Elements, Elements, Pool!Cqe, Cqe
<1>3. worker # "dead" => Len(tokens) = Cardinality(Elements(tokens))
  BY DistinctLength DEF PoolInv, PoolType, PoolSlots
<1>4. Elements(channel) \subseteq Futures /\ Elements(tokens) \subseteq Tokens /\ Elements(wCq) \subseteq Cqe
  BY DEF PoolInv, PoolType, Elements
<1>5. Pool!TypeOK
  BY <1>2, <1>4 DEF PoolInv, PoolType, Pool!TypeOK
<1> QED BY <1>1, <1>2, <1>3, <1>5 DEF Pool!TokenOnce, PoolInv, PoolSlots, OpsOf, WOps

-----------------------------------------------------------------------------
(* LeasedRings: a ring has one user and, if it was idle, one operation     *)

LeasedType ==
  /\ lState \in [Futures -> {"created", "pending", "done", "failed", "dropped"}]
  /\ ring \in [Futures -> Rings \cup {None}]
  /\ pool \in Seq(Rings) /\ Distinct(pool) /\ unused \in SUBSET Rings
  /\ lInflight \in [Rings -> SUBSET Futures]
  /\ lCq \in [Rings -> Seq(Futures)]
  /\ lGot \in [Futures -> Futures \cup {None}]

LeasedPlaces ==
  /\ Elements(pool) \cap unused = {}
  /\ \A f \in Futures : ring[f] # None <=> lState[f] = "pending"
  /\ \A f, g \in Futures : ring[f] # None /\ ring[f] = ring[g] => f = g
  /\ \A f \in Futures : ring[f] \notin Elements(pool) \cup unused

\* The ring of a task that found it idle carries this task's operation only.
LeasedOwn ==
  /\ \A f \in Futures : lState[f] = "pending" /\ f \notin late =>
       lInflight[ring[f]] \cup Elements(lCq[ring[f]]) \subseteq {f}
  /\ \A f \in Futures : lGot[f] \in {None, f} \/ (mode = "blocking" /\ f \in late)

\* Unless a wait can be cut short, every ring that may be leased is idle, and
\* the ring of a pending task has its operation once.
LeasedClean ==
  mode # "blocking" =>
    /\ late = {}
    /\ \A r \in Elements(pool) \cup unused : lInflight[r] = {} /\ lCq[r] = <<>>
    /\ \A f \in Futures : lState[f] = "pending" =>
         \/ lInflight[ring[f]] = {f} /\ lCq[ring[f]] = <<>>
         \/ lInflight[ring[f]] = {} /\ lCq[ring[f]] = <<f>>

LeasedInv == LeasedType /\ LeasedPlaces /\ LeasedOwn /\ LeasedClean

\* At the start one ring is in the pool and none has an operation.
LEMMA LeasedInit == Leased!Init => LeasedInv
<1> SUFFICES ASSUME Leased!Init PROVE LeasedInv
  OBVIOUS
<1> DEFINE r == CHOOSE x \in Rings : TRUE
<1>1. pool = <<r>> /\ r \in Rings
  BY IoAssumption DEF Leased!Init
<1>2. pool \in Seq(Rings) /\ Distinct(pool) /\ Elements(pool) = {r}
  <2>1. pool \in Seq(Rings) /\ DOMAIN pool = {1} /\ pool[1] = r
    BY <1>1
  <2>2. Distinct(pool)
    BY <2>1 DEF Distinct
  <2>3. Elements(pool) = {r}
    BY <2>1 DEF Elements
  <2> QED BY <2>1, <2>2, <2>3
<1>3. unused = Rings \ Elements(pool)
  BY DEF Leased!Init, Leased!Elements, Elements
<1>4. LeasedType
  BY <1>2, <1>3 DEF Leased!Init, LeasedType
<1>5. LeasedPlaces
  BY <1>1, <1>2, <1>3, IoAssumption DEF Leased!Init, LeasedPlaces
<1>6. LeasedOwn /\ LeasedClean
  BY <1>1, <1>2, <1>3 DEF Leased!Init, LeasedOwn, LeasedClean
<1> QED BY <1>4, <1>5, <1>6 DEF LeasedInv

\* acquire_ring and submit_task: the ring leaves the pool and has one user.
LEMMA LeasedLease ==
  ASSUME LeasedInv, NEW f \in Futures, Leased!Lease(f)
  PROVE  LeasedInv'
<1>1. PICK r \in Rings :
       /\ \/ pool # <<>> /\ r = Head(pool) /\ pool' = Tail(pool) /\ UNCHANGED unused
          \/ pool = <<>> /\ r \in unused /\ unused' = unused \ {r} /\ UNCHANGED pool
       /\ ring' = [ring EXCEPT ![f] = r]
       /\ lInflight' = [lInflight EXCEPT ![r] = @ \cup {f}]
       /\ late' = IF lInflight[r] # {} \/ lCq[r] # <<>> THEN late \cup {f} ELSE late
  BY DEF Leased!Lease
<1>2. /\ lState[f] = "created" /\ lState' = [lState EXCEPT ![f] = "pending"]
      /\ UNCHANGED <<mode, lCq, lGot>>
  BY DEF Leased!Lease
<1>3. /\ r \in Elements(pool) \cup unused /\ pool' \in Seq(Rings) /\ Distinct(pool')
      /\ unused' \in SUBSET Rings /\ Elements(pool') \cup unused' = (Elements(pool) \cup unused) \ {r}
      /\ Elements(pool') \cap unused' = {}
  <2>1. CASE pool # <<>> /\ r = Head(pool) /\ pool' = Tail(pool) /\ UNCHANGED unused
    BY <2>1, PopDistinct DEF LeasedInv, LeasedType, LeasedPlaces
  <2>2. CASE pool = <<>> /\ r \in unused /\ unused' = unused \ {r} /\ UNCHANGED pool
    <3>1. UNCHANGED Elements(pool) /\ Elements(pool) = {}
      BY <2>2, EmptyQueue
    <3> QED BY <2>2, <3>1 DEF LeasedInv, LeasedType, LeasedPlaces
  <2> QED BY <1>1, <2>1, <2>2
<1>4. ring[f] = None /\ \A g \in Futures : ring[g] # r
  BY <1>2, <1>3, IoAssumption DEF LeasedInv, LeasedPlaces
<1>5. LeasedType'
  BY <1>1, <1>2, <1>3 DEF LeasedInv, LeasedType
<1>6. LeasedPlaces'
  BY <1>1, <1>2, <1>3, <1>4, IoAssumption DEF LeasedInv, LeasedType, LeasedPlaces
<1>7. LeasedOwn'
  <2>1. ASSUME NEW g \in Futures, lState'[g] = "pending", g \notin late'
        PROVE  lInflight'[ring'[g]] \cup Elements(lCq'[ring'[g]]) \subseteq {g}
    <3>1. CASE g = f
      <4>1. lInflight[r] = {} /\ lCq[r] = <<>>
        BY <1>1, <2>1, <3>1
      <4>2. Elements(lCq[r]) = {}
        BY <4>1, EmptyQueue
      <4>3. ring'[g] = r /\ lInflight'[r] = {f} /\ lCq' = lCq
        BY <1>1, <1>2, <3>1, <4>1 DEF LeasedInv, LeasedType
      <4> QED BY <3>1, <4>2, <4>3
    <3>2. CASE g # f
      <4>1. ring'[g] = ring[g] /\ lState[g] = "pending" /\ g \notin late /\ ring[g] \in Rings
        BY <1>1, <1>2, <2>1, <3>2 DEF LeasedInv, LeasedType, LeasedPlaces
      <4> QED BY <1>1, <1>2, <1>4, <4>1, ZenonT(60) DEF LeasedInv, LeasedType, LeasedOwn
    <3> QED BY <3>1, <3>2
  <2> QED BY <1>1, <1>2, <2>1 DEF LeasedInv, LeasedOwn
<1>8. LeasedClean'
  <2> SUFFICES ASSUME mode # "blocking" PROVE LeasedClean'
    BY <1>2 DEF LeasedClean
  <2>1. lInflight[r] = {} /\ lCq[r] = <<>> /\ late = {}
    BY <1>3 DEF LeasedInv, LeasedClean
  <2>2. late' = {}
    BY <1>1, <2>1
  <2>3. \A x \in Elements(pool') \cup unused' : lInflight'[x] = {} /\ lCq'[x] = <<>>
    BY <1>1, <1>2, <1>3 DEF LeasedInv, LeasedType, LeasedClean
  <2>4. ASSUME NEW g \in Futures, lState'[g] = "pending"
        PROVE  \/ lInflight'[ring'[g]] = {g} /\ lCq'[ring'[g]] = <<>>
               \/ lInflight'[ring'[g]] = {} /\ lCq'[ring'[g]] = <<g>>
    <3>1. CASE g = f
      BY <1>1, <1>2, <2>1, <3>1 DEF LeasedInv, LeasedType
    <3>2. CASE g # f
      <4>1. ring'[g] = ring[g] /\ lState[g] = "pending" /\ ring[g] \in Rings
        BY <1>1, <1>2, <2>4, <3>2 DEF LeasedInv, LeasedType, LeasedPlaces
      <4> QED BY <1>1, <1>2, <1>4, <4>1 DEF LeasedInv, LeasedType, LeasedClean
    <3> QED BY <3>1, <3>2
  <2> QED BY <2>2, <2>3, <2>4 DEF LeasedClean
<1> QED BY <1>5, <1>6, <1>7, <1>8 DEF LeasedInv

\* A lease that is dropped puts the ring back once; its user is done with it.
LEMMA LeasedRelease ==
  ASSUME LeasedInv, NEW f \in Futures, NEW s \in {"done", "failed"}, lState[f] = "pending",
         Leased!Release(f, s)
  PROVE  /\ pool' \in Seq(Rings) /\ Distinct(pool') /\ Elements(pool') = Elements(pool) \cup {ring[f]}
         /\ ring[f] \in Rings /\ \A g \in Futures : g # f => ring[g] # ring[f]
         /\ lState' = [lState EXCEPT ![f] = s] /\ ring' = [ring EXCEPT ![f] = None]
         /\ unused' = unused => LeasedPlaces'
<1>1. /\ lState' = [lState EXCEPT ![f] = s] /\ pool' = Append(pool, ring[f])
      /\ ring' = [ring EXCEPT ![f] = None]
  BY DEF Leased!Release
<1>2. /\ ring[f] \in Rings /\ ring[f] \notin Elements(pool) \cup unused
      /\ \A g \in Futures : g # f => ring[g] # ring[f]
  BY DEF LeasedInv, LeasedType, LeasedPlaces
<1>3. pool' \in Seq(Rings) /\ Distinct(pool') /\ Elements(pool') = Elements(pool) \cup {ring[f]}
  BY <1>1, <1>2, PushDistinct DEF LeasedInv, LeasedType
<1>4. ASSUME unused' = unused PROVE LeasedPlaces'
  <2>1. None \notin Elements(pool') \cup unused'
    BY <1>3, <1>4, IoAssumption DEF LeasedInv, LeasedType, Elements
  <2> QED BY <1>1, <1>2, <1>3, <1>4, <2>1 DEF LeasedInv, LeasedType, LeasedPlaces
<1> QED BY <1>1, <1>2, <1>3, <1>4

\* The completion that a task takes from its ring is its own if the ring was
\* idle when the task leased it.
LEMMA LeasedComplete ==
  ASSUME LeasedInv, NEW f \in Futures, Leased!Complete(f)
  PROVE  LeasedInv'
<1> DEFINE r == ring[f]
           x == Head(lCq[r])
<1>1. /\ lState[f] = "pending" /\ lCq[r] # <<>> /\ lGot' = [lGot EXCEPT ![f] = x]
      /\ lCq' = [lCq EXCEPT ![r] = Tail(@)] /\ Leased!Release(f, "done")
      /\ UNCHANGED <<mode, unused, lInflight, late>>
  BY DEF Leased!Complete
<1>2. /\ pool' \in Seq(Rings) /\ Distinct(pool') /\ Elements(pool') = Elements(pool) \cup {r}
      /\ r \in Rings /\ \A g \in Futures : g # f => ring[g] # r
      /\ lState' = [lState EXCEPT ![f] = "done"] /\ ring' = [ring EXCEPT ![f] = None]
      /\ LeasedPlaces'
  BY <1>1, LeasedRelease
<1>3. lCq[r] \in Seq(Futures) /\ x \in Futures /\ x \in Elements(lCq[r]) /\ Tail(lCq[r]) \in Seq(Futures)
  <2>1. lCq[r] \in Seq(Futures)
    BY <1>2 DEF LeasedInv, LeasedType
  <2> QED BY <1>1, <2>1, PopDistinct
<1>4. LeasedType'
  BY <1>1, <1>2, <1>3 DEF LeasedInv, LeasedType
<1>5. ASSUME NEW g \in Futures, lState'[g] = "pending"
      PROVE  /\ g # f /\ lState[g] = "pending" /\ ring'[g] = ring[g] /\ ring[g] \in Rings
             /\ lCq'[ring[g]] = lCq[ring[g]] /\ lInflight'[ring[g]] = lInflight[ring[g]]
  BY <1>1, <1>2, <1>5 DEF LeasedInv, LeasedType, LeasedPlaces
<1>6. LeasedOwn'
  <2>1. f \notin late => x = f
    BY <1>1, <1>3 DEF LeasedInv, LeasedOwn
  <2>2. f \in late => mode = "blocking"
    BY DEF LeasedInv, LeasedClean
  <2>3. \A g \in Futures : lGot'[g] \in {None, g} \/ (mode' = "blocking" /\ g \in late')
    BY <1>1, <2>1, <2>2 DEF LeasedInv, LeasedType, LeasedOwn
  <2>4. \A g \in Futures : lState'[g] = "pending" /\ g \notin late' =>
          lInflight'[ring'[g]] \cup Elements(lCq'[ring'[g]]) \subseteq {g}
    BY <1>1, <1>5 DEF LeasedInv, LeasedOwn
  <2> QED BY <2>3, <2>4 DEF LeasedOwn
<1>7. LeasedClean'
  <2> SUFFICES ASSUME mode # "blocking" PROVE LeasedClean'
    BY <1>1 DEF LeasedClean
  <2>1. lInflight[r] = {} /\ lCq[r] = <<f>>
    BY <1>1 DEF LeasedInv, LeasedClean
  <2>2. lCq'[r] = <<>> /\ \A q \in Rings : q # r => lCq'[q] = lCq[q]
    BY <1>1, <1>2, <2>1 DEF LeasedInv, LeasedType
  <2>3. Elements(pool) \subseteq Rings /\ unused \subseteq Rings
    BY DEF LeasedInv, LeasedType, Elements
  <2>4. \A q \in Elements(pool') \cup unused' : lInflight'[q] = {} /\ lCq'[q] = <<>>
    BY <1>1, <1>2, <2>1, <2>2, <2>3 DEF LeasedInv, LeasedClean
  <2>5. \A g \in Futures : lState'[g] = "pending" =>
         \/ lInflight'[ring'[g]] = {g} /\ lCq'[ring'[g]] = <<>>
         \/ lInflight'[ring'[g]] = {} /\ lCq'[ring'[g]] = <<g>>
    BY <1>5 DEF LeasedInv, LeasedClean
  <2> QED BY <1>1, <2>4, <2>5 DEF LeasedInv, LeasedClean
<1> QED BY <1>2, <1>4, <1>6, <1>7 DEF LeasedInv

\* A blocking wait that was cut short gives the ring back with its operation.
LEMMA LeasedInterrupted ==
  ASSUME LeasedInv, NEW f \in Futures, Leased!Interrupted(f)
  PROVE  LeasedInv'
<1>1. /\ mode = "blocking" /\ lState[f] = "pending" /\ Leased!Release(f, "failed")
      /\ UNCHANGED <<mode, unused, lInflight, lCq, lGot, late>>
  BY DEF Leased!Interrupted
<1>2. /\ pool' \in Seq(Rings) /\ Distinct(pool') /\ LeasedPlaces'
      /\ lState' = [lState EXCEPT ![f] = "failed"] /\ ring' = [ring EXCEPT ![f] = None]
  BY <1>1, LeasedRelease
<1>3. LeasedType'
  BY <1>1, <1>2 DEF LeasedInv, LeasedType
<1>4. ASSUME NEW g \in Futures, lState'[g] = "pending"
      PROVE  lState[g] = "pending" /\ ring'[g] = ring[g]
  BY <1>2, <1>4 DEF LeasedInv, LeasedType
<1>5. LeasedOwn'
  BY <1>1, <1>4 DEF LeasedInv, LeasedOwn
<1>6. LeasedClean'
  BY <1>1 DEF LeasedClean
<1> QED BY <1>2, <1>3, <1>5, <1>6 DEF LeasedInv

\* A pending future that is dropped closes its ring: nobody leases it again.
LEMMA LeasedDrop ==
  ASSUME LeasedInv, NEW f \in Futures, Leased!DropFuture(f)
  PROVE  LeasedInv'
<1>1. /\ lState' = [lState EXCEPT ![f] = "dropped"] /\ ring' = [ring EXCEPT ![f] = None]
      /\ UNCHANGED <<mode, pool, unused, lInflight, lCq, lGot, late>>
  BY DEF Leased!DropFuture
<1>2. UNCHANGED Elements(pool) /\ None \notin Elements(pool) \cup unused
  BY <1>1, IoAssumption DEF LeasedInv, LeasedType, Elements
<1>3. LeasedType' /\ LeasedPlaces'
  BY <1>1, <1>2 DEF LeasedInv, LeasedType, LeasedPlaces
<1>4. ASSUME NEW g \in Futures, lState'[g] = "pending"
      PROVE  lState[g] = "pending" /\ ring'[g] = ring[g]
  BY <1>1, <1>4 DEF LeasedInv, LeasedType
<1>5. LeasedOwn' /\ LeasedClean'
  BY <1>1, <1>2, <1>4 DEF LeasedInv, LeasedOwn, LeasedClean
<1> QED BY <1>3, <1>5 DEF LeasedInv

\* The kernel finishes an operation on the ring it was submitted to.
LEMMA LeasedKernel ==
  ASSUME LeasedInv, Leased!Kernel
  PROVE  LeasedInv'
<1>1. PICK r \in Rings : \E f \in lInflight[r] :
        /\ lInflight' = [lInflight EXCEPT ![r] = @ \ {f}]
        /\ lCq' = [lCq EXCEPT ![r] = Append(@, f)]
  BY DEF Leased!Kernel
<1>2. PICK f \in lInflight[r] : /\ lInflight' = [lInflight EXCEPT ![r] = @ \ {f}]
                                /\ lCq' = [lCq EXCEPT ![r] = Append(@, f)]
  BY <1>1
<1>3. UNCHANGED <<mode, lState, ring, pool, unused, lGot, late>>
  BY DEF Leased!Kernel
<1>4. lCq[r] \in Seq(Futures) /\ f \in Futures
  BY DEF LeasedInv, LeasedType
<1>5. Append(lCq[r], f) \in Seq(Futures) /\ Elements(Append(lCq[r], f)) = Elements(lCq[r]) \cup {f}
  BY <1>4, PushDistinct
<1>6. /\ lInflight'[r] = lInflight[r] \ {f} /\ lCq'[r] = Append(lCq[r], f)
      /\ \A q \in Rings : q # r => lInflight'[q] = lInflight[q] /\ lCq'[q] = lCq[q]
  BY <1>2 DEF LeasedInv, LeasedType
<1>7. UNCHANGED Elements(pool)
  BY <1>3
<1>8. LeasedType' /\ LeasedPlaces'
  BY <1>2, <1>3, <1>5, <1>7 DEF LeasedInv, LeasedType, LeasedPlaces
<1>9. \A g \in Futures : lState[g] = "pending" => ring[g] \in Rings
  BY DEF LeasedInv, LeasedType, LeasedPlaces
<1>10. LeasedOwn'
  <2>1. ASSUME NEW g \in Futures, lState[g] = "pending", g \notin late
        PROVE  lInflight'[ring[g]] \cup Elements(lCq'[ring[g]]) \subseteq {g}
    <3>1. lInflight[ring[g]] \cup Elements(lCq[ring[g]]) \subseteq {g}
      BY <2>1 DEF LeasedInv, LeasedOwn
    <3>2. CASE ring[g] = r
      BY <1>5, <1>6, <3>1, <3>2
    <3>3. CASE ring[g] # r
      BY <1>6, <1>9, <2>1, <3>1, <3>3
    <3> QED BY <3>2, <3>3
  <2> QED BY <1>3, <2>1 DEF LeasedInv, LeasedOwn
<1>11. LeasedClean'
  <2> SUFFICES ASSUME mode # "blocking" PROVE LeasedClean'
    BY <1>3 DEF LeasedClean
  <2>1. r \notin Elements(pool) \cup unused
    BY DEF LeasedInv, LeasedClean
  <2>2. Elements(pool) \cup unused \subseteq Rings
    BY DEF LeasedInv, LeasedType, Elements
  <2>3. ASSUME NEW g \in Futures, lState[g] = "pending"
        PROVE  \/ lInflight'[ring[g]] = {g} /\ lCq'[ring[g]] = <<>>
               \/ lInflight'[ring[g]] = {} /\ lCq'[ring[g]] = <<g>>
    <3>1. \/ lInflight[ring[g]] = {g} /\ lCq[ring[g]] = <<>>
          \/ lInflight[ring[g]] = {} /\ lCq[ring[g]] = <<g>>
      BY <2>3 DEF LeasedInv, LeasedClean
    <3>2. CASE ring[g] = r
      <4>1. lInflight[r] = {g} /\ lCq[r] = <<>> /\ f = g
        BY <3>1, <3>2
      <4>2. Append(<<>>, g) = <<g>>
        OBVIOUS
      <4> QED BY <1>6, <3>2, <4>1, <4>2
    <3>3. CASE ring[g] # r
      BY <1>6, <1>9, <2>3, <3>1, <3>3
    <3> QED BY <3>2, <3>3
  <2> QED BY <1>3, <1>6, <1>7, <2>1, <2>2, <2>3 DEF LeasedInv, LeasedClean
<1> QED BY <1>8, <1>10, <1>11 DEF LeasedInv

\* Every step of the tasks and the kernel keeps the invariant.
LEMMA LeasedStep == LeasedInv /\ (Leased!Next \/ UNCHANGED <<mode, leasedVars>>) => LeasedInv'
<1> SUFFICES ASSUME LeasedInv, Leased!Next \/ UNCHANGED <<mode, leasedVars>> PROVE LeasedInv'
  OBVIOUS
<1>1. CASE UNCHANGED <<mode, leasedVars>>
  <2>1. UNCHANGED Elements(pool)
    BY <1>1 DEF leasedVars
  <2> QED BY <1>1, <2>1 DEF leasedVars, LeasedInv, LeasedType, LeasedPlaces, LeasedOwn, LeasedClean
<1> QED BY <1>1, LeasedLease, LeasedComplete, LeasedInterrupted, LeasedDrop, LeasedKernel
        DEF Leased!Next, Leased!Step

\* The invariant says what LeasedOnce says.
LEMMA LeasedRingOnce == LeasedInv => Leased!LeasedOnce
<1> SUFFICES ASSUME LeasedInv PROVE Leased!LeasedOnce
  OBVIOUS
<1>1. \A S : Leased!Cardinality(S) = Cardinality(S)
  BY Zenon DEF Leased!Cardinality, Cardinality
<1>2. \A s : Leased!Elements(s) = Elements(s)
  BY DEF Leased!Elements, Elements
<1>3. Len(pool) = Cardinality(Elements(pool))
  BY DistinctLength DEF LeasedInv, LeasedType
<1>4. Elements(pool) \subseteq Rings /\ \A r \in Rings : Elements(lCq[r]) \subseteq Futures
  BY DEF LeasedInv, LeasedType, Elements
<1>5. Leased!TypeOK
  BY <1>2, <1>4 DEF LeasedInv, LeasedType, Leased!TypeOK
<1> QED BY <1>1, <1>2, <1>3, <1>5 DEF Leased!LeasedOnce, LeasedInv, LeasedPlaces

-----------------------------------------------------------------------------
(* All runtimes                                                            *)

RuntimeInv == SharedInv /\ PoolInv /\ LeasedInv

\* A step of one runtime leaves the others alone.
LEMMA RuntimeStep == RuntimeInv /\ [Next]_vars => RuntimeInv'
<1> SUFFICES ASSUME RuntimeInv, [Next]_vars PROVE RuntimeInv'
  OBVIOUS
<1>1. Shared!Next \/ UNCHANGED sharedVars
  BY DEF Next, SharedNext, PoolNext, LeasedNext, TasksNext, Rest, vars
<1>2. Pool!Next \/ UNCHANGED workerVars
  BY DEF Next, SharedNext, PoolNext, LeasedNext, TasksNext, Rest, vars
<1>3. Leased!Next \/ UNCHANGED <<mode, leasedVars>>
  BY DEF Next, SharedNext, PoolNext, LeasedNext, TasksNext, Rest, vars
<1> QED BY <1>1, <1>2, <1>3, SharedStep, PoolStep, LeasedStep DEF RuntimeInv

\* For any number of tasks, tokens and rings, and wherever futures are dropped,
\* a token of a ring is free, or held by one future, or stands for one operation,
\* and a leased ring has one user.
THEOREM TokensOnce == Spec => []TokenOnce
<1>1. Init => RuntimeInv
  BY SharedInit, PoolInit, LeasedInit DEF Init, RuntimeInv
<1>2. RuntimeInv => TokenOnce
  BY SharedTokenOnce, PoolTokenOnce, LeasedRingOnce DEF RuntimeInv, TokenOnce
<1> QED BY <1>1, <1>2, RuntimeStep, PTL DEF Spec

\* For any number of tasks, tokens and rings, a task is never completed with the
\* entry of another task's operation, except on a blocking ring that was given
\* back with an operation under way.
THEOREM CompletionsAreOwn == Spec => []OwnCompletion
<1>1. Init => RuntimeInv
  BY SharedInit, PoolInit, LeasedInit DEF Init, RuntimeInv
<1>2. RuntimeInv => OwnCompletion
  BY DEF RuntimeInv, OwnCompletion, SharedInv, SharedOwner, PoolInv, LeasedInv, LeasedOwn
<1> QED BY <1>1, <1>2, RuntimeStep, PTL DEF Spec

-----------------------------------------------------------------------------
(* IoTasks: what a transfer moves                                          *)

\* The remainder of a division by the block size.
LEMMA Remainder ==
  ASSUME NEW b \in Nat \ {0}, NEW x \in Nat
  PROVE  (x % b) \in 0 .. b - 1 /\ (x % b) <= x /\ \E q \in Nat : x = b * q + (x % b)
<1>1. (x % b) \in 0 .. b - 1
  OBVIOUS
<1>2. x \div b \in Int /\ x = b * (x \div b) + (x % b)
  OBVIOUS
<1>3. x \div b >= 0
  BY <1>1, <1>2
<1>4. (x % b) <= x
  BY <1>1, <1>2, <1>3
<1>5. \E q \in Nat : x = b * q + (x % b)
  <2> WITNESS x \div b \in Nat
  <2> QED BY <1>2
<1> QED BY <1>1, <1>4, <1>5

\* A multiple of the block size leaves nothing.
LEMMA Multiple ==
  ASSUME NEW b \in Nat \ {0}, NEW q \in Int, b * q \in Nat
  PROVE  (b * q) % b = 0
  OBVIOUS

\* compute_padding: with its padding on both sides a range starts and ends on a
\* block, also if it ended there before.
LEMMA PaddedIsAligned ==
  \A b \in Nat \ {0}, from, to \in Nat : from <= to =>
    LET low == from % b
        high == (b - (to % b)) % b
    IN  /\ low \in 0 .. b - 1 /\ high \in 0 .. b - 1 /\ low <= from
        /\ (from - low) % b = 0
        /\ to - from + low + high \in Nat
        /\ (to - from + low + high) % b = 0
<1> TAKE b \in Nat \ {0}, from \in Nat, to \in Nat
<1> HAVE from <= to
<1> DEFINE low == from % b
           high == (b - (to % b)) % b
<1>0. low = from % b /\ high = (b - (to % b)) % b
  OBVIOUS
<1> SUFFICES /\ low \in 0 .. b - 1 /\ high \in 0 .. b - 1 /\ low <= from
             /\ (from - low) % b = 0
             /\ to - from + low + high \in Nat
             /\ (to - from + low + high) % b = 0
  OBVIOUS
<1> HIDE DEF low, high
<1>1. PICK p \in Nat : from = b * p + low /\ low \in 0 .. b - 1 /\ low <= from
  BY <1>0, Remainder
<1>2. PICK q \in Nat : to = b * q + (to % b) /\ (to % b) \in 0 .. b - 1
  BY Remainder
<1>3. (b - (to % b)) \in 1 .. b /\ high \in 0 .. b - 1
  BY <1>0, <1>2
<1>4. from - low = b * p
  BY <1>1
<1>5. (from - low) % b = 0
  <2>1. b * p \in Nat /\ p \in Int
    BY <1>1, <1>4
  <2> QED BY <1>4, <2>1, Multiple
<1>6. CASE (to % b) = 0
  <2>1. high = 0
    BY <1>0, <1>6
  <2>2. to - from + low + high = b * (q - p)
    <3>1. b * (q - p) = b * q - b * p /\ b * q \in Nat /\ b * p \in Nat
      OBVIOUS
    <3> QED BY <1>1, <1>2, <1>6, <2>1, <3>1
  <2>3. to - from + low + high \in Nat
    BY <1>1, <1>3
  <2>4. (b * (q - p)) % b = 0
    BY <2>2, <2>3, Multiple
  <2> QED BY <1>1, <1>3, <1>5, <2>2, <2>3, <2>4
<1>7. CASE (to % b) # 0
  <2>1. high = b - (to % b)
    BY <1>0, <1>2, <1>7
  <2>2. to - from + low + high = b * (q - p + 1)
    <3>1. b * (q - p + 1) = b * q - b * p + b /\ b * q \in Nat /\ b * p \in Nat
      OBVIOUS
    <3>2. \A u, v, m, l, h \in Int : to = u + m /\ from = v + l /\ h = b - m =>
            to - from + l + h = u - v + b
      OBVIOUS
    <3>3. to - from + low + high = b * q - b * p + b
      BY <1>1, <1>2, <1>3, <2>1, <3>1, <3>2
    <3> QED BY <3>1, <3>3
  <2>3. to - from + low + high \in Nat
    BY <1>1, <1>3
  <2>4. (b * (q - p + 1)) % b = 0
    BY <2>2, <2>3, Multiple
  <2> QED BY <1>1, <1>3, <1>5, <2>2, <2>3, <2>4
<1> QED BY <1>6, <1>7

\* The smaller and the larger of two numbers.
LEMMA MinMax ==
  ASSUME NEW a \in Int, NEW b \in Int
  PROVE  /\ Min({a, b}) = IF a <= b THEN a ELSE b
         /\ Max({a, b}) = IF a >= b THEN a ELSE b
  BY DEF Min, Max

TaskStates == {"idle", "write", "open", "read", "result"}
IsRange(r) == r \in Nat \X Nat /\ r[1] <= r[2]

\* The buffer of a read has room for the padded range from its first aligned
\* byte on.
ReadIsBuilt(t) ==
  /\ t.base \in 0 .. BlockAlign - 1 /\ t.offset = (BlockAlign - t.base) % BlockAlign
  /\ t.backend = "uring" => t.base = 0
  /\ t.buffer = Zeros(AlignedBytes(t) + Spare(t))

TaskInv ==
  /\ short \in BOOLEAN /\ wanted \in Seq(Nat)
  /\ disk = <<>> \/ (disk = <<disk[1]>> /\ disk[1] \in Seq(Nat))
  /\ task.at \in TaskStates
  /\ task.at = "write" => task.data \in Seq(Nat)
  /\ task.at # "write" /\ disk # <<>> /\ ~short => disk[1] = wanted
  /\ task.at \in {"open", "read", "result"} => IsRange(task.range) /\ disk # <<>>
  /\ task.at \in {"open", "read"} => task.backend \in {"uring", "uringDirect"}
  /\ task.at = "read" => ReadIsBuilt(task)
  /\ TransfersExact

\* The bytes of the file, once there is one.
LEMMA FileBytes ==
  ASSUME TaskInv, disk # <<>>
  PROVE  disk[1] \in Seq(Nat) /\ disk = <<disk[1]>>
  BY DEF TaskInv

\* A range of the caller, or the whole file.
LEMMA RangeIsRange ==
  ASSUME TaskInv, disk # <<>>, NEW range \in Ranges \union {<<>>}
  PROVE  IsRange(RangeOf(range))
<1>1. CASE range = <<>>
  BY <1>1, FileBytes DEF RangeOf, IsRange
<1>2. CASE range \in Ranges /\ range # <<>>
  BY <1>2, IoTasksAssumption DEF RangeOf, IsRange, Ranges
<1> QED BY <1>1, <1>2

\* The buffer of a read task is large enough for the padding and the spare block.
LEMMA BufferBounds ==
  ASSUME NEW t, IsRange(t.range), t.backend \in {"uring", "uringDirect"}, ReadIsBuilt(t)
  PROVE  /\ Padding(t)[1] \in Nat /\ Padding(t)[1] <= t.range[1]
         /\ AlignedBytes(t) \in Nat /\ t.range[2] - t.range[1] + Padding(t)[1] <= AlignedBytes(t)
         /\ t.offset \in Nat /\ t.offset <= Spare(t) /\ Spare(t) \in Nat
         /\ t.backend = "uringDirect" => DirectIsLegal(t)
<1>1. BlockAlign \in Nat \ {0} /\ t.range[1] \in Nat /\ t.range[2] \in Nat /\ t.range[1] <= t.range[2]
  BY IoTasksAssumption DEF IsRange
<1>2. CASE t.backend = "uringDirect"
  <2> DEFINE low == t.range[1] % BlockAlign
             high == (BlockAlign - (t.range[2] % BlockAlign)) % BlockAlign
  <2>1. Padding(t) = <<low, high>> /\ Spare(t) = BlockAlign
    BY <1>2 DEF Padding, ComputePadding, Spare
  <2>2. /\ low \in 0 .. BlockAlign - 1 /\ high \in 0 .. BlockAlign - 1 /\ low <= t.range[1]
        /\ (t.range[1] - low) % BlockAlign = 0
        /\ t.range[2] - t.range[1] + low + high \in Nat
        /\ (t.range[2] - t.range[1] + low + high) % BlockAlign = 0
    <3>1. low = t.range[1] % BlockAlign /\ high = (BlockAlign - (t.range[2] % BlockAlign)) % BlockAlign
      OBVIOUS
    <3> QED BY <1>1, <3>1, PaddedIsAligned
  <2>3. AlignedBytes(t) = t.range[2] - t.range[1] + low + high
    BY <2>1 DEF AlignedBytes
  <2>4. t.base \in 0 .. BlockAlign - 1 /\ t.offset = (BlockAlign - t.base) % BlockAlign
    BY DEF ReadIsBuilt
  <2>5. t.offset \in 0 .. BlockAlign - 1 /\ (t.base + t.offset) % BlockAlign = 0
    <3>1. CASE t.base = 0
      BY <1>1, <2>4, <3>1
    <3>2. CASE t.base # 0
      <4>1. t.offset = BlockAlign - t.base
        BY <1>1, <2>4, <3>2
      <4>2. t.base + t.offset = BlockAlign
        BY <1>1, <2>4, <4>1
      <4>3. BlockAlign % BlockAlign = 0
        BY <1>1
      <4>4. t.offset \in 0 .. BlockAlign - 1
        BY <1>1, <2>4, <3>2, <4>1
      <4> QED BY <4>2, <4>3, <4>4
    <3> QED BY <3>1, <3>2
  <2> HIDE DEF low, high
  <2>6. DirectIsLegal(t)
    BY <2>1, <2>2, <2>3, <2>5 DEF DirectIsLegal
  <2> QED BY <1>1, <2>1, <2>2, <2>3, <2>5, <2>6
<1>3. CASE t.backend = "uring"
  <2>1. Padding(t) = <<0, 0>> /\ Spare(t) = 0
    BY <1>3 DEF Padding, ComputePadding, Spare
  <2>2. t.offset = 0
    BY <1>1, <1>3 DEF ReadIsBuilt
  <2>3. AlignedBytes(t) = t.range[2] - t.range[1]
    BY <1>1, <2>1 DEF AlignedBytes
  <2> QED BY <1>1, <1>3, <2>1, <2>2, <2>3
<1> QED BY <1>2, <1>3

\* into_result: a transfer of all that could be read puts the bytes of the range
\* where the slice looks for them.
LEMMA SliceIsRange ==
  ASSUME NEW t, IsRange(t.range), t.backend \in {"uring", "uringDirect"}, ReadIsBuilt(t),
         disk[1] \in Seq(Nat), t.range[2] <= Len(disk[1])
  PROVE  Slice(t, Filled(t, Readable(t))) = SubSeq(disk[1], t.range[1] + 1, t.range[2])
<1>1. PICK d \in Seq(Nat), from \in Nat, to \in Nat :
        disk[1] = d /\ t.range[1] = from /\ t.range[2] = to /\ from <= to /\ to <= Len(d)
  BY DEF IsRange
<1>2. PICK low \in Nat, offset \in Nat, aligned \in Nat, spare \in Nat :
        /\ Padding(t)[1] = low /\ t.offset = offset /\ AlignedBytes(t) = aligned /\ Spare(t) = spare
        /\ low <= from /\ to - from + low <= aligned /\ offset <= spare
  BY <1>1, BufferBounds
<1>3. DOMAIN t.buffer = 1 .. aligned + spare
  BY <1>2 DEF ReadIsBuilt, Zeros
<1>4. PICK n \in Nat : Readable(t) = n /\ to - from + low <= n
  <2> DEFINE left == Len(d) - (from - low)
             m == Min({aligned, left})
  <2>1. left \in Int /\ to - from + low <= left
    BY <1>1, <1>2
  <2>2. Readable(t) = Max({0, m})
    BY <1>1, <1>2 DEF Readable
  <2> HIDE DEF left
  <2>3. m = IF aligned <= left THEN aligned ELSE left
    <3>1. aligned \in Int
      OBVIOUS
    <3> QED BY <2>1, <3>1, MinMax
  <2> HIDE DEF m
  <2>4. m \in Int /\ to - from + low <= m /\ m >= 0
    BY <1>1, <1>2, <2>1, <2>3
  <2>5. Max({0, m}) = m
    <3>1. 0 \in Int
      OBVIOUS
    <3>2. Max({0, m}) = IF 0 >= m THEN 0 ELSE m
      BY <2>4, <3>1, MinMax, Zenon
    <3> QED BY <2>4, <3>2
  <2> QED BY <2>2, <2>4, <2>5
<1>5. \A i \in 1 .. aligned + spare :
        i - offset \in 1 .. n => Filled(t, n)[i] = d[from - low + i - offset]
  BY <1>1, <1>2, <1>3 DEF Filled
<1>6. Slice(t, Filled(t, n)) = SubSeq(Filled(t, n), offset + low + 1, offset + low + to - from)
  BY <1>1, <1>2 DEF Slice
<1>7. PICK size \in Nat : size = aligned + spare
  OBVIOUS
<1> DEFINE buffer == Filled(t, n)
<1>8. /\ from <= to /\ to <= Len(d) /\ offset + low + to - from <= size /\ to - from + low <= n
      /\ \A i \in 1 .. size : i - offset \in 1 .. n => buffer[i] = d[from - low + i - offset]
  <2>1. from <= to /\ to <= Len(d) /\ to - from + low <= n
    BY <1>1, <1>4
  <2>2. offset + low + to - from <= size
    BY <1>2, <1>7
  <2>3. \A i \in 1 .. size : i - offset \in 1 .. n => buffer[i] = d[from - low + i - offset]
    BY <1>5, <1>7, Zenon
  <2> QED BY <2>1, <2>2, <2>3
<1> HIDE DEF buffer
<1>9. from <= to /\ to <= Len(d)
  BY <1>8
<1> USE <1>9
<1> DEFINE s == offset + low
           a == SubSeq(buffer, s + 1, s + to - from)
           z == SubSeq(d, from + 1, to)
<1>10. ASSUME NEW i \in 1 .. to - from PROVE buffer[s + i] = d[from + i] /\ d[from + i] \in Nat
  <2>0. offset + low + to - from <= size /\ to - from + low <= n
    BY <1>8
  <2>1. s + i \in 1 .. size /\ s + i - offset \in 1 .. n /\ from - low + (s + i) - offset = from + i
    BY <1>10, <2>0
  <2>2. from + i \in 1 .. Len(d)
    BY <1>10, SMTT(40)
  <2>3. buffer[s + i] = d[from - low + (s + i) - offset]
    BY <1>8, <2>1
  <2> QED BY <2>1, <2>2, <2>3
<1>11. /\ a \in Seq(Nat) /\ Len(a) = to - from
      /\ \A i \in 1 .. to - from : a[i] = d[from + i]
  <2>1. PICK m \in Int, k \in Int : m = s + 1 /\ k = s + to - from
    OBVIOUS
  <2>2. ASSUME NEW j \in m .. k PROVE buffer[j] \in Nat
    <3>1. j - s \in 1 .. to - from /\ s + (j - s) = j
      BY <2>1, <2>2
    <3> QED BY <1>10, <3>1
  <2>3. /\ SubSeq(buffer, m, k) \in Seq(Nat)
        /\ Len(SubSeq(buffer, m, k)) = IF m <= k THEN k - m + 1 ELSE 0
        /\ \A i \in 1 .. k - m + 1 : SubSeq(buffer, m, k)[i] = buffer[m + i - 1]
    BY <2>2, SubSeqProperties
  <2>4. a = SubSeq(buffer, m, k) /\ k - m + 1 = to - from
    BY <2>1
  <2>5. Len(a) = to - from
    BY <2>3, <2>4
  <2>6. ASSUME NEW i \in 1 .. to - from PROVE a[i] = d[from + i]
    <3>1. m + i - 1 = s + i
      BY <2>1, <2>6
    <3> QED BY <1>10, <2>3, <2>4, <3>1
  <2> QED BY <2>3, <2>4, <2>5, <2>6
<1>12. /\ z \in Seq(Nat) /\ Len(z) = to - from
      /\ \A i \in 1 .. to - from : z[i] = d[from + i]
  <2>1. ASSUME NEW j \in from + 1 .. to PROVE d[j] \in Nat
    BY <2>1
  <2>2. /\ z \in Seq(Nat)
        /\ Len(z) = IF from + 1 <= to THEN to - (from + 1) + 1 ELSE 0
        /\ \A i \in 1 .. to - (from + 1) + 1 : z[i] = d[(from + 1) + i - 1]
    BY <2>1, SubSeqProperties
  <2>3. Len(z) = to - from
    BY <2>2
  <2>4. ASSUME NEW i \in 1 .. to - from PROVE z[i] = d[from + i]
    <3>1. to - (from + 1) + 1 = to - from /\ (from + 1) + i - 1 = from + i
      BY <2>4
    <3> QED BY <2>2, <3>1
  <2> QED BY <2>2, <2>3, <2>4
<1> HIDE DEF a, z
<1>13. a = z
  BY <1>11, <1>12, SeqEqual
<1> QED BY <1>1, <1>4, <1>6, <1>13 DEF a, z, buffer

\* The range a read asked for comes back whole unless a transfer was short.
LEMMA TaskStep == TaskInv /\ (TaskNext \/ UNCHANGED taskVars) => TaskInv'
<1> SUFFICES ASSUME TaskInv, TaskNext \/ UNCHANGED taskVars PROVE TaskInv'
  OBVIOUS
<1>1. ASSUME NEW backend \in Backends, NEW data \in Data, StartWrite(backend, data) PROVE TaskInv'
  <2>1. data \in Seq(Nat)
    BY DEF Data
  <2>2. <<>> \in Seq(Nat) /\ disk' = <<<<>>>> /\ disk' # <<>>
    BY <1>1 DEF StartWrite
  <2>3. task' = [at |-> "write", backend |-> backend, data |-> data] /\ UNCHANGED <<wanted, short>>
    BY <1>1 DEF StartWrite
  <2>4. \E d \in Seq(Nat) : disk' = <<d>>
    BY <2>2
  <2> QED BY <2>1, <2>2, <2>3, <2>4 DEF TaskInv, TransfersExact, TaskStates
<1>2. ASSUME NEW n \in Nat, CompleteWrite(n) PROVE TaskInv'
  <2>1. /\ task.at = "write" /\ n \in 0 .. Len(task.data) /\ disk' = <<SubSeq(task.data, 1, n)>>
        /\ wanted' = task.data /\ short' = (short \/ n < Len(task.data)) /\ task' = [at |-> "idle"]
    BY <1>2 DEF CompleteWrite, Idle
  <2>2. PICK d \in Seq(Nat) : task.data = d
    BY <2>1 DEF TaskInv
  <2>3. SubSeq(d, 1, n) \in Seq(Nat) /\ (n = Len(d) => SubSeq(d, 1, n) = d)
    BY <2>1, <2>2, SubSeqFull
  <2>4. ASSUME ~short' PROVE disk'[1] = wanted'
    <3>1. ~(n < Len(d))
      BY <2>1, <2>2, <2>4
    <3>2. n = Len(d)
      BY <2>1, <2>2, <3>1
    <3> QED BY <2>1, <2>2, <2>3, <3>2
  <2>5. (\E x \in Seq(Nat) : disk' = <<x>>) /\ short' \in BOOLEAN /\ wanted' \in Seq(Nat)
    BY <2>1, <2>2, <2>3 DEF TaskInv
  <2> QED BY <2>1, <2>4, <2>5 DEF TaskInv, TransfersExact, TaskStates
<1>3. ASSUME NEW backend \in Backends, NEW range \in Ranges \union {<<>>}, Open(backend, range)
      PROVE  TaskInv'
  <2>1. /\ Uring(backend) /\ task.at \in {"idle", "result"} /\ disk # <<>>
        /\ task' = [at |-> "open", backend |-> backend, range |-> RangeOf(range)]
        /\ UNCHANGED <<disk, wanted, short>>
    BY <1>3 DEF Open
  <2>2. IsRange(RangeOf(range))
    BY <1>3, <2>1, RangeIsRange
  <2> QED BY <2>1, <2>2 DEF TaskInv, TransfersExact, TaskStates, Uring
<1>4. ASSUME NEW range \in Ranges \union {<<>>}, ReadExact(range) PROVE TaskInv'
  <2> DEFINE r == RangeOf(range)
             d == disk[1]
  <2>1. /\ task.at \in {"idle", "result"} /\ disk # <<>> /\ UNCHANGED <<disk, wanted, short>>
        /\ task' = Result(r, r[2] <= Len(d), SubSeq(d, r[1] + 1, Min({r[2], Len(d)})))
    BY <1>4 DEF ReadExact
  <2>2. IsRange(r) /\ d \in Seq(Nat) /\ Len(d) \in Nat
    BY <1>4, <2>1, RangeIsRange, FileBytes
  <2>3. /\ task'.at = "result" /\ task'.range = r /\ task'.ok = (r[2] <= Len(d))
        /\ task'.bytes = SubSeq(d, r[1] + 1, Min({r[2], Len(d)}))
    BY <2>1 DEF Result
  <2>4. ASSUME ~short, r[2] <= Len(wanted)
        PROVE  r[2] <= Len(d) /\ task'.bytes = SubSeq(wanted, r[1] + 1, r[2])
    <3>1. d = wanted
      BY <2>1, <2>4 DEF TaskInv
    <3>2. r[2] \in Nat
      BY <2>2 DEF IsRange
    <3> HIDE DEF r, d
    <3>3. Min({r[2], Len(d)}) = r[2]
      BY <2>2, <2>4, <3>1, <3>2, MinMax
    <3> QED BY <2>3, <2>4, <3>1, <3>3
  <2> HIDE DEF r, d
  <2>5. TransfersExact'
    BY <2>1, <2>3, <2>4 DEF TransfersExact
  <2> QED BY <2>1, <2>2, <2>3, <2>5 DEF TaskInv, TaskStates
<1>5. ASSUME NEW base \in Nat, BuildRead(base) PROVE TaskInv'
  <2>1. /\ task.at = "open" /\ base \in 0 .. BlockAlign - 1
        /\ task.backend = "uringDirect" \/ base = 0
        /\ task' = [at |-> "read", backend |-> task.backend, range |-> task.range,
                    offset |-> (BlockAlign - base) % BlockAlign, base |-> base,
                    buffer |-> Zeros(AlignedBytes(task) + Spare(task))]
        /\ UNCHANGED <<disk, wanted, short>>
    BY <1>5 DEF BuildRead
  <2>2. /\ task'.at = "read" /\ task'.backend = task.backend /\ task'.range = task.range
        /\ task'.offset = (BlockAlign - base) % BlockAlign /\ task'.base = base
        /\ task'.buffer = Zeros(AlignedBytes(task) + Spare(task))
    BY <2>1
  <2>3. AlignedBytes(task)' = AlignedBytes(task) /\ Spare(task)' = Spare(task)
    BY <2>2 DEF AlignedBytes, Spare, Padding
  <2>4. ReadIsBuilt(task)'
    BY <2>1, <2>2, <2>3 DEF ReadIsBuilt
  <2> QED BY <2>1, <2>2, <2>4 DEF TaskInv, TransfersExact, TaskStates
<1>6. ASSUME NEW n \in Nat, CompleteRead(n) PROVE TaskInv'
  <2> DEFINE r == task.range
             d == disk[1]
  <2>1. /\ task.at = "read" /\ n \in 0 .. Readable(task) /\ UNCHANGED <<disk, wanted>>
        /\ task' = Result(r, task.backend = "uring" \/ DirectIsLegal(task), Slice(task, Filled(task, n)))
        /\ short' = (short \/ n < Readable(task))
    BY <1>6 DEF CompleteRead
  <2>2. /\ IsRange(r) /\ d \in Seq(Nat) /\ disk # <<>> /\ ReadIsBuilt(task)
        /\ task.backend \in {"uring", "uringDirect"}
    BY <2>1, FileBytes DEF TaskInv
  <2>3. /\ task'.at = "result" /\ task'.range = r
        /\ task'.ok = (task.backend = "uring" \/ DirectIsLegal(task))
        /\ task'.bytes = Slice(task, Filled(task, n))
    BY <2>1 DEF Result
  <2>4. task'.ok
    BY <2>2, <2>3, BufferBounds
  <2>5. ASSUME ~short', r[2] <= Len(wanted)
        PROVE  task'.bytes = SubSeq(wanted, r[1] + 1, r[2])
    <3>1. ~short /\ ~(n < Readable(task))
      BY <2>1, <2>5
    <3>2. d = wanted
      BY <2>1, <2>2, <3>1 DEF TaskInv
    <3>3. Readable(task) \in Int
      <4>1. AlignedBytes(task) \in Int /\ Padding(task)[1] \in Int /\ r[1] \in Int /\ Len(d) \in Int
        BY <2>2, BufferBounds DEF IsRange
      <4> DEFINE k == Len(d) - (r[1] - Padding(task)[1])
                 m == Min({AlignedBytes(task), k})
      <4>2. k \in Int
        BY <4>1
      <4>3. Readable(task) = Max({0, m})
        BY DEF Readable
      <4> HIDE DEF k
      <4>4. m \in Int
        BY <4>1, <4>2, MinMax
      <4> HIDE DEF m
      <4>5. 0 \in Int
        OBVIOUS
      <4>6. Max({0, m}) = IF 0 >= m THEN 0 ELSE m
        BY <4>4, <4>5, MinMax, Zenon
      <4> QED BY <4>3, <4>4, <4>6
    <3>4. n = Readable(task)
      BY <2>1, <3>1, <3>3
    <3>5. Slice(task, Filled(task, Readable(task))) = SubSeq(d, r[1] + 1, r[2])
      BY <2>2, <2>5, <3>2, SliceIsRange
    <3> QED BY <2>3, <3>2, <3>4, <3>5
  <2> HIDE DEF r, d
  <2>6. TransfersExact'
    BY <2>1, <2>3, <2>4, <2>5 DEF TransfersExact
  <2>7. short' \in BOOLEAN /\ (~short' => ~short)
    BY <2>1 DEF TaskInv
  <2> QED BY <2>1, <2>2, <2>3, <2>6, <2>7 DEF TaskInv, TaskStates
<1>7. CASE UNCHANGED taskVars
  <2>1. disk' = disk /\ task' = task /\ wanted' = wanted /\ short' = short
    BY <1>7 DEF taskVars
  <2>2. ReadIsBuilt(task)' = ReadIsBuilt(task)
    BY <2>1 DEF ReadIsBuilt, AlignedBytes, Spare, Padding
  <2>3. TransfersExact' = TransfersExact
    BY <2>1 DEF TransfersExact
  <2> QED BY <2>1, <2>2, <2>3 DEF TaskInv
<1>8. \A n \in 0 .. MaxLength + 2 * BlockAlign : n \in Nat
  BY IoTasksAssumption
<1> QED BY <1>1, <1>2, <1>3, <1>4, <1>5, <1>6, <1>7, <1>8 DEF TaskNext

\* Whatever the block size, the alignment of range, file and buffer and the back
\* end, a read that was not cut short returns the bytes of its range.
THEOREM TransfersAreExact == Spec => []TransfersExact
<1>1. Init => TaskInv
  <2>1. SUFFICES ASSUME TaskInit PROVE TaskInv
    BY DEF Init
  <2>2. disk = <<>> /\ task = [at |-> "idle"] /\ wanted = <<>> /\ short = FALSE
    BY <2>1 DEF TaskInit, Idle
  <2>3. <<>> \in Seq(Nat) /\ task.at = "idle"
    BY <2>2
  <2> QED BY <2>2, <2>3 DEF TaskInv, TaskStates, TransfersExact
<1>2. TaskInv /\ [Next]_vars => TaskInv'
  <2>1. [Next]_vars => TaskNext \/ UNCHANGED taskVars
    BY DEF Next, SharedNext, PoolNext, LeasedNext, TasksNext, Rest, vars
  <2> QED BY <2>1, TaskStep
<1>3. TaskInv => TransfersExact
  BY DEF TaskInv
<1> QED BY <1>1, <1>2, <1>3, PTL DEF Spec
=============================================================================
