---------------------------- MODULE HandPolicies ----------------------------
(***************************************************************************)
(* ClockPolicy and SievePolicy: one list of nodes with a bit, swept by a   *)
(* hand that points into the list.  Clock appends entries with the bit     *)
(* set and sweeps towards the tail; Sieve pushes them at the front with    *)
(* the bit clear and sweeps towards the head.  Every operation holds the   *)
(* policy's mutex.                                                         *)
(***************************************************************************)
EXTENDS PolicyConstants, SequencesExt

VARIABLES policy,       \* "Clock" or "Sieve"
          list,         \* Seq(Entries), head first
          bit,          \* [Entries -> BOOLEAN]: referenced, visited
          hand,         \* an entry of the list, or None
          totalSize,    \* total_size, with every entry of size 1
          advice        \* what the last call returned

vars == <<policy, list, bit, hand, totalSize, advice>>

Init ==
  /\ list = <<>>
  /\ bit = [e \in Entries |-> FALSE]
  /\ hand = None
  /\ totalSize = 0
  /\ advice = <<>>

\* Mistakes: a bit does not spare its entry; the hand stays on a freed node.
EvictAtHand(cnt) ==
  /\ cnt > 0 /\ list # <<>>
  /\ list' = RemoveFirst(list, hand)
  /\ hand' = IF list' = <<>> THEN None ELSE list'[1]
  /\ bit' = [bit EXCEPT ![hand] = FALSE]
  /\ totalSize' = totalSize - 1
  /\ advice' = <<hand>>
  /\ UNCHANGED policy
EvictUnderHand(cnt) ==
  /\ cnt > 0 /\ list # <<>>
  /\ list' = RemoveFirst(list, hand)
  /\ totalSize' = totalSize - 1
  /\ advice' = <<hand>>
  /\ UNCHANGED <<policy, hand, bit>>
NotifyInsert(e) ==
  /\ IF e \in ToSet(list)
     THEN /\ bit' = [bit EXCEPT ![e] = TRUE]
          /\ UNCHANGED <<list, hand, totalSize>>
     ELSE /\ list' = IF policy = "Clock" THEN Append(list, e) ELSE <<e>> \o list
          /\ bit' = [bit EXCEPT ![e] = (policy = "Clock")]
          /\ hand' = IF (policy = "Clock" /\ hand = None) \/ (policy = "Sieve" /\ list = <<>>)
                     THEN e ELSE hand
          /\ totalSize' = totalSize + 1
  /\ advice' = <<>>
  /\ UNCHANGED policy

NotifyAccess(e) ==
  /\ bit' = [bit EXCEPT ![e] = @ \/ e \in ToSet(list)]
  /\ advice' = <<>>
  /\ UNCHANGED <<policy, list, hand, totalSize>>

Position(l, e) == CHOOSE i \in DOMAIN l : l[i] = e

\* Where the hand goes from e: the neighbour, or round the end of the list l.
After(l, e) ==
  IF policy = "Clock"
  THEN IF Position(l, e) < Len(l) THEN l[Position(l, e) + 1] ELSE l[1]
  ELSE IF Position(l, e) > 1 THEN l[Position(l, e) - 1] ELSE l[Len(l)]

\* Where the sweep starts when there is no hand.
Start(l) == IF policy = "Clock" THEN l[1] ELSE l[Len(l)]

\* A turn of the loops of find_victim: a node with its bit set is spared once;
\* another is unlinked, and the hand moves to its neighbour.
Turn(s, cnt) ==
  LET e == IF s.hand = None THEN Start(s.list) ELSE s.hand IN
  IF Len(s.advice) = cnt \/ s.list = <<>> THEN s
  ELSE IF s.bit[e] THEN [s EXCEPT !.bit[e] = FALSE, !.hand = After(s.list, e)]
  ELSE [s EXCEPT !.list = RemoveFirst(s.list, e),
                 !.hand = IF Len(s.list) = 1 THEN None ELSE After(s.list, e),
                 !.advice = Append(s.advice, e)]

\* The loops take at most two turns for a node: one that spares it, one that
\* unlinks it.
Sweep(s, cnt) ==
  LET after[k \in 0 .. 2 * Len(s.list)] == IF k = 0 THEN s ELSE Turn(after[k - 1], cnt)
  IN after[2 * Len(s.list)]

FindVictim(cnt) ==
  LET s == Sweep([list |-> list, bit |-> bit, hand |-> hand, advice |-> <<>>], cnt) IN
  /\ list' = s.list
  /\ bit' = [e \in Entries |-> s.bit[e] /\ e \in ToSet(s.list)]
  /\ hand' = s.hand
  /\ totalSize' = totalSize - Len(s.advice)
  /\ advice' = s.advice
  /\ UNCHANGED policy

Next ==
  \/ \E e \in Entries : NotifyInsert(e) \/ NotifyAccess(e)
  \/ \E cnt \in 0..MaxCount : FindVictim(cnt)

Spec == Init /\ [][Next]_vars

-----------------------------------------------------------------------------
\* Type invariant: the list has no duplicates.
TypeOK ==
  /\ list \in UNION {[1..n -> Entries] : n \in 0..Cardinality(Entries)}
  /\ Cardinality(ToSet(list)) = Len(list)
  /\ bit \in [Entries -> BOOLEAN]
  /\ totalSize \in Nat

\* The hand never dangles: the node it points to has not been freed, and it
\* points somewhere as long as there is a node; total_size counts the nodes.
HandInList ==
  /\ IF list = <<>> THEN hand = None ELSE hand \in ToSet(list)
  /\ totalSize = Len(list)

\* A second chance: an entry that was touched since the hand last passed is
\* advised alone only when every entry was.
SecondChance ==
  [][advice' # <<>> /\ Len(advice') = 1 /\ bit[advice'[1]] => \A e \in ToSet(list) : bit[e]]_vars
=============================================================================
