------------------------------- MODULE S3Fifo -------------------------------
(***************************************************************************)
(* S3FifoPolicy (policies/cache/s3_fifo.rs): a small queue for new         *)
(* entries, a main queue for those touched twice or seen again after their *)
(* eviction, and a ghost queue that remembers evicted entries.  Queues are *)
(* sequences whose front is the newest.  Every operation holds the mutex.  *)
(***************************************************************************)
EXTENDS PolicyConstants, SequencesExt

VARIABLES small, main, ghost,     \* the three queues
          ghostSet,               \* ghost_set
          freq,                   \* frequency: [Entries -> 0..3 or Absent]
          smallSize, mainSize, totalSize,
          advice,                 \* what the last call returned
          advised                 \* ghost: entries advised, not inserted since

vars == <<small, main, ghost, ghostSet, freq, smallSize, mainSize, totalSize, advice, advised>>

Absent == 9
MaxFreq == 3

Init ==
  /\ small = <<>> /\ main = <<>> /\ ghost = <<>> /\ ghostSet = {}
  /\ freq = [e \in Entries |-> Absent]
  /\ smallSize = 0 /\ mainSize = 0 /\ totalSize = 0
  /\ advice = <<>> /\ advised = {}

\* check_if_entry_exists_in_small_or_main
Exists(e) == freq[e] # Absent /\ e \notin ghostSet

\* inc_frequency with cap_frequency
Inc(e) == [freq EXCEPT ![e] = IF @ = Absent \/ @ = MaxFreq THEN @ ELSE @ + 1]

\* retain(|x| *x != e)
Retain(s, e) == FlattenSeq([i \in DOMAIN s |-> IF s[i] = e THEN <<>> ELSE <<s[i]>>])

NotifyInsert(e) ==
  /\ Len(small) + Len(main) < MaxQueue
  /\ \/ /\ Exists(e)
        /\ freq' = Inc(e)
        /\ UNCHANGED <<small, main, ghost, ghostSet, smallSize, mainSize, totalSize>>
     \/ /\ ~Exists(e) /\ e \in ghostSet
        /\ ghostSet' = ghostSet \ {e}
        /\ ghost' = Retain(ghost, e)
        /\ main' = Cons(e, main)
        /\ mainSize' = mainSize + 1 /\ totalSize' = totalSize + 1
        /\ UNCHANGED <<small, smallSize, freq>>
     \/ /\ ~Exists(e) /\ e \notin ghostSet
        /\ small' = Cons(e, small)
        /\ smallSize' = smallSize + 1 /\ totalSize' = totalSize + 1
        /\ freq' = [freq EXCEPT ![e] = 0]
        /\ UNCHANGED <<main, mainSize, ghost, ghostSet>>
  /\ advised' = advised \ {e}
  /\ advice' = <<>>

NotifyAccess(e) ==
  /\ freq' = IF Exists(e) THEN Inc(e) ELSE freq
  /\ advice' = <<>>
  /\ UNCHANGED <<small, main, ghost, ghostSet, smallSize, mainSize, totalSize, advised>>

\* One turn of evict_from_small: an entry touched more than once moves to main,
\* another is advised and remembered.
TurnSmall(s) ==
  LET e == Last(s.small)
      f == IF s.freq[e] = Absent THEN 0 ELSE s.freq[e]
      t == [s EXCEPT !.small = Front(@), !.smallSize = @ - 1]
  IN IF f > 1
     THEN [t EXCEPT !.main = Cons(e, @), !.mainSize = @ + 1, !.freq[e] = 0]
     ELSE [t EXCEPT !.totalSize = @ - 1, !.ghost = Cons(e, @),
                    !.ghostSet = @ \cup {e}, !.freq[e] = Absent,
                    !.advice = Append(@, e)]

\* One turn of evict_from_main: an entry with frequency goes round once more.
TurnMain(s) ==
  LET e == Last(s.main)
      f == IF s.freq[e] = Absent THEN 0 ELSE s.freq[e]
  IN IF f > 0
     THEN [s EXCEPT !.main = Cons(e, Front(@)), !.freq[e] = f - 1]
     ELSE [s EXCEPT !.main = Front(@), !.mainSize = @ - 1, !.totalSize = @ - 1,
                    !.freq[e] = Absent, !.advice = Append(@, e)]

\* The inner loops end with a victim or an empty queue: each turn takes an entry
\* out of small, or lowers a frequency of main.
EvictSmall(s) ==
  LET after[k \in 0 .. Len(s.small)] ==
        IF k = 0 THEN s
        ELSE LET t == after[k - 1] IN
             IF t.small = <<>> \/ t.advice # s.advice THEN t ELSE TurnSmall(t)
  IN after[Len(s.small)]
EvictMain(s) ==
  LET turns == MaxFreq * Cardinality(Entries) + 1
      after[k \in 0 .. turns] ==
        IF k = 0 THEN s
        ELSE LET t == after[k - 1] IN
             IF t.main = <<>> \/ t.advice # s.advice THEN t ELSE TurnMain(t)
  IN after[turns]

\* small_queue_fraction() >= 0.1
SmallIsLarge(s) == s.totalSize # 0 /\ s.smallSize * SmallShare >= s.totalSize

\* A round of find_victim.
Round(s, cnt) ==
  IF Len(s.advice) = cnt \/ s.totalSize = 0 THEN s
  ELSE IF s.small # <<>> /\ SmallIsLarge(s) THEN EvictSmall(s) ELSE EvictMain(s)

\* A round yields a victim, but for one that moves all of small to main.
Evict(s, cnt) ==
  LET after[k \in 0 .. cnt + 1] == IF k = 0 THEN s ELSE Round(after[k - 1], cnt)
  IN after[cnt + 1]

FindVictim(cnt) ==
  LET s == Evict([small |-> small, main |-> main, ghost |-> ghost, ghostSet |-> ghostSet,
                  freq |-> freq, smallSize |-> smallSize, mainSize |-> mainSize,
                  totalSize |-> totalSize, advice |-> <<>>], cnt) IN
  /\ small' = s.small /\ main' = s.main /\ ghost' = s.ghost /\ ghostSet' = s.ghostSet
  /\ freq' = s.freq
  /\ smallSize' = s.smallSize /\ mainSize' = s.mainSize /\ totalSize' = s.totalSize
  /\ advice' = s.advice
  /\ advised' = advised \cup ToSet(s.advice)

Next ==
  \/ \E e \in Entries : NotifyInsert(e) \/ NotifyAccess(e)
  \/ \E cnt \in 0..MaxCount : FindVictim(cnt)

Spec == Init /\ [][Next]_vars

-----------------------------------------------------------------------------
\* Type invariant; sizes never wrap below zero.
TypeOK ==
  /\ ToSet(small) \cup ToSet(main) \cup ToSet(ghost) \cup ghostSet \subseteq Entries
  /\ freq \in [Entries -> 0..MaxFreq \cup {Absent}]
  /\ smallSize \in Nat /\ mainSize \in Nat /\ totalSize \in Nat

\* The sizes that steer find_victim, and end its loop, are those of the queues,
\* and every entry that was inserted can still be advised.
SizesMatch ==
  /\ smallSize = Len(small) /\ mainSize = Len(main) /\ totalSize = smallSize + mainSize
  /\ ghostSet = ToSet(ghost)
  /\ \A e \in Entries : freq[e] # Absent /\ e \notin ghostSet => e \in ToSet(small) \cup ToSet(main)
=============================================================================
