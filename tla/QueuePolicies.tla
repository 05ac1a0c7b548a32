--------------------------- MODULE QueuePolicies ---------------------------
(***************************************************************************)
(* The cache policies that are queues: LruPolicy, FifoPolicy, FiloPolicy   *)
(* (one list each) and LiquidPolicy (one FIFO list per kind of batch).     *)
(* Every operation holds the policy's mutex, so it is one step.  A list of *)
(* DoublyLinkedList.tla with its hash map is a sequence here.              *)
(***************************************************************************)
EXTENDS PolicyConstants, SequencesExt

VARIABLES policy,       \* which of the policies
          lists,        \* [Queues -> Seq(Entries)], head first
          advice,       \* what the last call returned
          recent,       \* ghost: entries, the one last touched first
          onDisk        \* ghost: entries last reported with a type on disk

queueVars == <<policy, lists, advice, recent, onDisk>>

\* The plain policies use the list "All".
Queues == {"All", "Arrow", "Liquid", "Squeezed", "Disk"}

\* Mistake: LiquidPolicy would advise entries on disk.
QueueOfDiskIsSqueezed(type) ==
  IF policy # "Liquid" THEN "All"
  ELSE IF type = "MemoryArrow" THEN "Arrow" ELSE IF type = "MemoryLiquid" THEN "Liquid"
  ELSE "Squeezed"

QueueOf(type) ==
  IF policy # "Liquid" THEN "All"
  ELSE CASE type = "MemoryArrow"           -> "Arrow"
         [] type = "MemoryLiquid"          -> "Liquid"
         [] type = "MemorySqueezedLiquid"  -> "Squeezed"
         [] OTHER                          -> "Disk"

QueueInit ==
  /\ lists = [q \in Queues |-> <<>>]
  /\ advice = <<>>
  /\ recent = <<>>
  /\ onDisk = {}

Touch(e) == recent' = <<e>> \o RemoveFirst(recent, e)

UpsertInPlace(e, q) ==
  IF e \in ToSet(lists[q]) THEN lists
  ELSE [p \in Queues |-> IF p = q THEN Append(RemoveFirst(lists[p], e), e) ELSE RemoveFirst(lists[p], e)]

\* insert_front, insert_back, upsert_into_queue: an entry that is in a list is
\* unlinked first.
Upsert(e, q) ==
  [p \in Queues |->
     IF p # q THEN RemoveFirst(lists[p], e)
     ELSE IF policy \in {"Lru", "Filo"} THEN <<e>> \o RemoveFirst(lists[p], e)
     ELSE Append(RemoveFirst(lists[p], e), e)]

NotifyInsert(e, type) ==
  /\ lists' = Upsert(e, QueueOf(type))
  /\ Touch(e)
  /\ onDisk' = IF type \in Disk THEN onDisk \cup {e} ELSE onDisk \ {e}
  /\ advice' = <<>>
  /\ UNCHANGED policy

\* Only the LRU moves an entry when it is accessed.
NotifyAccess(e) ==
  /\ IF policy = "Lru" /\ e \in ToSet(lists["All"])
     THEN lists' = Upsert(e, "All") /\ Touch(e)
     ELSE UNCHANGED <<lists, recent>>
  /\ advice' = <<>>
  /\ UNCHANGED <<policy, onDisk>>

FirstOf(l, n) == SubSeq(l, 1, Min({n, Len(l)}))
Rest(l, n) == SubSeq(l, Min({n, Len(l)}) + 1, Len(l))

\* find_victim: the LRU pops the tail, FIFO and FILO the head, LiquidPolicy the
\* heads of the three queues in memory, in their order.
FindVictim(cnt) ==
  LET l == IF policy = "Lru" THEN Reverse(lists["All"]) ELSE lists["All"]
      fromArrow == FirstOf(lists["Arrow"], cnt)
      fromLiquid == FirstOf(lists["Liquid"], cnt - Len(fromArrow))
      fromSqueezed == FirstOf(lists["Squeezed"], cnt - Len(fromArrow) - Len(fromLiquid))
  IN
  /\ IF policy = "Liquid"
     THEN /\ advice' = fromArrow \o fromLiquid \o fromSqueezed
          /\ lists' = [lists EXCEPT !["Arrow"]    = Rest(@, Len(fromArrow)),
                                    !["Liquid"]   = Rest(@, Len(fromLiquid)),
                                    !["Squeezed"] = Rest(@, Len(fromSqueezed))]
     ELSE /\ advice' = FirstOf(l, cnt)
          /\ lists' = [lists EXCEPT !["All"] = IF policy = "Lru" THEN Reverse(Rest(l, cnt))
                                               ELSE Rest(l, cnt)]
  /\ UNCHANGED <<recent, policy, onDisk>>

QueueNext ==
  \/ \E e \in Entries, type \in Memory \cup Disk : NotifyInsert(e, type)
  \/ \E e \in Entries : NotifyAccess(e)
  \/ \E cnt \in 0..MaxCount : FindVictim(cnt)

QueueSpec == policy \in QueuePolicy /\ QueueInit /\ [][QueueNext]_queueVars

-----------------------------------------------------------------------------
\* x was last touched before y
Before(x, y) == \E i, j \in DOMAIN recent : recent[i] = x /\ recent[j] = y /\ j < i

Evictable == UNION {ToSet(lists[q]) : q \in Queues \ {"Disk"}}

\* Type invariant; in particular an entry is in one list only, once.
QueuesTypeOK ==
  /\ lists \in [Queues -> UNION {[1..n -> Entries] : n \in 0..Cardinality(Entries)}]
  /\ \A p, q \in Queues : \A i \in DOMAIN lists[p], j \in DOMAIN lists[q] :
       lists[p][i] = lists[q][j] => p = q /\ i = j

\* The queues implement the contract of PolicyContract.tla.
QueueContract == INSTANCE PolicyContract WITH tracked <- Evictable, tracksDisk <- (policy # "Liquid")
QueuesImplementContract == QueueContract!CSpec

\* Victims leave in the order each policy is named for: the LRU gives the entry
\* touched longest ago, FIFO the one inserted first, FILO the one inserted last,
\* LiquidPolicy the cheapest kind first (Arrow before Liquid before squeezed)
\* and within a kind the one inserted first, whatever reinsertions came between.
EvictionOrder ==
  [][\A v \in ToSet(advice'), s \in Evictable' :
       advice' # advice /\ advice' # <<>> =>
         CASE policy \in {"Lru", "Fifo"} -> Before(v, s)
           [] policy = "Filo"            -> Before(s, v)
           [] OTHER ->
                \/ \E q \in {"Arrow", "Liquid", "Squeezed"} :
                     v \in ToSet(lists[q]) /\ s \in ToSet(lists[q]) /\ Before(v, s)
                \/ v \in ToSet(lists["Arrow"]) /\ s \notin ToSet(lists["Arrow"])
                \/ v \in ToSet(lists["Liquid"]) /\ s \in ToSet(lists["Squeezed"])]_queueVars
=============================================================================
