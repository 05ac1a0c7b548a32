-------------------------- MODULE DoublyLinkedList --------------------------
(***************************************************************************)
(* The intrusive doubly linked list shared by the cache policies           *)
(* (policies/cache/doubly_linked_list.rs), pointer by pointer.  The hash   *)
(* map of a policy says which nodes are allocated; a policy pushes a fresh *)
(* node, moves or unlinks one that is in its map, and frees what it        *)
(* unlinks when the entry is advised.                                      *)
(***************************************************************************)
EXTENDS PolicyConstants, SequencesExt

VARIABLES head, tail, \* ends of the list, or None
          next, prev, \* [Entries -> Entries \cup {None}]
          owned       \* nodes in the policy's map

linkVars == <<head, tail, next, prev, owned>>

LinksTyped ==
  /\ head \in Entries \cup {None} /\ tail \in Entries \cup {None}
  /\ next \in [Entries -> Entries \cup {None}]
  /\ prev \in [Entries -> Entries \cup {None}]
  /\ owned \subseteq Entries

ListInit ==
  /\ head = None /\ tail = None
  /\ next = [n \in Entries |-> None]
  /\ prev = [n \in Entries |-> None]
  /\ owned = {}

(* The three methods, as functions of the five pointers' record.           *)
State == [head |-> head, tail |-> tail, next |-> next, prev |-> prev]

PushFront(s, n) ==
  [head |-> n,
   tail |-> IF s.head = None THEN n ELSE s.tail,
   next |-> [s.next EXCEPT ![n] = s.head],
   prev |-> [m \in Entries |-> CASE m = n -> None [] m = s.head -> n [] OTHER -> s.prev[m]]]

PushBack(s, n) ==
  [head |-> IF s.tail = None THEN n ELSE s.head,
   tail |-> n,
   next |-> [m \in Entries |-> CASE m = n -> None [] m = s.tail -> n [] OTHER -> s.next[m]],
   prev |-> [s.prev EXCEPT ![n] = s.tail]]

UnlinkKeepsNext(s, n) ==
  [head |-> IF s.prev[n] = None THEN s.next[n] ELSE s.head,
   tail |-> IF s.next[n] = None THEN s.prev[n] ELSE s.tail,
   next |-> [s.next EXCEPT ![n] = None],
   prev |-> [m \in Entries |-> CASE m = n -> None [] m = s.next[n] -> s.prev[n] [] OTHER -> s.prev[m]]]

Unlink(s, n) ==
  [head |-> IF s.prev[n] = None THEN s.next[n] ELSE s.head,
   tail |-> IF s.next[n] = None THEN s.prev[n] ELSE s.tail,
   next |-> [m \in Entries |-> CASE m = n -> None [] m = s.prev[n] -> s.next[n] [] OTHER -> s.next[m]],
   prev |-> [m \in Entries |-> CASE m = n -> None [] m = s.next[n] -> s.prev[n] [] OTHER -> s.prev[m]]]

Become(s) == head' = s.head /\ tail' = s.tail /\ next' = s.next /\ prev' = s.prev

InsertFront(n) == n \notin owned /\ Become(PushFront(State, n)) /\ owned' = owned \cup {n}
InsertBack(n) == n \notin owned /\ Become(PushBack(State, n)) /\ owned' = owned \cup {n}

\* move_to_front, and the unlink and push_back of FIFO and LiquidPolicy
MoveToFront(n) == n \in owned /\ Become(PushFront(Unlink(State, n), n)) /\ UNCHANGED owned
MoveToBack(n) == n \in owned /\ Become(PushBack(Unlink(State, n), n)) /\ UNCHANGED owned

\* unlink, drop_boxed_node
Release(n) == n \in owned /\ Become(Unlink(State, n)) /\ owned' = owned \ {n}

ListNext ==
  \E n \in Entries : \/ InsertFront(n) \/ InsertBack(n) \/ MoveToFront(n) \/ MoveToBack(n)
                   \/ Release(n)

ListSpec == ListInit /\ [][ListNext]_linkVars

-----------------------------------------------------------------------------
\* The list as its forward pointers spell it, and as its backward pointers do.
Walk(start, step) ==
  LET path[i \in 0..Cardinality(Entries)] ==
        IF i = 0 THEN <<>>
        ELSE LET n == IF i = 1 THEN start
                      ELSE IF Len(path[i - 1]) = i - 1 THEN step[path[i - 1][i - 1]] ELSE None
             IN IF n = None THEN path[i - 1] ELSE Append(path[i - 1], n)
  IN path[Cardinality(Entries)]

Forward == Walk(head, next)
Backward == Walk(tail, prev)

\* The pointers are typed, both directions agree, reach exactly the nodes the map owns (no freed node,
\* none lost), and a node outside the list keeps no stale pointer.
WellLinked ==
  /\ LinksTyped
  /\ Len(Forward) = Cardinality(owned) /\ Len(Backward) = Len(Forward)
  /\ {Forward[i] : i \in DOMAIN Forward} = owned
  /\ \A i \in DOMAIN Forward : Backward[Len(Forward) + 1 - i] = Forward[i]
  /\ \A n \in Entries \ owned : next[n] = None /\ prev[n] = None

\* The pointers implement a sequence of distinct nodes.
Abstract == INSTANCE NodeList WITH list <- Forward
IsSequence == Abstract!LSpec
=============================================================================
