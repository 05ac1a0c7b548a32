-------------------------- MODULE MCCachePolicies --------------------------
(***************************************************************************)
(* The cache policies side by side: a behaviour exercises one of them (or  *)
(* the list they are built on), and the state of the others rests.  Every  *)
(* policy is checked against the contract that LiquidCache.tla uses.       *)
(***************************************************************************)
EXTENDS QueuePolicies, DoublyLinkedList

VARIABLES list, bit, hand, totalSize,        \* HandPolicies
          small, main, ghost, ghostSet, freq, smallSize, mainSize, s3Size, advised

queueState == <<lists, recent, onDisk>>
handVars == <<list, bit, hand, totalSize>>
s3Vars == <<small, main, ghost, ghostSet, freq, smallSize, mainSize, s3Size, advised>>
vars == <<policy, advice, queueState, handVars, s3Vars, linkVars>>

Hand == INSTANCE HandPolicies
S3 == INSTANCE S3Fifo WITH totalSize <- s3Size

CONSTANT Exercised      \* the parts that this run exercises

Init ==
  /\ policy \in Exercised
  /\ QueueInit /\ Hand!Init /\ S3!Init /\ ListInit

QueueRuns == policy \in QueuePolicy /\ QueueNext /\ UNCHANGED <<handVars, s3Vars, linkVars>>
HandRuns == policy \in HandPolicy /\ Hand!Next /\ UNCHANGED <<queueState, s3Vars, linkVars>>
S3Runs == policy = "S3" /\ S3!Next /\ UNCHANGED <<policy, queueState, handVars, linkVars>>

\* S3-FIFO when entries that were advised do not come back.
S3OnceRuns ==
  /\ policy = "S3Once" /\ S3!Next /\ advised \subseteq advised'
  /\ UNCHANGED <<policy, queueState, handVars, linkVars>>
ListRuns == policy = "List" /\ ListNext /\ UNCHANGED <<policy, advice, queueState, handVars, s3Vars>>

Next == QueueRuns \/ HandRuns \/ S3Runs \/ S3OnceRuns \/ ListRuns

Spec == Init /\ [][Next]_vars

-----------------------------------------------------------------------------
\* Every policy implements the contract on which the storage engine builds:
\* distinct victims, as many as there are, forgotten when advised.  S3-FIFO
\* does if advised entries do not come back.
Tracked ==
  CASE policy \in QueuePolicy -> Evictable
    [] policy \in HandPolicy  -> ToSet(list)
    [] policy = "S3Once"      -> ToSet(small) \cup ToSet(main)
    [] OTHER                  -> {}
Advice == IF policy = "S3" THEN <<>> ELSE advice
Contract == INSTANCE PolicyContract
              WITH tracked <- Tracked, advice <- Advice, tracksDisk <- (policy # "Liquid")
MeetsContract == Contract!CSpec

SecondChance == Hand!SecondChance

\* The structures of a policy agree after every call: the hand of Clock and Sieve
\* is in the list, S3-FIFO's sizes and ghost set are those of its queues, so that
\* the loops which they steer end, and the pointers of the list link every node
\* it owns, in both directions.
StructuresAgree ==
  /\ QueuesTypeOK /\ Hand!TypeOK /\ S3!TypeOK
  /\ Hand!HandInList
  /\ S3!SizesMatch
  /\ WellLinked
=============================================================================
