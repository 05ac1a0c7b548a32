-------------------------- MODULE PolicyConstants --------------------------
(***************************************************************************)
(* What the modules of the cache policies have in common.                  *)
(***************************************************************************)
EXTENDS Naturals, FiniteSets

CONSTANTS Entries,      \* entry ids (and, for the list, its nodes)
          None,         \* Option::None
          SmallShare,   \* S3-FIFO evicts small from its 1/SmallShare on (10 in the code)
          MaxCount,     \* bound: the largest cnt asked of find_victim
          MaxQueue      \* bound: entries in the queues of S3-FIFO

ASSUME PolicyAssumption ==
  /\ IsFiniteSet(Entries) /\ None \notin Entries
  /\ SmallShare \in Nat \ {0} /\ MaxCount \in Nat /\ MaxQueue \in Nat

\* CachedBatchType, by where the batch is.
Memory == {"MemoryArrow", "MemoryLiquid", "MemorySqueezedLiquid"}
Disk == {"DiskArrow", "DiskLiquid"}

QueuePolicy == {"Lru", "Fifo", "Filo", "Liquid"}
HandPolicy == {"Clock", "Sieve"}
=============================================================================
