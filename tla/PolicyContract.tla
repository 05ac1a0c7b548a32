--------------------------- MODULE PolicyContract ---------------------------
(***************************************************************************)
(* What the storage engine relies on in a CachePolicy: the policy tracks a *)
(* set of entries, and find_victim(cnt) takes as many distinct entries out *)
(* of it as it can, up to cnt.  LiquidCache.tla uses the policies only     *)
(* through this contract.                                                  *)
(***************************************************************************)
EXTENDS PolicyConstants, Sequences

VARIABLES tracked,      \* entries that may be advised
          advice,       \* what the last call returned
          tracksDisk,   \* entries on disk are advised too
          onDisk        \* entries last reported with a type on disk

cvars == <<tracked, advice, tracksDisk, onDisk>>

CInit == tracked = {} /\ advice = <<>> /\ tracksDisk \in BOOLEAN /\ onDisk = {}

CInsert(e, type) ==
  /\ tracked' = IF type \in Memory \/ tracksDisk THEN tracked \cup {e} ELSE tracked \ {e}
  /\ onDisk' = IF type \in Disk THEN onDisk \cup {e} ELSE onDisk \ {e}
  /\ advice' = <<>>
  /\ UNCHANGED tracksDisk

CAccess == advice' = <<>> /\ UNCHANGED <<tracked, tracksDisk, onDisk>>

CFindVictim(cnt) ==
  /\ \E V \in SUBSET tracked :
       /\ Cardinality(V) = IF Cardinality(tracked) < cnt THEN Cardinality(tracked) ELSE cnt
       /\ Len(advice') = Cardinality(V)
       /\ {advice'[i] : i \in 1..Len(advice')} = V
       /\ tracked' = tracked \ V
  /\ UNCHANGED <<tracksDisk, onDisk>>

CNext ==
  \/ \E e \in Entries, type \in Memory \cup Disk : CInsert(e, type)
  \/ CAccess
  \/ \E cnt \in 0..MaxCount : CFindVictim(cnt)

CSpec == CInit /\ [][CNext]_cvars
=============================================================================
