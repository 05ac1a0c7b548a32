----------------------------- MODULE CacheEntry -----------------------------
(***************************************************************************)
(* The forms in which liquid-cache keeps one cached batch, and the two     *)
(* policies that move a batch between them: squeezing (towards the disk)   *)
(* and hydration (back into memory).  Everything here is a pure operator;  *)
(* LiquidCache.tla gives the operators their concurrent setting.           *)
(*                                                                         *)
(* A batch is abstracted to a value of Values.  An entry carries the value *)
(* it stands for even when its bytes are on disk: in the code DiskArrow    *)
(* and DiskLiquid hold only a data type, so val is a ghost there.          *)
(***************************************************************************)
EXTENDS Naturals, FiniteSets

CONSTANTS Entries,          \* entry ids
          Values,           \* abstract batch contents
          Paths,            \* variant paths a query may ask for
          Kind,             \* [Entries -> {"plain", "opaque", "variant"}]
          Squeezable,       \* [Entries -> BOOLEAN]: LiquidArray::squeeze is Some
          SqueezeHint,      \* [Entries -> SUBSET Paths]: recorded VariantGet paths
          ArrowSize,        \* [Entries -> Nat], memory size as Arrow
          LiquidSize,       \* [Entries -> Nat], memory size as Liquid
          SqueezedSize,     \* [Entries -> Nat], squeezed (per path if variant)
          SqueezePolicy,    \* "Evict", "TranscodeEvict", "TranscodeSqueezeEvict"
          HydrationPolicy   \* "AlwaysHydrate" or "NoHydration"

ASSUME EntryAssumption ==
  /\ IsFiniteSet(Entries) /\ Entries # {}
  /\ Values # {}
  /\ IsFiniteSet(Paths)
  /\ Kind \in [Entries -> {"plain", "opaque", "variant"}]
  /\ Squeezable \in [Entries -> BOOLEAN]
  /\ SqueezeHint \in [Entries -> SUBSET Paths]
  /\ ArrowSize \in [Entries -> Nat]
  /\ LiquidSize \in [Entries -> Nat]
  /\ SqueezedSize \in [Entries -> Nat]
  /\ SqueezePolicy \in {"Evict", "TranscodeEvict", "TranscodeSqueezeEvict"}
  /\ HydrationPolicy \in {"AlwaysHydrate", "NoHydration"}

(* CacheEntry, with MemorySqueezedLiquid split by its disk backing.        *)
MemoryTypes == {"MemoryArrow", "MemoryLiquid", "SqueezedLiquid", "SqueezedArrow"}
SqueezedTypes == {"SqueezedLiquid", "SqueezedArrow"}
DiskTypes == {"DiskArrow", "DiskLiquid"}

Entry == [type : {"None"} \cup MemoryTypes \cup DiskTypes,
          val : Values, paths : SUBSET Paths]

\* The index holds nothing for an id.
NoEntry == [type |-> "None", val |-> CHOOSE v \in Values : TRUE, paths |-> {}]

Plain(type, v) == [type |-> type, val |-> v, paths |-> {}]
SqueezedVariant(v, ps) == [type |-> "SqueezedArrow", val |-> v, paths |-> ps]

\* memory_usage_bytes: disk entries cost no memory.
Size(e, b) ==
  CASE b.type = "MemoryArrow"    -> ArrowSize[e]
    [] b.type = "MemoryLiquid"   -> LiquidSize[e]
    [] b.type = "SqueezedLiquid" -> SqueezedSize[e]
    [] b.type = "SqueezedArrow"  -> SqueezedSize[e] * Cardinality(b.paths)
    [] OTHER                     -> 0

(* The bytes of an entry's file.  One path per id, whatever the format.    *)
Content == [fmt : {"Missing", "Empty", "Arrow", "Liquid", "Mixed"}, val : Values]
NoBytes == [fmt |-> "Missing", val |-> NoEntry.val]
Truncated == [fmt |-> "Empty", val |-> NoEntry.val]
Mixed == [fmt |-> "Mixed", val |-> NoEntry.val]
ArrowBytes(v) == [fmt |-> "Arrow", val |-> v]
LiquidBytes(v) == [fmt |-> "Liquid", val |-> v]

\* The format the reader of an entry with backing on disk expects.
BackingFormat(b) == IF b.type \in {"SqueezedArrow", "DiskArrow"} THEN "Arrow" ELSE "Liquid"

-----------------------------------------------------------------------------
(* Squeezing: the smaller form of a batch and the bytes to write first.    *)

(* Plausible mistakes in the squeeze policies; the runs must tell them.    *)

\* every squeezed entry is taken to be backed by Liquid bytes
DiskEntryAlwaysLiquid(b) == Plain("DiskLiquid", b.val)

\* an Arrow entry goes to disk without its bytes
SqueezeArrowUnwritten(e, b, hint) ==
  [batch |-> IF SqueezePolicy # "Evict" /\ Kind[e] = "plain" THEN Plain("MemoryLiquid", b.val)
             ELSE Plain("DiskArrow", b.val),
   bytes |-> NoBytes]

\* disk_entry_from_squeezed, and the same match in each SqueezePolicy
DiskEntryOf(b) == Plain(IF BackingFormat(b) = "Arrow" THEN "DiskArrow" ELSE "DiskLiquid", b.val)

\* try_variant_squeeze yields something: a variant struct with a requested path
VariantSqueezes(e, requests) == Kind[e] = "variant" /\ requests # {}

SqueezeArrow(e, b, hint) ==
  CASE /\ SqueezePolicy = "TranscodeSqueezeEvict"
       /\ VariantSqueezes(e, hint)
         -> [batch |-> SqueezedVariant(b.val, hint), bytes |-> ArrowBytes(b.val)]
    [] /\ SqueezePolicy # "Evict" /\ Kind[e] = "plain"
         -> [batch |-> Plain("MemoryLiquid", b.val), bytes |-> NoBytes]
    [] OTHER
         -> [batch |-> Plain("DiskArrow", b.val), bytes |-> ArrowBytes(b.val)]

SqueezeLiquid(e, b) ==
  [batch |-> IF SqueezePolicy = "TranscodeSqueezeEvict" /\ Squeezable[e]
             THEN Plain("SqueezedLiquid", b.val)
             ELSE Plain("DiskLiquid", b.val),
   bytes |-> LiquidBytes(b.val)]

\* SqueezePolicy::squeeze
Squeeze(e, b, hint) ==
  CASE b.type = "MemoryArrow"     -> SqueezeArrow(e, b, hint)
    [] b.type = "MemoryLiquid"    -> SqueezeLiquid(e, b)
    [] b.type \in SqueezedTypes   -> [batch |-> DiskEntryOf(b), bytes |-> NoBytes]
    [] OTHER                      -> [batch |-> b, bytes |-> NoBytes]

\* write_in_memory_batch_to_disk: an Arrow batch is squeezed without a hint
WriteInMemoryBatch(e, b) ==
  CASE b.type = "MemoryLiquid" -> [batch |-> Plain("DiskLiquid", b.val),
                                   bytes |-> LiquidBytes(b.val)]
    [] OTHER                   -> Squeeze(e, b, {})

-----------------------------------------------------------------------------
(* Hydration: the entry to promote after a read of the backing bytes gave  *)
(* the value v, or NoEntry.                                                *)

\* AlwaysHydrate::hydrate on a disk entry
HydrateDisk(e, cached, v, requests) ==
  IF cached.type = "DiskLiquid" THEN Plain("MemoryLiquid", v)
  ELSE IF VariantSqueezes(e, requests) THEN SqueezedVariant(v, requests)
  ELSE Plain("MemoryArrow", v)

\* hydrate_variant_paths: the kept paths and the missing ones, merged
HydrateVariantPaths(e, cached, v, requests) ==
  IF VariantSqueezes(e, requests \ cached.paths)
  THEN SqueezedVariant(cached.val, cached.paths \cup requests)
  ELSE Plain("MemoryArrow", v)

Hydrate(e, cached, v, requests) ==
  IF HydrationPolicy = "NoHydration" THEN NoEntry
  ELSE IF cached.type \in DiskTypes THEN HydrateDisk(e, cached, v, requests)
  ELSE HydrateVariantPaths(e, cached, v, requests)
=============================================================================
