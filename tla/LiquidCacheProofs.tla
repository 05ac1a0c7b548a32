------------------------- MODULE LiquidCacheProofs -------------------------
(***************************************************************************)
(* Proofs about the storage engine, for any number of threads and entries: *)
(* its types, the budget, what an entry once inserted keeps, and, in the   *)
(* exclusive setting, that files and reads have the value last inserted.   *)
(***************************************************************************)
EXTENDS LiquidCacheProperties, NumberTheorems

\* The constructors of CacheEntry yield entries and file contents.
LEMMA EntryTypes ==
  /\ NoEntry \in Entry /\ NoBytes \in Content /\ Truncated \in Content /\ Mixed \in Content
  /\ \A v \in Values, ty \in MemoryTypes \cup DiskTypes : Plain(ty, v) \in Entry
  /\ \A v \in Values, ps \in SUBSET Paths : SqueezedVariant(v, ps) \in Entry
  /\ \A v \in Values : ArrowBytes(v) \in Content /\ LiquidBytes(v) \in Content
<1>1. NoEntry.val \in Values
  BY EntryAssumption DEF NoEntry
<1>2. NoEntry \in Entry
  BY EntryAssumption DEF NoEntry, Entry
<1>3. NoBytes \in Content /\ Truncated \in Content /\ Mixed \in Content
  BY <1>1 DEF NoBytes, Truncated, Mixed, Content
<1> QED
  BY <1>2, <1>3 DEF Plain, SqueezedVariant, Entry, MemoryTypes, DiskTypes, ArrowBytes,
    LiquidBytes, Content

\* Squeezing an entry yields an entry and the bytes that back it.
Squeezed == [batch : Entry, bytes : Content]

\* Every squeeze policy, and write_in_memory_batch_to_disk, return an entry
\* and bytes.
LEMMA SqueezeTypes ==
  ASSUME NEW e \in Entries, NEW b \in Entry, NEW hint \in SUBSET Paths
  PROVE  /\ Squeeze(e, b, hint) \in Squeezed
         /\ WriteInMemoryBatch(e, b) \in Squeezed
         /\ FlushEntry(b) \in Squeezed
<1>1. b.val \in Values
  BY DEF Entry
<1>2. DiskEntryOf(b) \in Entry
  BY <1>1, EntryTypes DEF DiskEntryOf, DiskTypes
<1>3. ASSUME NEW h \in SUBSET Paths PROVE Squeeze(e, b, h) \in Squeezed
  <2>1. SqueezeArrow(e, b, h) \in Squeezed
    BY <1>1, EntryTypes DEF SqueezeArrow, Squeezed, MemoryTypes, DiskTypes
  <2>2. SqueezeLiquid(e, b) \in Squeezed
    BY <1>1, EntryTypes DEF SqueezeLiquid, Squeezed, MemoryTypes, DiskTypes
  <2> QED BY <1>2, <2>1, <2>2, EntryTypes DEF Squeeze, Squeezed
<1>4. {} \in SUBSET Paths
  OBVIOUS
<1>5. WriteInMemoryBatch(e, b) \in Squeezed
  BY <1>1, <1>3, <1>4, EntryTypes DEF WriteInMemoryBatch, Squeezed, DiskTypes
<1>6. FlushEntry(b) \in Squeezed
  BY <1>1, <1>2, EntryTypes DEF FlushEntry, Squeezed, DiskTypes
<1> QED BY <1>3, <1>5, <1>6

\* A hydration policy returns an entry (or NoEntry).
LEMMA HydrateTypes ==
  ASSUME NEW e \in Entries, NEW b \in Entry, NEW v \in Values, NEW requests \in SUBSET Paths
  PROVE  Hydrate(e, b, v, requests) \in Entry
<1>1. b.val \in Values /\ b.paths \cup requests \in SUBSET Paths
  BY DEF Entry
<1> QED
  BY <1>1, EntryTypes DEF Hydrate, HydrateDisk, HydrateVariantPaths, MemoryTypes

\* The memory size of an entry is a natural number.
LEMMA SizeType ==
  ASSUME NEW e \in Entries, NEW b \in Entry
  PROVE  Size(e, b) \in Nat
<1>1. b.paths \in SUBSET Paths
  BY DEF Entry
<1>2. Cardinality(b.paths) \in Nat
  BY <1>1, EntryAssumption, FS_Subset, FS_CardinalityType
<1>3. \A m, n \in Nat : m * n \in Nat
  OBVIOUS
<1>4. SqueezedSize[e] * Cardinality(b.paths) \in Nat
  BY <1>2, <1>3, EntryAssumption, SMTT(40)
<1> QED
  BY <1>4, EntryAssumption DEF Size

-----------------------------------------------------------------------------
(* Type correctness.                                                       *)

\* What a step may put into a slot.
SlotFrame(k) == {f \in Frame : k \in Entries => f.id = k}

\* Every frame an action builds from a frame of the slot is one of the slot.
LEMMA FrameTypes ==
  ASSUME NEW k \in Slots, NEW f \in SlotFrame(k)
  PROVE  /\ \A pc \in PC : [f EXCEPT !.pc = pc] \in SlotFrame(k)
         /\ \A b \in Entry : [f EXCEPT !.old = b, !.pc = "budget"] \in SlotFrame(k)
         /\ \A b \in Entry : [f EXCEPT !.pc = "get", !.batch = b] \in SlotFrame(k)
         /\ [f EXCEPT !.pc = "get", !.bytes = NoBytes] \in SlotFrame(k)
         /\ \A r \in Squeezed : WriteThenInsert(f, r) \in SlotFrame(k)
         /\ \A e \in Entries : IdleFrame(e) \in Frame /\ IdleFrame(e).id = e
         /\ Finished(f) \in SlotFrame(k)
         /\ f.id \in Entries /\ f.batch \in Entry /\ f.bytes \in Content
         /\ f.requests \in SUBSET Paths
<1> USE EntryTypes DEF SlotFrame, Frame
<1>1. \A pc \in PC : [f EXCEPT !.pc = pc] \in SlotFrame(k)
  OBVIOUS
<1>2. "get" \in PC /\ "budget" \in PC /\ "truncate" \in PC /\ "idle" \in PC /\ "flush" \in PC
  BY DEF PC
<1>3. \A b \in Entry : /\ [f EXCEPT !.old = b, !.pc = "budget"] \in SlotFrame(k)
                       /\ [f EXCEPT !.pc = "get", !.batch = b] \in SlotFrame(k)
  BY <1>2
<1>4. [f EXCEPT !.pc = "get", !.bytes = NoBytes] \in SlotFrame(k)
  BY <1>2
<1>5. \A r \in Squeezed : WriteThenInsert(f, r) \in SlotFrame(k)
  BY <1>2 DEF WriteThenInsert, Squeezed
<1>6. \A e \in Entries : IdleFrame(e) \in Frame /\ IdleFrame(e).id = e
  BY <1>2 DEF IdleFrame
<1>7. Finished(f) \in SlotFrame(k)
  BY <1>2, <1>6, ZenonT(60) DEF Finished
<1> QED BY <1>1, <1>3, <1>4, <1>5, <1>6, <1>7

\* The frames in which operations and squeeze jobs start.
LEMMA StartTypes ==
  ASSUME NEW e \in Entries, NEW pc \in PC,
         NEW op \in {"none", "insert", "read", "peek", "flush", "squeeze"},
         NEW b \in Entry, NEW requests \in SUBSET Paths
  PROVE  /\ IdleFrame(e) \in Frame
         /\ [IdleFrame(e) EXCEPT !.pc = pc, !.op = op] \in Frame
         /\ [IdleFrame(e) EXCEPT !.pc = pc, !.op = op].id = e
         /\ [IdleFrame(e) EXCEPT !.pc = pc, !.op = op, !.batch = b] \in Frame
         /\ [IdleFrame(e) EXCEPT !.pc = pc, !.op = op, !.batch = b, !.requests = requests] \in Frame
<1>1. IdleFrame(e) \in Frame /\ IdleFrame(e).id = e
  BY EntryTypes DEF IdleFrame, Frame, PC
<1> QED BY <1>1 DEF Frame

\* The part of TypeOK that Goto must keep.
FramesOK == /\ frame \in [Threads -> [Slots -> Frame]]
            /\ \A t \in Threads, e \in Entries : frame[t][e].id = e

\* Goto stores a frame of the slot's kind.
LEMMA GotoType ==
  ASSUME FramesOK, NEW t \in Threads, NEW k \in Slots, NEW f \in SlotFrame(k), Goto(t, k, f)
  PROVE  FramesOK'
<1>1. frame' = [frame EXCEPT ![t][k] = f]
  BY DEF Goto
<1>2. Main \notin Entries /\ Entries \subseteq Slots
  BY CacheAssumption DEF Slots
<1>3. frame' \in [Threads -> [Slots -> Frame]]
  BY <1>1 DEF FramesOK, SlotFrame
<1>4. ASSUME NEW u \in Threads, NEW e \in Entries PROVE frame'[u][e].id = e
  <2>1. CASE u = t /\ e = k
    BY <1>1, <1>2, <2>1 DEF FramesOK, SlotFrame
  <2>2. CASE ~(u = t /\ e = k)
    BY <1>1, <1>2, <2>2 DEF FramesOK
  <2> QED BY <2>1, <2>2
<1> QED BY <1>3, <1>4 DEF FramesOK

\* The slot of a frame, in a state that is typed.
LEMMA SlotTypes ==
  ASSUME FramesOK, NEW t \in Threads, NEW k \in Slots
  PROVE  frame[t][k] \in SlotFrame(k)
BY DEF FramesOK, SlotFrame

\* Facts about the constants that every step proof needs.
LEMMA Constants ==
  /\ Main \in Slots /\ Entries \subseteq Slots /\ Main \notin Entries
  /\ AnyEntry \in Entries /\ NoSnapshot \in [Entries -> Entry] /\ NoAnswer \in Answer
  /\ MaxBytes \in Nat /\ Word \in Nat \ {0} /\ MaxBytes < Word
  /\ SqueezeHint \in [Entries -> SUBSET Paths]
<1>1. AnyEntry \in Entries
  BY EntryAssumption DEF AnyEntry
<1>2. NoEntry.val \in Values
  BY EntryTypes DEF Entry
<1>3. NoAnswer \in Answer
  BY <1>1, <1>2 DEF NoAnswer, Answer
<1> QED
  BY <1>1, <1>3, EntryTypes, CacheAssumption, EntryAssumption DEF Slots, NoSnapshot

\* The steps of try_insert and write_batch_to_disk, in any slot.
LEMMA FrameStepTypes ==
  ASSUME TypeOK, NEW t \in Threads, NEW k \in Slots, FrameStep(t, k)
  PROVE  TypeOK'
<1> DEFINE f == frame[t][k]
<1>1. FramesOK
  BY DEF TypeOK, FramesOK
<1>2. f \in SlotFrame(k)
  BY <1>1, SlotTypes
<1>3. /\ f.id \in Entries /\ f.batch \in Entry /\ f.bytes \in Content /\ f.old \in Entry
      /\ \A pc \in PC : [f EXCEPT !.pc = pc] \in SlotFrame(k)
  <2>1. f.old \in Entry
    BY <1>2 DEF SlotFrame, Frame
  <2> QED BY <1>2, <2>1, FrameTypes
<1>4. TypeOK' <=> /\ FramesOK'
                  /\ index' \in [Entries -> Entry]
                  /\ used' \in 0..(Word - 1)
                  /\ usedDisk' \in Nat
                  /\ file' \in [Entries -> Content]
                  /\ tracked' \subseteq Entries
                  /\ snapshot' \in [Threads -> [Entries -> Entry]]
                  /\ answer' \in [Threads -> Answer]
                  /\ latest' \in [Entries -> Values]
                  /\ opsLeft' \in 0..MaxOps
  BY DEF TypeOK, FramesOK
<1>5. CASE TryInsertGet(t, k)
  <2>1. [f EXCEPT !.old = index[f.id], !.pc = "budget"] \in SlotFrame(k)
    BY <1>2, <1>3, FrameTypes DEF TypeOK
  <2>2. FramesOK'
    BY <1>1, <1>5, <2>1, GotoType DEF TryInsertGet
  <2> QED BY <1>4, <1>5, <2>2 DEF TryInsertGet, TypeOK
<1>6. CASE TryInsertBudget(t, k)
  <2>1. FramesOK'
    <3>1. [f EXCEPT !.pc = "put"] \in SlotFrame(k)
      BY <1>3 DEF PC
    <3> QED BY <1>1, <1>6, <3>1, GotoType DEF TryInsertBudget
  <2>2. used' \in 0..(Word - 1)
    <3>1. Size(f.id, f.batch) \in Nat /\ Size(f.id, f.old) \in Nat
      BY <1>3, SizeType
    <3>2. used + Size(f.id, f.batch) - Size(f.id, f.old) \in Int
      BY <3>1 DEF TypeOK
    <3>3. \A n \in Int : n % Word \in 0..(Word - 1)
      BY Constants
    <3> QED BY <1>6, <3>2, <3>3 DEF TryInsertBudget, Reserved
  <2> QED BY <1>4, <1>6, <2>1, <2>2 DEF TryInsertBudget, TypeOK
<1>7. CASE TryInsertFails(t, k)
  <2>1. WriteThenInsert(f, Squeeze(f.id, f.batch, SqueezeHint[f.id])) \in SlotFrame(k)
    BY <1>2, <1>3, SqueezeTypes, FrameTypes, Constants
  <2>2. [f EXCEPT !.pc = "noRoom"] \in SlotFrame(k) /\ [f EXCEPT !.pc = "victims"] \in SlotFrame(k)
    BY <1>3 DEF PC
  <2>3. FramesOK'
    BY <1>1, <1>7, <2>1, <2>2, GotoType DEF TryInsertFails
  <2> QED BY <1>4, <1>7, <2>3 DEF TryInsertFails, TypeOK
<1>8. CASE IndexInsert(t, k)
  <2>1. FramesOK'
    <3>1. [f EXCEPT !.pc = "notify"] \in SlotFrame(k)
      BY <1>3 DEF PC
    <3> QED BY <1>1, <1>8, <3>1, GotoType DEF IndexInsert
  <2> QED BY <1>3, <1>4, <1>8, <2>1 DEF IndexInsert, TypeOK
<1>9. CASE NotifyInsert(t, k)
  <2>1. FramesOK'
    BY <1>1, <1>2, <1>9, FrameTypes, GotoType DEF NotifyInsert
  <2> QED BY <1>3, <1>4, <1>9, <2>1 DEF NotifyInsert, TypeOK
<1>10. CASE TruncateFile(t, k)
  <2>1. FramesOK'
    <3>1. [f EXCEPT !.pc = "write"] \in SlotFrame(k)
      BY <1>3 DEF PC
    <3> QED BY <1>1, <1>10, <3>1, GotoType DEF TruncateFile
  <2> QED BY <1>3, <1>4, <1>10, <2>1, EntryTypes DEF TruncateFile, TypeOK
<1>11. CASE WriteFile(t, k)
  <2>1. FramesOK'
    BY <1>1, <1>2, <1>11, FrameTypes, GotoType DEF WriteFile
  <2>2. file' \in [Entries -> Content]
    BY <1>3, <1>11, EntryTypes DEF WriteFile, TypeOK
  <2>3. usedDisk' \in Nat
    <3>1. FileLength(f.id, f.bytes) \in Nat
      BY <1>3, EntryAssumption DEF FileLength
    <3>2. usedDisk' = usedDisk + FileLength(f.id, f.bytes)
      BY <1>11 DEF WriteFile
    <3> QED BY <3>1, <3>2 DEF TypeOK
  <2> QED BY <1>4, <1>11, <2>1, <2>2, <2>3 DEF WriteFile, TypeOK
<1> QED BY <1>5, <1>6, <1>7, <1>8, <1>9, <1>10, <1>11 DEF FrameStep

\* The steps of insert_inner, of a squeeze job, of a read and of a flush.
LEMMA ProgressTypes ==
  ASSUME TypeOK, NEW t \in Threads, Progress(t)
  PROVE  TypeOK'
<1> DEFINE f == frame[t][Main]
<1>1. FramesOK
  BY DEF TypeOK, FramesOK
<1>2. f \in SlotFrame(Main)
  BY <1>1, SlotTypes, Constants
<1>3. /\ f.id \in Entries /\ f.batch \in Entry /\ f.requests \in SUBSET Paths
      /\ \A pc \in PC : [f EXCEPT !.pc = pc] \in SlotFrame(Main)
  BY <1>2, FrameTypes, Constants
<1>4. TypeOK' <=> /\ FramesOK'
                  /\ index' \in [Entries -> Entry]
                  /\ used' \in 0..(Word - 1)
                  /\ usedDisk' \in Nat
                  /\ file' \in [Entries -> Content]
                  /\ tracked' \subseteq Entries
                  /\ snapshot' \in [Threads -> [Entries -> Entry]]
                  /\ answer' \in [Threads -> Answer]
                  /\ latest' \in [Entries -> Values]
                  /\ opsLeft' \in 0..MaxOps
  BY DEF TypeOK, FramesOK
<1>5. CASE \E k \in Slots : FrameStep(t, k)
  BY <1>5, FrameStepTypes
<1>6. ASSUME NEW e \in Entries, SqueezeVictim(t, e) PROVE TypeOK'
  <2>1. frame[t][e] \in SlotFrame(e) /\ e \in Slots
    BY <1>1, SlotTypes, Constants
  <2>2. Squeeze(e, index[e], SqueezeHint[e]) \in Squeezed
    BY SqueezeTypes, Constants DEF TypeOK
  <2>3. WriteThenInsert(frame[t][e], Squeeze(e, index[e], SqueezeHint[e])) \in SlotFrame(e)
    BY <2>1, <2>2, FrameTypes
  <2>4. IdleFrame(e) \in SlotFrame(e)
    BY <2>1, FrameTypes DEF SlotFrame
  <2>5. FramesOK'
    BY <1>1, <1>6, <2>1, <2>3, <2>4, GotoType DEF SqueezeVictim
  <2> QED BY <1>4, <1>6, <2>5 DEF SqueezeVictim, TypeOK
<1>7. CASE FindVictim(t)
  <2>1. PICK V \in VictimSets :
          /\ tracked' = tracked \ V
          /\ frame' = [frame EXCEPT ![t] =
               [k \in Slots |-> CASE k = Main -> [f EXCEPT !.pc = "wait"]
                                  [] k \in V  -> [IdleFrame(k) EXCEPT !.pc = "load", !.op = "squeeze"]
                                  [] OTHER    -> frame[t][k]]]
    BY <1>7 DEF FindVictim
  <2>2. [f EXCEPT !.pc = "wait"] \in Frame
    BY <1>3, SMTT(40) DEF PC, SlotFrame
  <2>3. ASSUME NEW e \in Entries
        PROVE  /\ [IdleFrame(e) EXCEPT !.pc = "load", !.op = "squeeze"] \in Frame
               /\ [IdleFrame(e) EXCEPT !.pc = "load", !.op = "squeeze"].id = e
    <3>1. "load" \in PC /\ {} \in SUBSET Paths
      BY DEF PC
    <3> QED BY <3>1, StartTypes, EntryTypes
  <2>4. V \subseteq Entries
    BY DEF VictimSets, TypeOK
  <2>5. frame' \in [Threads -> [Slots -> Frame]]
    BY <1>1, <2>1, <2>2, <2>3, <2>4 DEF FramesOK
  <2>6. ASSUME NEW u \in Threads, NEW e \in Entries PROVE frame'[u][e].id = e
    BY <1>1, <2>1, <2>3, Constants DEF FramesOK
  <2>7. FramesOK'
    BY <2>5, <2>6 DEF FramesOK
  <2> QED BY <1>4, <1>7, <2>1, <2>7 DEF FindVictim, TypeOK
<1>8. CASE WriteSelf(t)
  <2>1. WriteThenInsert(f, WriteInMemoryBatch(f.id, f.batch)) \in SlotFrame(Main)
    BY <1>2, <1>3, SqueezeTypes, FrameTypes, Constants
  <2>2. [f EXCEPT !.pc = "noRoom"] \in SlotFrame(Main)
    BY <1>3 DEF PC
  <2>3. FramesOK'
    BY <1>1, <1>8, <2>1, <2>2, GotoType, Constants DEF WriteSelf
  <2> QED BY <1>4, <1>8, <2>3 DEF WriteSelf, TypeOK
<1>9. CASE VictimsSqueezed(t)
  <2>1. [f EXCEPT !.pc = "get"] \in SlotFrame(Main)
    BY <1>3 DEF PC
  <2>2. FramesOK'
    BY <1>1, <1>9, <2>1, GotoType, Constants DEF VictimsSqueezed
  <2> QED BY <1>4, <1>9, <2>2 DEF VictimsSqueezed, TypeOK
<1>10. CASE ReadFile(t)
  <2> DEFINE c == file[f.id]
             h == Hydrate(f.id, f.batch, c.val, f.requests)
  <2>1. c.val \in Values
    BY <1>3 DEF TypeOK, Content
  <2>2. [f EXCEPT !.pc = "get", !.batch = h] \in SlotFrame(Main)
    BY <1>2, <1>3, <2>1, HydrateTypes, FrameTypes, Constants, ZenonT(60)
  <2>3. [f EXCEPT !.pc = "badFile"] \in SlotFrame(Main) /\ Finished(f) \in SlotFrame(Main)
    BY <1>2, <1>3, FrameTypes, Constants DEF PC
  <2>4. FramesOK'
    BY <1>1, <1>10, <2>2, <2>3, GotoType, Constants DEF ReadFile
  <2>5. answer' \in [Threads -> Answer]
    <3>1. Plain("DiskArrow", c.val) \in Entry /\ Plain("DiskArrow", c.val).type = "DiskArrow"
          /\ Plain("DiskArrow", c.val).val = c.val
      BY <2>1, EntryTypes DEF DiskTypes, Plain
    <3>2. CASE Reply(t, f.id, f.requests, Plain("DiskArrow", c.val))
      BY <1>3, <2>1, <3>1, <3>2 DEF Reply, Answer, TypeOK
    <3>3. CASE UNCHANGED answer
      BY <3>3 DEF TypeOK
    <3> QED BY <1>10, <3>2, <3>3 DEF ReadFile
  <2> QED BY <1>4, <1>10, <2>4, <2>5 DEF ReadFile, TypeOK
<1>11. CASE FlushNext(t)
  <2>1. PICK e \in InMemory(snapshot[t]) :
          /\ Goto(t, Main, WriteThenInsert([f EXCEPT !.id = e], FlushEntry(snapshot[t][e])))
          /\ snapshot' = [snapshot EXCEPT ![t][e] = NoEntry]
    BY <1>11 DEF FlushNext
  <2>2. e \in Entries /\ snapshot[t][e] \in Entry
    BY DEF InMemory, TypeOK
  <2>3. [f EXCEPT !.id = e] \in SlotFrame(Main)
    BY <1>2, <2>2, Constants DEF SlotFrame, Frame
  <2>4. FlushEntry(snapshot[t][e]) \in Squeezed
    BY <2>2, SqueezeTypes, Constants
  <2>5. WriteThenInsert([f EXCEPT !.id = e], FlushEntry(snapshot[t][e])) \in SlotFrame(Main)
    BY <2>3, <2>4, FrameTypes, Constants
  <2>6. FramesOK'
    BY <1>1, <2>1, <2>5, GotoType, Constants
  <2> QED BY <1>4, <1>11, <2>1, <2>2, <2>6, EntryTypes DEF FlushNext, TypeOK
<1>12. CASE FlushEnd(t)
  <2>1. IdleFrame(AnyEntry) \in SlotFrame(Main)
    BY <1>2, FrameTypes, Constants DEF SlotFrame
  <2>2. FramesOK'
    BY <1>1, <1>12, <2>1, GotoType, Constants DEF FlushEnd
  <2> QED BY <1>4, <1>12, <2>2, Constants DEF FlushEnd, TypeOK
<1> QED
  BY <1>5, <1>6, <1>7, <1>8, <1>9, <1>10, <1>11, <1>12 DEF Progress

\* The operations a client starts.
LEMMA ClientTypes ==
  ASSUME TypeOK, NEW t \in Threads, Client(t)
  PROVE  TypeOK'
<1>1. FramesOK /\ frame[t][Main] \in SlotFrame(Main)
  BY SlotTypes, Constants DEF TypeOK, FramesOK
<1>2. TypeOK' <=> /\ FramesOK'
                  /\ index' \in [Entries -> Entry]
                  /\ used' \in 0..(Word - 1)
                  /\ usedDisk' \in Nat
                  /\ file' \in [Entries -> Content]
                  /\ tracked' \subseteq Entries
                  /\ snapshot' \in [Threads -> [Entries -> Entry]]
                  /\ answer' \in [Threads -> Answer]
                  /\ latest' \in [Entries -> Values]
                  /\ opsLeft' \in 0..MaxOps
  BY DEF TypeOK, FramesOK
<1>3. ASSUME NEW op, NEW e, Begin(t, op, e) PROVE opsLeft' \in 0..MaxOps
  BY <1>3, CacheAssumption DEF Begin, TypeOK
<1>4. \A e \in Entries : IdleFrame(e) \in Frame
  BY <1>1, FrameTypes, Constants
<1>5. ASSUME NEW e \in Entries, NEW op \in {"read", "peek"}, NEW requests \in SUBSET Paths,
             FromFile(t, op, e, requests)
      PROVE  FramesOK' /\ answer' \in [Threads -> Answer]
  <2>1. [IdleFrame(e) EXCEPT !.pc = "read", !.op = op, !.batch = index[e],
                             !.requests = requests] \in SlotFrame(Main)
    <3>1. "read" \in PC /\ index[e] \in Entry
      BY SMTT(40) DEF PC, TypeOK
    <3>2. [IdleFrame(e) EXCEPT !.pc = "read", !.op = op, !.batch = index[e],
                               !.requests = requests] \in Frame
      BY <3>1, StartTypes, ZenonT(60)
    <3> QED BY <3>2, Constants DEF SlotFrame
  <2>2. FramesOK'
    BY <1>1, <1>5, <2>1, GotoType, Constants DEF FromFile
  <2> QED BY <1>5, <2>2, Constants DEF FromFile, TypeOK
<1>6. ASSUME NEW e \in Entries, NEW requests \in SUBSET Paths, FromMemory(t, e, requests)
      PROVE  FramesOK' /\ answer' \in [Threads -> Answer]
  <2>1. FramesOK'
    BY <1>1, <1>6 DEF FromMemory, FramesOK
  <2>2. index[e].val \in Values /\ index[e].paths \in SUBSET Paths
    BY DEF TypeOK, Entry
  <2>3. answer' \in [Threads -> Answer]
    BY <1>6, <2>2 DEF FromMemory, Reply, TypeOK, Answer
  <2> QED BY <2>1, <2>3
<1>7. ASSUME NEW e \in Entries, NEW v \in Values, Insert(t, e, v) PROVE TypeOK'
  <2>1. [IdleFrame(e) EXCEPT !.pc = "get", !.op = "insert",
                             !.batch = Plain("MemoryArrow", v)] \in SlotFrame(Main)
    <3>1. "get" \in PC /\ {} \in SUBSET Paths /\ Plain("MemoryArrow", v) \in Entry
      BY EntryTypes DEF PC, MemoryTypes
    <3> QED BY <3>1, StartTypes, Constants DEF SlotFrame
  <2>2. FramesOK'
    BY <1>1, <1>7, <2>1, GotoType, Constants DEF Insert
  <2>3. opsLeft' \in 0..MaxOps
    BY <1>3, <1>7 DEF Insert
  <2>4. answer' \in [Threads -> Answer]
    BY <1>7, Constants DEF Insert, TypeOK
  <2> QED BY <1>2, <1>7, <2>2, <2>3, <2>4 DEF Insert, TypeOK
<1>8. ASSUME NEW e \in Entries, NEW requests \in SUBSET Paths, ReadArrow(t, e, requests)
      PROVE  TypeOK'
  <2>1. opsLeft' \in 0..MaxOps
    BY <1>3, <1>8 DEF ReadArrow
  <2>2. FramesOK' /\ answer' \in [Threads -> Answer]
    <3>1. CASE FromMemory(t, e, requests)
      BY <1>6, <3>1
    <3>2. CASE FromFile(t, "read", e, requests) \/ FromFile(t, "peek", e, requests)
      BY <1>5, <3>2
    <3>3. CASE answer' = [answer EXCEPT ![t] = NoAnswer] /\ UNCHANGED frame
      BY <1>1, <3>3, Constants DEF TypeOK, FramesOK
    <3> QED BY <1>8, <3>1, <3>2, <3>3 DEF ReadArrow
  <2> QED BY <1>2, <1>8, <2>1, <2>2 DEF ReadArrow, TypeOK
<1>9. ASSUME NEW e \in Entries, ReadLiquid(t, e) PROVE TypeOK'
  <2>1. opsLeft' \in 0..MaxOps
    BY <1>3, <1>9 DEF ReadLiquid
  <2>2. FramesOK' /\ answer' \in [Threads -> Answer]
    <3>1. {} \in SUBSET Paths
      OBVIOUS
    <3>2. CASE FromMemory(t, e, {})
      BY <1>6, <3>1, <3>2
    <3>3. CASE FromFile(t, "read", e, {}) \/ FromFile(t, "peek", e, {})
      BY <1>5, <3>1, <3>3
    <3> QED BY <1>9, <3>2, <3>3 DEF ReadLiquid
  <2> QED BY <1>2, <1>9, <2>1, <2>2 DEF ReadLiquid, TypeOK
<1>10. CASE FlushBegin(t)
  <2>1. [IdleFrame(AnyEntry) EXCEPT !.pc = "flush", !.op = "flush"] \in SlotFrame(Main)
    <3>1. "flush" \in PC /\ {} \in SUBSET Paths
      BY DEF PC
    <3> QED BY <3>1, StartTypes, EntryTypes, Constants DEF SlotFrame
  <2>2. FramesOK'
    BY <1>1, <1>10, <2>1, GotoType, Constants DEF FlushBegin
  <2>3. opsLeft' \in 0..MaxOps
    BY <1>3, <1>10 DEF FlushBegin
  <2>4. answer' \in [Threads -> Answer] /\ snapshot' \in [Threads -> [Entries -> Entry]]
    BY <1>10, Constants DEF FlushBegin, TypeOK
  <2> QED BY <1>2, <1>10, <2>2, <2>3, <2>4 DEF FlushBegin, TypeOK
<1>11. CASE Reset(t)
  <2>1. opsLeft' \in 0..MaxOps
    BY <1>3, <1>11 DEF Reset
  <2>2. FramesOK' /\ answer' \in [Threads -> Answer] /\ index' \in [Entries -> Entry]
    BY <1>1, <1>11, Constants, EntryTypes DEF Reset, TypeOK, FramesOK
  <2>3. used' \in 0..(Word - 1) /\ usedDisk' \in Nat
    BY <1>11, Constants DEF Reset
  <2> QED BY <1>2, <1>11, <2>1, <2>2, <2>3 DEF Reset, TypeOK
<1> QED BY <1>7, <1>8, <1>9, <1>10, <1>11 DEF Client

\* Every value the storage engine keeps stays in its range: in particular
\* used_memory_bytes is always a word and each squeeze job stays in the slot of
\* its victim, whatever the threads do.
THEOREM TypeCorrect == Spec => []TypeOK
<1>1. Init => TypeOK
  <2> SUFFICES ASSUME Init PROVE TypeOK
    OBVIOUS
  <2>1. \A e \in Entries : IdleFrame(e) \in Frame /\ IdleFrame(e).id = e
    BY EntryTypes DEF IdleFrame, Frame, PC
  <2>2. frame \in [Threads -> [Slots -> Frame]]
    BY <2>1, Constants DEF Init, Slots
  <2>3. \A t \in Threads, e \in Entries : frame[t][e].id = e
    BY <2>1, Constants DEF Init
  <2>4. NoEntry.val \in Values
    BY EntryTypes DEF Entry
  <2>5. /\ index \in [Entries -> Entry] /\ file \in [Entries -> Content]
        /\ tracked \subseteq Entries /\ latest \in [Entries -> Values]
    BY <2>4, EntryTypes DEF Init
  <2>6. snapshot \in [Threads -> [Entries -> Entry]] /\ answer \in [Threads -> Answer]
    BY Constants DEF Init
  <2>7. used \in 0..(Word - 1) /\ usedDisk \in Nat /\ opsLeft \in 0..MaxOps
    BY Constants, CacheAssumption DEF Init
  <2> QED
    BY <2>2, <2>3, <2>5, <2>6, <2>7 DEF TypeOK
<1>2. TypeOK /\ [Next]_vars => TypeOK'
  <2> SUFFICES ASSUME TypeOK, [Next]_vars PROVE TypeOK'
    OBVIOUS
  <2>1. CASE UNCHANGED vars
    BY <2>1 DEF vars, TypeOK
  <2>2. CASE Done
    BY <2>1, <2>2 DEF Done
  <2>3. ASSUME NEW t \in Threads, Progress(t) \/ Client(t) PROVE TypeOK'
    BY <2>3, ProgressTypes, ClientTypes
  <2> QED BY <2>1, <2>2, <2>3 DEF Next
<1> QED BY <1>1, <1>2, PTL DEF Spec

-----------------------------------------------------------------------------
(***************************************************************************)
(* The memory accounting of the storage engine is exact, for any number of *)
(* threads and entries, in the exclusive setting.                          *)
(***************************************************************************)
-----------------------------------------------------------------------------
(* What an entry is charged for.                                           *)

\* Who has paid for e depends only on the counters and ids of the frames.
LEMMA PaidSame ==
  ASSUME NEW fr, NEW gr, NEW e,
         \A u \in Threads, j \in Slots :
           (fr[u][j].pc = "put" /\ fr[u][j].id = e) <=> (gr[u][j].pc = "put" /\ gr[u][j].id = e)
  PROVE  Paid(fr, e) = Paid(gr, e)
<1>1. \A p \in Threads \X Slots : p[1] \in Threads /\ p[2] \in Slots
  OBVIOUS
<1> QED BY <1>1 DEF Paid

\* The charge depends only on the index and on the frames that have paid.
LEMMA ChargeSame ==
  ASSUME NEW fr, NEW gr, NEW ix, NEW e,
         Paid(fr, e) = Paid(gr, e),
         \A p \in Paid(fr, e) : fr[p[1]][p[2]] = gr[p[1]][p[2]]
  PROVE  ChargeOf(fr, ix, e) = ChargeOf(gr, ix, e)
<1>1. CASE Paid(fr, e) = {}
  BY <1>1 DEF ChargeOf
<1>2. CASE Paid(fr, e) # {}
  <2> DEFINE p == CHOOSE p \in Paid(fr, e) : TRUE
             q == CHOOSE q \in Paid(gr, e) : TRUE
  <2>1. p \in Paid(fr, e)
    BY <1>2
  <2>2. p = q
    OBVIOUS
  <2>3. fr[p[1]][p[2]] = gr[q[1]][q[2]]
    BY <2>1, <2>2
  <2> HIDE DEF p, q
  <2>4. ChargeOf(fr, ix, e) = Size(e, fr[p[1]][p[2]].batch)
    BY <1>2 DEF ChargeOf, p
  <2>5. ChargeOf(gr, ix, e) = Size(e, gr[q[1]][q[2]].batch)
    BY <1>2 DEF ChargeOf, q
  <2> QED BY <2>3, <2>4, <2>5
<1> QED BY <1>1, <1>2

\* An entry one frame has paid for is charged with that frame's batch.
LEMMA ChargePaid ==
  ASSUME NEW fr, NEW ix, NEW e, NEW t, NEW k, Paid(fr, e) = {<<t, k>>}
  PROVE  ChargeOf(fr, ix, e) = Size(e, fr[t][k].batch)
<1> DEFINE p == CHOOSE p \in Paid(fr, e) : TRUE
<1>1. p = <<t, k>>
  OBVIOUS
<1>2. p[1] = t /\ p[2] = k
  BY <1>1
<1> HIDE DEF p
<1>3. ChargeOf(fr, ix, e) = Size(e, fr[p[1]][p[2]].batch)
  BY DEF ChargeOf, p
<1> QED BY <1>2, <1>3

\* The charges are numbers and, added up, the budget of a state in which it is
\* exact; changing one of them changes the total by the difference.
LEMMA ChargeTotal ==
  ASSUME TypeOK, NEW e \in Entries, NEW n \in Nat
  PROVE  /\ Charges \in [Entries -> Nat]
         /\ Total(Charges) \in Nat /\ Charges[e] <= Total(Charges)
         /\ Total([Charges EXCEPT ![e] = n]) = Total(Charges) - Charges[e] + n
<1>1. ASSUME NEW d \in Entries PROVE ChargeOf(frame, index, d) \in Nat
  <2>1. CASE Paid(frame, d) = {}
    BY <2>1, SizeType DEF ChargeOf, TypeOK
  <2>2. CASE Paid(frame, d) # {}
    <3> DEFINE p == CHOOSE p \in Paid(frame, d) : TRUE
    <3>1. p \in Paid(frame, d)
      BY <2>2
    <3>2. ChargeOf(frame, index, d) = Size(d, frame[p[1]][p[2]].batch)
      BY <2>2 DEF ChargeOf
    <3> HIDE DEF p
    <3>3. p[1] \in Threads /\ p[2] \in Slots
      BY <3>1 DEF Paid
    <3>4. frame[p[1]][p[2]].batch \in Entry
      BY <3>3 DEF TypeOK, Frame
    <3> QED BY <3>2, <3>4, SizeType
  <2> QED BY <2>1, <2>2
<1>2. Charges \in [Entries -> Nat]
  BY <1>1 DEF Charges
<1> QED BY <1>2, TotalUpdate, EntryAssumption, ZenonT(60)

-----------------------------------------------------------------------------
(* What a step that replaces one frame leaves alone.                       *)

\* Goto changes one frame.
LEMMA GotoFrame ==
  ASSUME TypeOK, NEW t \in Threads, NEW k \in Slots, NEW f, Goto(t, k, f)
  PROVE  /\ frame'[t][k] = f
         /\ \A u \in Threads, j \in Slots : ~(u = t /\ j = k) => frame'[u][j] = frame[u][j]
BY DEF Goto, TypeOK

\* If no frame enters or leaves "put" and the index stays, so do the charges.
LEMMA ChargesStay ==
  ASSUME \A t \in Threads, k \in Slots :
           \/ frame'[t][k] = frame[t][k]
           \/ frame[t][k].pc # "put" /\ frame'[t][k].pc # "put",
         index' = index
  PROVE  Charges' = Charges
<1>1. ASSUME NEW e \in Entries PROVE ChargeOf(frame', index', e) = ChargeOf(frame, index, e)
  <2>1. Paid(frame', e) = Paid(frame, e)
    BY DEF Paid
  <2>2. \A p \in Paid(frame', e) : frame'[p[1]][p[2]] = frame[p[1]][p[2]]
    BY DEF Paid
  <2>3. ChargeOf(frame', index', e) = ChargeOf(frame, index', e)
    BY <2>1, <2>2, ChargeSame
  <2> QED BY <2>3
<1> QED BY <1>1 DEF Charges

\* A step that takes no new ownership and touches neither budget nor index
\* keeps the invariant.
LEMMA QuietStep ==
  ASSUME TypeOK, ExclusiveInv,
         NEW t \in Threads, NEW k \in Slots, NEW f, Goto(t, k, f),
         index' = index, used' = used, tracked' = tracked,
         frame[t][k].pc # "put",
         f.pc \notin {"put", "notify", "flush", "noRoom"}, f.op # "flush",
         Owner(f) => Owner(frame[t][k]) /\ f.id = frame[t][k].id,
         f.pc = "budget" => f.old = index[f.id],
         f.pc \in {"victims", "wait"} => f.batch.type \in MemoryTypes,
         f.pc = "read" => f.op \in {"read", "peek"}
  PROVE  ExclusiveInv'
<1>1. /\ frame'[t][k] = f
      /\ \A u \in Threads, j \in Slots : ~(u = t /\ j = k) => frame'[u][j] = frame[u][j]
  BY GotoFrame
<1>2. \A u \in Threads, j \in Slots :
        Owner(frame'[u][j]) => Owner(frame[u][j]) /\ frame'[u][j].id = frame[u][j].id
  BY <1>1
<1>3. OneOwner'
  BY <1>2 DEF ExclusiveInv, OneOwner
<1>4. TrackedIsFree'
  BY <1>2 DEF ExclusiveInv, TrackedIsFree
<1>5. HeldInMemory'
  BY <1>1, <1>2 DEF ExclusiveInv, HeldInMemory
<1>6. OldIsFresh'
  BY <1>1 DEF ExclusiveInv, OldIsFresh
<1>7. RefusedTakesMemory'
  BY <1>1 DEF ExclusiveInv, RefusedTakesMemory
<1>8. Charges' = Charges
  BY <1>1, ChargesStay
<1>9. BudgetExact' /\ WithinBudget'
  BY <1>8 DEF ExclusiveInv, BudgetExact, WithinBudget
<1> QED BY <1>3, <1>4, <1>5, <1>6, <1>7, <1>9 DEF ExclusiveInv

\* An entry has been paid for by its owner or by nobody.
LEMMA PaidByOwner ==
  ASSUME OneOwner, NEW t \in Threads, NEW k \in Slots, Owner(frame[t][k])
  PROVE  Paid(frame, frame[t][k].id) = IF frame[t][k].pc = "put" THEN {<<t, k>>} ELSE {}
<1> DEFINE e == frame[t][k].id
<1>1. ASSUME NEW p \in Paid(frame, e) PROVE p = <<t, k>> /\ frame[t][k].pc = "put"
  <2>1. PICK u \in Threads, j \in Slots : p = <<u, j>>
    BY DEF Paid
  <2>2. frame[u][j].pc = "put" /\ frame[u][j].id = e
    BY <2>1 DEF Paid
  <2>3. Owner(frame[u][j])
    BY <2>2 DEF Owner
  <2>4. u = t /\ j = k
    BY <2>2, <2>3 DEF OneOwner
  <2> QED BY <2>1, <2>2, <2>4
<1>2. frame[t][k].pc = "put" => <<t, k>> \in Paid(frame, e)
  BY DEF Paid
<1> QED BY <1>1, <1>2

\* try_insert's budget step moves used_memory_bytes by the difference, without
\* wrapping, exactly when the entry's charge changes by it.
LEMMA BudgetStep ==
  ASSUME TypeOK, TypeOK', ExclusiveInv, Exclusive,
         NEW t \in Threads, NEW k \in Slots, TryInsertBudget(t, k)
  PROVE  ExclusiveInv'
<1> DEFINE f == frame[t][k]
           new == Size(f.id, f.batch)
           cost == Size(f.id, index[f.id])
<1>1. /\ frame'[t][k] = [f EXCEPT !.pc = "put"]
      /\ \A u \in Threads, j \in Slots : ~(u = t /\ j = k) => frame'[u][j] = frame[u][j]
  BY GotoFrame DEF TryInsertBudget
<1>2. f \in Frame /\ f.pc = "budget" /\ index' = index /\ tracked' = tracked
  BY DEF TryInsertBudget, At, TypeOK
<1>3. /\ frame'[t][k].pc = "put" /\ frame'[t][k].id = f.id /\ frame'[t][k].batch = f.batch
      /\ frame'[t][k].op = f.op
  BY <1>1, <1>2 DEF Frame
<1>4. Owner(f) /\ Owner(frame'[t][k])
  BY <1>2, <1>3 DEF Owner
<1>5. \A u \in Threads, j \in Slots :
        Owner(frame'[u][j]) => Owner(frame[u][j]) /\ frame'[u][j].id = frame[u][j].id
  BY <1>1, <1>3, <1>4
<1>6. OneOwner'
  BY <1>5 DEF ExclusiveInv, OneOwner
<1>7. TrackedIsFree'
  BY <1>2, <1>5 DEF ExclusiveInv, TrackedIsFree
<1>8. HeldInMemory'
  <2> SUFFICES ASSUME NEW u \in Threads, NEW j \in Slots, Owner(frame'[u][j]),
                      j # Main \/ frame'[u][j].pc = "notify"
               PROVE  index'[frame'[u][j].id].type \in MemoryTypes
    BY DEF HeldInMemory
  <2>1. Owner(frame[u][j]) /\ frame'[u][j].id = frame[u][j].id
    BY <1>5
  <2>2. j # Main \/ frame[u][j].pc = "notify"
    BY <1>1, <1>3
  <2>3. index[frame[u][j].id].type \in MemoryTypes
    BY <2>1, <2>2 DEF ExclusiveInv, HeldInMemory
  <2> QED BY <1>2, <2>1, <2>3
<1>9. OldIsFresh'
  <2> SUFFICES ASSUME NEW u \in Threads, NEW j \in Slots, frame'[u][j].pc = "budget"
               PROVE  frame'[u][j].old = index'[frame'[u][j].id]
    BY DEF OldIsFresh
  <2>1. frame'[u][j] = frame[u][j]
    BY <1>1, <1>3
  <2> QED BY <1>2, <2>1 DEF ExclusiveInv, OldIsFresh
<1>10. RefusedTakesMemory'
  <2>1. f.op # "flush"
    BY DEF ExclusiveInv, RefusedTakesMemory
  <2>2. \A u \in Threads, j \in Slots :
          frame'[u][j] = frame[u][j] \/ (frame'[u][j].op # "flush" /\ frame'[u][j].pc = "put")
    BY <1>1, <1>3, <2>1
  <2> QED BY <2>2 DEF ExclusiveInv, RefusedTakesMemory
<1>11. f.id \in Entries /\ f.batch \in Entry /\ index[f.id] \in Entry /\ f.old = index[f.id]
  BY <1>2 DEF Frame, TypeOK, ExclusiveInv, OldIsFresh
<1>12. new \in Nat /\ cost \in Nat /\ MaxBytes + new < Word
  BY <1>11, SizeType DEF Exclusive
<1>13. Charges[f.id] = cost
  <2>1. Paid(frame, f.id) = {}
    BY <1>2, <1>4, PaidByOwner DEF ExclusiveInv
  <2> QED BY <1>11, <2>1 DEF Charges, ChargeOf
<1>14. Charges' = [Charges EXCEPT ![f.id] = new]
  <2>1. Paid(frame', f.id) = {<<t, k>>}
    <3>1. Paid(frame, f.id) = {}
      BY <1>2, <1>4, PaidByOwner DEF ExclusiveInv
    <3>2. ASSUME NEW u \in Threads, NEW j \in Slots
          PROVE  <<u, j>> \in Paid(frame', f.id) <=> u = t /\ j = k
      <4>1. CASE u = t /\ j = k
        BY <1>3, <4>1 DEF Paid
      <4>2. CASE ~(u = t /\ j = k)
        <5>1. frame'[u][j] = frame[u][j]
          BY <1>1, <4>2
        <5> QED BY <3>1, <4>2, <5>1 DEF Paid
      <4> QED BY <4>1, <4>2
    <3>3. Paid(frame', f.id) \subseteq Threads \X Slots
      BY DEF Paid
    <3> QED BY <3>2, <3>3
  <2>2. ChargeOf(frame', index', f.id) = new
    <3>1. \A fr, ix, e : Paid(fr, e) = {<<t, k>>} => ChargeOf(fr, ix, e) = Size(e, fr[t][k].batch)
      BY ChargePaid
    <3>2. ChargeOf(frame', index', f.id) = Size(f.id, frame'[t][k].batch)
      BY <2>1, <3>1, Zenon
    <3> QED BY <1>3, <3>2
  <2>3. ASSUME NEW e \in Entries, e # f.id
        PROVE  ChargeOf(frame', index', e) = ChargeOf(frame, index, e)
    <3>1. Paid(frame', e) = Paid(frame, e)
      <4>1. ASSUME NEW u \in Threads, NEW j \in Slots
            PROVE  (frame'[u][j].pc = "put" /\ frame'[u][j].id = e)
                     <=> (frame[u][j].pc = "put" /\ frame[u][j].id = e)
        <5>1. CASE u = t /\ j = k
          BY <1>1, <1>2, <1>3, <2>3, <5>1
        <5>2. CASE ~(u = t /\ j = k)
          BY <1>1, <5>2
        <5> QED BY <5>1, <5>2
      <4> QED BY <4>1, PaidSame
    <3>2. \A p \in Paid(frame', e) : frame'[p[1]][p[2]] = frame[p[1]][p[2]]
      BY <1>1, <1>3, <2>3 DEF Paid
    <3>3. ChargeOf(frame', index', e) = ChargeOf(frame, index', e)
      BY <3>1, <3>2, ChargeSame
    <3> QED BY <1>2, <3>3
  <2> QED BY <2>2, <2>3 DEF Charges
<1>15. /\ used \in Nat /\ cost <= used /\ used <= MaxBytes
       /\ Total(Charges') = used - cost + new
  <2>1. used = Total(Charges) /\ used <= MaxBytes
    BY DEF ExclusiveInv, BudgetExact, WithinBudget
  <2> QED BY <1>11, <1>12, <1>13, <1>14, <2>1, ChargeTotal
<1>16. used' = used + new - cost
  <2>1. used' = (used + new - cost) % Word
    BY <1>11 DEF TryInsertBudget, Reserved
  <2>2. used + new - cost \in 0..(Word - 1)
    BY <1>12, <1>15, Constants
  <2>3. \A n \in 0..(Word - 1) : n % Word = n
    BY Constants
  <2> QED BY <2>1, <2>2, <2>3
<1>17. WithinBudget'
  <2>1. CASE Grows(f)
    BY <1>16, <2>1 DEF TryInsertBudget, Fits, WithinBudget
  <2>2. CASE ~Grows(f)
    <3>1. ~(cost < new)
      BY <1>11, <2>2 DEF Grows
    <3> QED BY <1>12, <1>15, <1>16, <3>1, Constants DEF WithinBudget
  <2> QED BY <2>1, <2>2
<1>18. BudgetExact'
  BY <1>12, <1>15, <1>16 DEF BudgetExact
<1> QED BY <1>6, <1>7, <1>8, <1>9, <1>10, <1>17, <1>18 DEF ExclusiveInv

\* index.insert turns a charge paid in advance into the charge of the entry.
LEMMA PutStep ==
  ASSUME TypeOK, ExclusiveInv, NEW t \in Threads, NEW k \in Slots, IndexInsert(t, k)
  PROVE  ExclusiveInv'
<1> DEFINE f == frame[t][k]
<1>1. /\ frame'[t][k] = [f EXCEPT !.pc = "notify"]
      /\ \A u \in Threads, j \in Slots : ~(u = t /\ j = k) => frame'[u][j] = frame[u][j]
  BY GotoFrame DEF IndexInsert
<1>2. f \in Frame /\ f.pc = "put" /\ used' = used /\ tracked' = tracked
  BY DEF IndexInsert, At, TypeOK
<1>3. f.id \in Entries /\ index' = [index EXCEPT ![f.id] = f.batch]
  BY <1>2 DEF IndexInsert, Frame
<1>4. index'[f.id] = f.batch /\ \A e \in Entries : e # f.id => index'[e] = index[e]
  BY <1>3 DEF TypeOK
<1>5. /\ frame'[t][k].pc = "notify" /\ frame'[t][k].id = f.id /\ frame'[t][k].batch = f.batch
      /\ frame'[t][k].op = f.op
  BY <1>1, <1>2 DEF Frame
<1>6. Owner(f)
  BY <1>2 DEF Owner
<1>7. \A u \in Threads, j \in Slots :
        Owner(frame'[u][j]) => Owner(frame[u][j]) /\ frame'[u][j].id = frame[u][j].id
  BY <1>1, <1>5, <1>6
<1>8. \A u \in Threads, j \in Slots : frame[u][j].id \in Entries
  BY DEF TypeOK, Frame
<1>9. \A u \in Threads, j \in Slots :
        ~(u = t /\ j = k) /\ Owner(frame[u][j]) => frame[u][j].id # f.id
  BY <1>6 DEF ExclusiveInv, OneOwner
<1>10. OneOwner'
  BY <1>7 DEF ExclusiveInv, OneOwner
<1>11. TrackedIsFree'
  <2>1. f.id \notin tracked /\ tracked \subseteq Entries
    BY <1>6 DEF ExclusiveInv, TrackedIsFree, TypeOK
  <2> QED BY <1>2, <1>4, <1>7, <2>1 DEF ExclusiveInv, TrackedIsFree
<1>12. HeldInMemory'
  <2> SUFFICES ASSUME NEW u \in Threads, NEW j \in Slots, Owner(frame'[u][j]),
                      j # Main \/ frame'[u][j].pc = "notify"
               PROVE  index'[frame'[u][j].id].type \in MemoryTypes
    BY DEF HeldInMemory
  <2>1. CASE u = t /\ j = k
    BY <1>4, <1>5, <2>1 DEF Owner
  <2>2. CASE ~(u = t /\ j = k)
    BY <1>1, <1>4, <1>8, <1>9, <2>2 DEF ExclusiveInv, HeldInMemory
  <2> QED BY <2>1, <2>2
<1>13. OldIsFresh'
  <2> SUFFICES ASSUME NEW u \in Threads, NEW j \in Slots, frame'[u][j].pc = "budget"
               PROVE  frame'[u][j].old = index'[frame'[u][j].id]
    BY DEF OldIsFresh
  <2>1. ~(u = t /\ j = k)
    BY <1>5
  <2>2. Owner(frame[u][j])
    BY <1>1, <2>1 DEF Owner
  <2> QED BY <1>1, <1>4, <1>8, <1>9, <2>1, <2>2 DEF ExclusiveInv, OldIsFresh
<1>14. RefusedTakesMemory'
  <2>1. f.op # "flush"
    BY DEF ExclusiveInv, RefusedTakesMemory
  <2>2. \A u \in Threads, j \in Slots :
          frame'[u][j] = frame[u][j] \/ (frame'[u][j].op # "flush" /\ frame'[u][j].pc = "notify")
    BY <1>1, <1>5, <2>1
  <2> QED BY <2>2 DEF ExclusiveInv, RefusedTakesMemory
<1>15. Charges' = Charges
  <2>1. Paid(frame, f.id) = {<<t, k>>}
    BY <1>2, <1>6, PaidByOwner DEF ExclusiveInv
  <2>2. Paid(frame', f.id) = {}
    <3>1. ASSUME NEW u \in Threads, NEW j \in Slots PROVE <<u, j>> \notin Paid(frame', f.id)
      <4>1. CASE u = t /\ j = k
        BY <1>5, <4>1 DEF Paid
      <4>2. CASE ~(u = t /\ j = k)
        <5>1. frame'[u][j] = frame[u][j]
          BY <1>1, <4>2
        <5> QED BY <2>1, <4>2, <5>1 DEF Paid
      <4> QED BY <4>1, <4>2
    <3>2. Paid(frame', f.id) \subseteq Threads \X Slots
      BY DEF Paid
    <3> QED BY <3>1, <3>2
  <2>3. ChargeOf(frame', index', f.id) = Size(f.id, f.batch)
    BY <1>4, <2>2 DEF ChargeOf
  <2>4. ChargeOf(frame, index, f.id) = Size(f.id, f.batch)
    BY <2>1, ChargePaid
  <2>5. ASSUME NEW e \in Entries, e # f.id
        PROVE  ChargeOf(frame', index', e) = ChargeOf(frame, index, e)
    <3>1. Paid(frame', e) = Paid(frame, e)
      <4>1. ASSUME NEW u \in Threads, NEW j \in Slots
            PROVE  (frame'[u][j].pc = "put" /\ frame'[u][j].id = e)
                     <=> (frame[u][j].pc = "put" /\ frame[u][j].id = e)
        <5>1. CASE u = t /\ j = k
          BY <1>1, <1>5, <2>5, <5>1
        <5>2. CASE ~(u = t /\ j = k)
          BY <1>1, <5>2
        <5> QED BY <5>1, <5>2
      <4> QED BY <4>1, PaidSame
    <3>2. \A p \in Paid(frame', e) : frame'[p[1]][p[2]] = frame[p[1]][p[2]]
      BY <1>1, <1>5, <2>5 DEF Paid
    <3>3. ChargeOf(frame', index', e) = ChargeOf(frame, index', e)
      BY <3>1, <3>2, ChargeSame
    <3>4. index'[e] = index[e]
      BY <1>4, <2>5
    <3>5. ChargeOf(frame, index', e) = ChargeOf(frame, index, e)
      BY <3>4 DEF ChargeOf
    <3> QED BY <3>3, <3>5
  <2> QED BY <2>3, <2>4, <2>5 DEF Charges
<1>16. BudgetExact' /\ WithinBudget'
  BY <1>2, <1>15 DEF ExclusiveInv, BudgetExact, WithinBudget
<1> QED BY <1>10, <1>11, <1>12, <1>13, <1>14, <1>16 DEF ExclusiveInv

\* notify_insert gives an entry in memory back to the policy and its owner
\* lets go of it.
LEMMA NotifyStep ==
  ASSUME TypeOK, ExclusiveInv, Exclusive, NEW t \in Threads, NEW k \in Slots, NotifyInsert(t, k)
  PROVE  ExclusiveInv'
<1> DEFINE f == frame[t][k]
<1>1. f \in Frame /\ f.pc = "notify" /\ f.op # "flush"
  BY DEF NotifyInsert, At, TypeOK, ExclusiveInv, RefusedTakesMemory
<1>2. /\ frame'[t][k] = IdleFrame(f.id)
      /\ \A u \in Threads, j \in Slots : ~(u = t /\ j = k) => frame'[u][j] = frame[u][j]
  BY <1>1, GotoFrame DEF NotifyInsert, Finished
<1>3. /\ index' = index /\ used' = used
      /\ tracked' = IF f.batch.type \in MemoryTypes THEN tracked \cup {f.id} ELSE tracked \ {f.id}
  BY DEF NotifyInsert, Exclusive
<1>4. frame'[t][k].pc = "idle" /\ frame'[t][k].op = "none" /\ ~Owner(frame'[t][k])
  BY <1>2 DEF IdleFrame, Owner
<1>5. \A u \in Threads, j \in Slots :
        Owner(frame'[u][j]) => /\ Owner(frame[u][j]) /\ frame'[u][j] = frame[u][j]
                               /\ ~(u = t /\ j = k)
  BY <1>2, <1>4
<1>6. OneOwner'
  BY <1>5 DEF ExclusiveInv, OneOwner
<1>7. TrackedIsFree'
  <2> SUFFICES ASSUME NEW e \in tracked'
               PROVE  /\ index[e].type \in MemoryTypes
                      /\ \A u \in Threads, j \in Slots : Owner(frame'[u][j]) => frame'[u][j].id # e
    BY <1>3 DEF TrackedIsFree
  <2>1. CASE e \in tracked
    BY <1>5, <2>1 DEF ExclusiveInv, TrackedIsFree
  <2>2. CASE e \notin tracked
    <3>1. e = f.id /\ f.batch.type \in MemoryTypes
      BY <1>3, <2>2
    <3>2. Owner(f)
      BY <1>1, <3>1 DEF Owner
    <3>3. index[e].type \in MemoryTypes
      BY <1>1, <3>1, <3>2 DEF ExclusiveInv, HeldInMemory
    <3> QED BY <1>5, <3>1, <3>2, <3>3 DEF ExclusiveInv, OneOwner
  <2> QED BY <2>1, <2>2
<1>8. HeldInMemory'
  BY <1>3, <1>5 DEF ExclusiveInv, HeldInMemory
<1>9. \A u \in Threads, j \in Slots :
        \/ frame'[u][j] = frame[u][j]
        \/ frame'[u][j].pc = "idle" /\ frame'[u][j].op = "none" /\ frame[u][j].pc = "notify"
  BY <1>1, <1>2, <1>4
<1>10. OldIsFresh'
  BY <1>3, <1>9 DEF ExclusiveInv, OldIsFresh
<1>11. RefusedTakesMemory'
  BY <1>9 DEF ExclusiveInv, RefusedTakesMemory
<1>12. Charges' = Charges
  BY <1>3, <1>9, ChargesStay
<1>13. BudgetExact' /\ WithinBudget'
  BY <1>3, <1>12 DEF ExclusiveInv, BudgetExact, WithinBudget
<1> QED BY <1>6, <1>7, <1>8, <1>10, <1>11, <1>13 DEF ExclusiveInv

\* find_victim hands each victim from the policy to one squeeze job.
LEMMA FindVictimStep ==
  ASSUME TypeOK, ExclusiveInv, NEW t \in Threads, FindVictim(t)
  PROVE  ExclusiveInv'
<1> DEFINE f == frame[t][Main]
           Job(e) == [IdleFrame(e) EXCEPT !.pc = "load", !.op = "squeeze"]
<1>1. PICK V \in VictimSets :
        /\ tracked' = tracked \ V
        /\ frame' = [frame EXCEPT ![t] =
             [k \in Slots |-> CASE k = Main -> [f EXCEPT !.pc = "wait"]
                                [] k \in V  -> [IdleFrame(k) EXCEPT !.pc = "load", !.op = "squeeze"]
                                [] OTHER    -> frame[t][k]]]
  BY DEF FindVictim
<1>2. V \subseteq tracked /\ V \subseteq Entries
  BY DEF VictimSets, TypeOK
<1>3. index' = index /\ used' = used
  BY DEF FindVictim
<1>4. f \in Frame /\ f.pc = "victims" /\ \A j \in Slots : frame[t][j].pc # "put"
  <2>1. f \in Frame
    BY Constants DEF TypeOK
  <2>2. f.pc = "victims" /\ \A j \in Slots \ {Main} : frame[t][j].pc \in Suspended
    BY DEF FindVictim, At, CanRun
  <2>3. \A j \in Slots \ {Main} : frame[t][j].pc # "put"
    BY <2>2 DEF Suspended
  <2> QED BY <2>1, <2>2, <2>3
<1>5. ASSUME NEW u \in Threads, NEW j \in Slots
      PROVE  frame'[u][j] = IF u = t /\ j = Main THEN [f EXCEPT !.pc = "wait"]
                            ELSE IF u = t /\ j \in V THEN Job(j) ELSE frame[u][j]
  <2>1. u # t => frame'[u] = frame[u]
    BY <1>1 DEF TypeOK
  <2>2. frame'[t] = [k \in Slots |-> CASE k = Main -> [f EXCEPT !.pc = "wait"]
                                      [] k \in V  -> Job(k)
                                      [] OTHER    -> frame[t][k]]
    BY <1>1 DEF TypeOK
  <2>3. Main \notin V
    BY <1>2, Constants
  <2> HIDE DEF f, Job
  <2>4. frame'[t][j] = IF j = Main THEN [f EXCEPT !.pc = "wait"]
                       ELSE IF j \in V THEN Job(j) ELSE frame[t][j]
    BY <2>2, <2>3
  <2> QED BY <2>1, <2>4
<1>6. /\ frame'[t][Main].pc = "wait" /\ frame'[t][Main].id = f.id
      /\ frame'[t][Main].op = f.op /\ frame'[t][Main].batch = f.batch
  BY <1>4, <1>5, Constants DEF Frame
<1>7. ASSUME NEW e \in V
      PROVE  /\ frame'[t][e].pc = "load" /\ frame'[t][e].id = e /\ frame'[t][e].op = "squeeze"
  <2>1. frame'[t][e] = Job(e)
    BY <1>2, <1>5, Constants
  <2> QED BY <2>1 DEF IdleFrame
<1>8. ASSUME NEW u \in Threads, NEW j \in Slots
      PROVE  \/ frame'[u][j] = frame[u][j]
             \/ u = t /\ j = Main
             \/ u = t /\ j \in V
  BY <1>5
<1>9. Owner(f) /\ Owner(frame'[t][Main])
  BY <1>4, <1>6 DEF Owner
<1>10. ASSUME NEW u \in Threads, NEW j \in Slots, Owner(frame'[u][j])
       PROVE  \/ u = t /\ j \in V /\ frame'[u][j].id = j
              \/ Owner(frame[u][j]) /\ frame'[u][j].id = frame[u][j].id
  BY <1>6, <1>7, <1>8, <1>9, <1>10
<1>11. \A e \in V, u \in Threads, j \in Slots : Owner(frame[u][j]) => frame[u][j].id # e
  BY <1>2 DEF ExclusiveInv, TrackedIsFree
<1>12. OneOwner'
  <2> SUFFICES ASSUME NEW u \in Threads, NEW v \in Threads, NEW j \in Slots, NEW k \in Slots,
                      Owner(frame'[u][j]), Owner(frame'[v][k]),
                      frame'[u][j].id = frame'[v][k].id
               PROVE  u = v /\ j = k
    BY DEF OneOwner
  <2>1. CASE u = t /\ j \in V /\ frame'[u][j].id = j
    <3>1. ~(Owner(frame[v][k]) /\ frame'[v][k].id = frame[v][k].id)
      BY <1>11, <2>1
    <3>2. v = t /\ k \in V /\ frame'[v][k].id = k
      BY <1>10, <3>1
    <3> QED BY <2>1, <3>2
  <2>2. CASE v = t /\ k \in V /\ frame'[v][k].id = k
    <3>1. ~(Owner(frame[u][j]) /\ frame'[u][j].id = frame[u][j].id)
      BY <1>11, <2>2
    <3>2. u = t /\ j \in V /\ frame'[u][j].id = j
      BY <1>10, <3>1
    <3> QED BY <2>2, <3>2
  <2>3. CASE /\ Owner(frame[u][j]) /\ frame'[u][j].id = frame[u][j].id
             /\ Owner(frame[v][k]) /\ frame'[v][k].id = frame[v][k].id
    <3>1. OneOwner
      BY DEF ExclusiveInv
    <3>2. frame[u][j].id = frame[v][k].id
      BY <2>3
    <3> QED BY <2>3, <3>1, <3>2 DEF OneOwner
  <2> QED BY <1>10, <2>1, <2>2, <2>3
<1>13. TrackedIsFree'
  <2> SUFFICES ASSUME NEW e \in tracked'
               PROVE  /\ index[e].type \in MemoryTypes
                      /\ \A u \in Threads, j \in Slots : Owner(frame'[u][j]) => frame'[u][j].id # e
    BY <1>3 DEF TrackedIsFree
  <2>1. e \in tracked /\ e \notin V
    BY <1>1
  <2>2. /\ index[e].type \in MemoryTypes
        /\ \A u \in Threads, j \in Slots : Owner(frame[u][j]) => frame[u][j].id # e
    BY <2>1 DEF ExclusiveInv, TrackedIsFree
  <2> QED BY <1>10, <2>1, <2>2
<1>14. HeldInMemory'
  <2> SUFFICES ASSUME NEW u \in Threads, NEW j \in Slots, Owner(frame'[u][j]),
                      j # Main \/ frame'[u][j].pc = "notify"
               PROVE  index[frame'[u][j].id].type \in MemoryTypes
    BY <1>3 DEF HeldInMemory
  <2>1. CASE u = t /\ j \in V
    BY <1>2, <1>7, <2>1 DEF ExclusiveInv, TrackedIsFree
  <2>2. CASE ~(u = t /\ j \in V)
    <3>1. ~(u = t /\ j = Main)
      BY <1>6
    <3>2. frame'[u][j] = frame[u][j]
      BY <1>8, <2>2, <3>1
    <3> QED BY <3>2 DEF ExclusiveInv, HeldInMemory
  <2> QED BY <2>1, <2>2
<1>15. \A u \in Threads, j \in Slots :
         \/ frame'[u][j] = frame[u][j]
         \/ /\ frame'[u][j].pc \in {"wait", "load"} /\ frame[u][j].pc # "put"
            /\ frame'[u][j].op # "flush"
            /\ frame'[u][j].pc = "wait" => frame'[u][j].batch.type \in MemoryTypes
  <2>1. f.op # "flush" /\ f.batch.type \in MemoryTypes
    BY <1>4, Constants DEF ExclusiveInv, RefusedTakesMemory
  <2> QED BY <1>4, <1>6, <1>7, <1>8, <2>1
<1>16. OldIsFresh'
  BY <1>3, <1>15 DEF ExclusiveInv, OldIsFresh
<1>17. RefusedTakesMemory'
  BY <1>15 DEF ExclusiveInv, RefusedTakesMemory
<1>18. Charges' = Charges
  BY <1>3, <1>15, ChargesStay
<1>19. BudgetExact' /\ WithinBudget'
  BY <1>3, <1>18 DEF ExclusiveInv, BudgetExact, WithinBudget
<1> QED BY <1>12, <1>13, <1>14, <1>16, <1>17, <1>19 DEF ExclusiveInv

\* A client that starts on an entry that is not in memory becomes its owner:
\* no squeeze job has it, and no other client.
LEMMA StartStep ==
  ASSUME TypeOK, ExclusiveInv, NEW t \in Threads, NEW f \in Frame, Goto(t, Main, f),
         index' = index, used' = used, tracked' = tracked,
         Idle(t), Alone(t, f.id), index[f.id].type \notin MemoryTypes,
         (f.pc = "get" /\ f.op = "insert") \/ (f.pc = "read" /\ f.op = "read")
  PROVE  ExclusiveInv'
<1>1. /\ frame'[t][Main] = f
      /\ \A u \in Threads, j \in Slots : ~(u = t /\ j = Main) => frame'[u][j] = frame[u][j]
  BY GotoFrame, Constants
<1>2. frame[t][Main].pc = "idle"
  BY DEF Idle
<1>3. ASSUME NEW u \in Threads, NEW j \in Slots, Owner(frame[u][j]) PROVE frame[u][j].id # f.id
  <2>1. CASE j = Main
    <3>1. frame[u][j].pc # "idle"
      BY <1>3 DEF Owner
    <3>2. u # t
      BY <1>2, <2>1, <3>1
    <3> QED BY <2>1, <3>1, <3>2 DEF Alone, Idle
  <2>2. CASE j # Main
    <3>1. index[frame[u][j].id].type \in MemoryTypes
      BY <1>3, <2>2 DEF ExclusiveInv, HeldInMemory
    <3> QED BY <3>1
  <2> QED BY <2>1, <2>2
<1>4. f.id \notin tracked
  BY DEF ExclusiveInv, TrackedIsFree
<1>5. OneOwner'
  BY <1>1, <1>3 DEF ExclusiveInv, OneOwner
<1>6. TrackedIsFree'
  BY <1>1, <1>4 DEF ExclusiveInv, TrackedIsFree
<1>7. HeldInMemory'
  BY <1>1 DEF ExclusiveInv, HeldInMemory
<1>8. OldIsFresh'
  BY <1>1 DEF ExclusiveInv, OldIsFresh
<1>9. RefusedTakesMemory'
  BY <1>1 DEF ExclusiveInv, RefusedTakesMemory
<1>10. Charges' = Charges
  BY <1>1, <1>2, ChargesStay
<1>11. BudgetExact' /\ WithinBudget'
  BY <1>10 DEF ExclusiveInv, BudgetExact, WithinBudget
<1> QED BY <1>5, <1>6, <1>7, <1>8, <1>9, <1>11 DEF ExclusiveInv

-----------------------------------------------------------------------------
(* The steps, one action at a time.                                        *)

\* A frame on its way to the disk is still its entry's owner.
LEMMA WriteThenInsertOwns ==
  ASSUME NEW f \in Frame, NEW r
  PROVE  /\ WriteThenInsert(f, r).pc \in {"get", "truncate"}
         /\ WriteThenInsert(f, r).id = f.id /\ WriteThenInsert(f, r).op = f.op
         /\ Owner(WriteThenInsert(f, r))
<1>1. /\ WriteThenInsert(f, r).pc \in {"get", "truncate"}
      /\ WriteThenInsert(f, r).id = f.id /\ WriteThenInsert(f, r).op = f.op
  BY DEF WriteThenInsert, Frame
<1> QED BY <1>1 DEF Owner

\* The budget refuses only what takes memory.
LEMMA RefusedSize ==
  ASSUME TypeOK, ExclusiveInv, NEW t \in Threads, NEW k \in Slots,
         frame[t][k].pc = "budget", ~Fits(frame[t][k])
  PROVE  frame[t][k].batch.type \in MemoryTypes
<1> DEFINE f == frame[t][k]
<1>1. f \in Frame /\ f.old = index[f.id]
  BY DEF TypeOK, ExclusiveInv, OldIsFresh
<1>2. f.id \in Entries /\ f.batch \in Entry /\ f.old \in Entry
  BY <1>1 DEF Frame
<1>3. SUFFICES ASSUME f.batch.type \notin MemoryTypes PROVE FALSE
  OBVIOUS
<1>4. Size(f.id, f.batch) = 0
  BY <1>3 DEF Size, MemoryTypes
<1>5. Size(f.id, f.old) \in Nat
  BY <1>2, SizeType
<1>6. f.old = NoEntry
  BY <1>4, <1>5 DEF Fits, Grows
<1>7. Size(f.id, f.old) = 0
  BY <1>6 DEF NoEntry, Size
<1>8. used \in 0..(Word - 1) /\ used <= MaxBytes
  BY DEF TypeOK, ExclusiveInv, WithinBudget
<1>9. \A n \in 0..(Word - 1) : (n + 0 - 0) % Word = n
  BY Constants
<1>10. Reserved(f) = used
  BY <1>4, <1>7, <1>8, <1>9 DEF Reserved
<1> QED BY <1>8, <1>10 DEF Fits

\* try_insert and write_batch_to_disk, in any slot.
LEMMA ExclusiveFrameStep ==
  ASSUME TypeOK, TypeOK', ExclusiveInv, Exclusive,
         NEW t \in Threads, NEW k \in Slots, FrameStep(t, k)
  PROVE  ExclusiveInv'
<1> DEFINE f == frame[t][k]
<1>1. f \in Frame /\ f.op # "flush"
  BY DEF TypeOK, ExclusiveInv, RefusedTakesMemory
<1>2. CASE TryInsertGet(t, k)
  <2> DEFINE g == [f EXCEPT !.old = index[f.id], !.pc = "budget"]
  <2>1. g.pc = "budget" /\ g.id = f.id /\ g.op = f.op /\ g.old = index[f.id]
    BY <1>1 DEF Frame
  <2>2. f.pc = "get" /\ Goto(t, k, g) /\ index' = index /\ used' = used /\ tracked' = tracked
    BY <1>2 DEF TryInsertGet, At
  <2>3. Owner(f)
    BY <2>2 DEF Owner
  <2> HIDE DEF g
  <2> QED BY <1>1, <2>1, <2>2, <2>3, QuietStep
<1>3. CASE TryInsertBudget(t, k)
  BY <1>3, BudgetStep
<1>4. CASE TryInsertFails(t, k)
  <2> DEFINE r == Squeeze(f.id, f.batch, SqueezeHint[f.id])
             g == IF f.op = "squeeze" THEN WriteThenInsert(f, r) ELSE [f EXCEPT !.pc = "victims"]
  <2>1. f.pc = "budget" /\ ~Fits(f) /\ index' = index /\ used' = used /\ tracked' = tracked
    BY <1>4 DEF TryInsertFails, At
  <2>2. Goto(t, k, g)
    BY <1>1, <1>4 DEF TryInsertFails
  <2>3. f.batch.type \in MemoryTypes
    BY <2>1, RefusedSize
  <2>4. Owner(f)
    BY <2>1 DEF Owner
  <2>5. /\ g.pc \in {"get", "truncate", "victims"} /\ g.id = f.id /\ g.op = f.op
        /\ g.pc = "victims" => g.batch = f.batch
    <3>1. CASE f.op = "squeeze"
      BY <1>1, <3>1, WriteThenInsertOwns
    <3>2. CASE f.op # "squeeze"
      BY <1>1, <3>2 DEF Frame
    <3> QED BY <3>1, <3>2
  <2> HIDE DEF g
  <2> QED BY <1>1, <2>1, <2>2, <2>3, <2>4, <2>5, QuietStep
<1>5. CASE IndexInsert(t, k)
  BY <1>5, PutStep
<1>6. CASE NotifyInsert(t, k)
  BY <1>6, NotifyStep
<1>7. CASE TruncateFile(t, k)
  <2> DEFINE g == [f EXCEPT !.pc = "write"]
  <2>1. g.pc = "write" /\ g.id = f.id /\ g.op = f.op
    BY <1>1 DEF Frame
  <2>2. f.pc = "truncate" /\ Goto(t, k, g) /\ index' = index /\ used' = used /\ tracked' = tracked
    BY <1>7 DEF TruncateFile, At
  <2>3. Owner(f)
    BY <2>2 DEF Owner
  <2> HIDE DEF g
  <2> QED BY <1>1, <2>1, <2>2, <2>3, QuietStep
<1>8. CASE WriteFile(t, k)
  <2> DEFINE g == [f EXCEPT !.pc = "get", !.bytes = NoBytes]
  <2>1. g.pc = "get" /\ g.id = f.id /\ g.op = f.op
    BY <1>1 DEF Frame
  <2>2. f.pc = "write" /\ Goto(t, k, g) /\ index' = index /\ used' = used /\ tracked' = tracked
    BY <1>8 DEF WriteFile, At
  <2>3. Owner(f)
    BY <2>2 DEF Owner
  <2> HIDE DEF g
  <2> QED BY <1>1, <2>1, <2>2, <2>3, QuietStep
<1> QED
  BY <1>2, <1>3, <1>4, <1>5, <1>6, <1>7, <1>8 DEF FrameStep

\* The other steps of an operation under way.
LEMMA ExclusiveProgress ==
  ASSUME TypeOK, TypeOK', ExclusiveInv, Exclusive, NEW t \in Threads, Progress(t)
  PROVE  ExclusiveInv'
<1> DEFINE f == frame[t][Main]
<1>1. f \in Frame /\ f.op # "flush" /\ f.pc # "flush"
  BY Constants DEF TypeOK, ExclusiveInv, RefusedTakesMemory
<1>2. CASE \E k \in Slots : FrameStep(t, k)
  BY <1>2, ExclusiveFrameStep
<1>3. ASSUME NEW e \in Entries, SqueezeVictim(t, e) PROVE ExclusiveInv'
  <2> DEFINE r == Squeeze(e, index[e], SqueezeHint[e])
             g == IF index[e] = NoEntry THEN IdleFrame(e) ELSE WriteThenInsert(frame[t][e], r)
  <2>1. e \in Slots /\ frame[t][e] \in Frame /\ frame[t][e].op # "flush"
    BY Constants DEF TypeOK, ExclusiveInv, RefusedTakesMemory
  <2>2. /\ frame[t][e].pc = "load" /\ Goto(t, e, g)
        /\ index' = index /\ used' = used /\ tracked' = tracked
    BY <1>3 DEF SqueezeVictim, At
  <2>3. Owner(frame[t][e])
    BY <2>2 DEF Owner
  <2>4. /\ g.pc \in {"idle", "get", "truncate"} /\ g.op # "flush"
        /\ g.pc # "idle" => g.id = frame[t][e].id
    <3>1. CASE index[e] = NoEntry
      BY <3>1 DEF IdleFrame
    <3>2. CASE index[e] # NoEntry
      BY <2>1, <3>2, WriteThenInsertOwns
    <3> QED BY <3>1, <3>2
  <2>5. Owner(g) => g.pc # "idle"
    BY DEF Owner
  <2> HIDE DEF g
  <2> QED BY <2>1, <2>2, <2>3, <2>4, <2>5, QuietStep
<1>4. CASE FindVictim(t)
  BY <1>4, FindVictimStep
<1>5. CASE WriteSelf(t)
  <2> DEFINE g == WriteThenInsert(f, WriteInMemoryBatch(f.id, f.batch))
  <2>1. f.pc = "victims" /\ index' = index /\ used' = used /\ tracked' = tracked
    BY <1>5 DEF WriteSelf, At
  <2>2. f.batch.type \notin DiskTypes
    BY <2>1, Constants DEF ExclusiveInv, RefusedTakesMemory, MemoryTypes, DiskTypes
  <2>3. Goto(t, Main, g)
    BY <1>5, <2>2 DEF WriteSelf
  <2>4. g.pc \in {"get", "truncate"} /\ g.id = f.id /\ g.op = f.op
    BY <1>1, WriteThenInsertOwns
  <2>5. Owner(f)
    BY <2>1 DEF Owner
  <2> HIDE DEF g
  <2> QED BY <1>1, <2>1, <2>3, <2>4, <2>5, QuietStep, Constants
<1>6. CASE VictimsSqueezed(t)
  <2> DEFINE g == [f EXCEPT !.pc = "get"]
  <2>1. g.pc = "get" /\ g.id = f.id /\ g.op = f.op
    BY <1>1 DEF Frame
  <2>2. f.pc = "wait" /\ Goto(t, Main, g) /\ index' = index /\ used' = used /\ tracked' = tracked
    BY <1>6 DEF VictimsSqueezed
  <2>3. Owner(f)
    BY <2>2 DEF Owner
  <2> HIDE DEF g
  <2> QED BY <1>1, <2>1, <2>2, <2>3, QuietStep, Constants
<1>7. CASE ReadFile(t)
  <2> DEFINE h == Hydrate(f.id, f.batch, file[f.id].val, f.requests)
             g == IF file[f.id].fmt # BackingFormat(f.batch) THEN [f EXCEPT !.pc = "badFile"]
                  ELSE IF f.op = "peek" \/ h = NoEntry THEN Finished(f)
                  ELSE [f EXCEPT !.pc = "get", !.batch = h]
  <2>1. f.pc = "read" /\ index' = index /\ used' = used /\ tracked' = tracked
    BY <1>7 DEF ReadFile, At
  <2>2. Goto(t, Main, g)
    <3>1. CASE file[f.id].fmt # BackingFormat(f.batch)
      BY <1>7, <3>1 DEF ReadFile
    <3>2. CASE file[f.id].fmt = BackingFormat(f.batch)
      BY <1>7, <3>2 DEF ReadFile
    <3> QED BY <3>1, <3>2
  <2>3. /\ g.pc \in {"badFile", "idle", "get"} /\ g.op # "flush"
        /\ g.pc = "get" => g.id = f.id /\ f.op # "peek"
    <3>1. /\ [f EXCEPT !.pc = "badFile"].pc = "badFile" /\ [f EXCEPT !.pc = "badFile"].op = f.op
          /\ [f EXCEPT !.pc = "get", !.batch = h].pc = "get"
          /\ [f EXCEPT !.pc = "get", !.batch = h].id = f.id
          /\ [f EXCEPT !.pc = "get", !.batch = h].op = f.op
      BY <1>1 DEF Frame
    <3>2. Finished(f).pc = "idle" /\ Finished(f).op = "none"
      BY <1>1 DEF Finished, IdleFrame
    <3> QED BY <1>1, <3>1, <3>2
  <2>4. Owner(g) => g.pc = "get"
    BY <2>3 DEF Owner
  <2>5. g.pc = "get" => Owner(f)
    <3>1. f.op \in {"none", "insert", "read", "peek", "squeeze"}
      BY <1>1 DEF Frame
    <3>2. f.pc = "read" => f.op \in {"read", "peek"}
      BY Constants DEF ExclusiveInv, RefusedTakesMemory
    <3> QED BY <2>1, <2>3, <3>2 DEF Owner
  <2> HIDE DEF g
  <2> QED BY <1>1, <2>1, <2>2, <2>3, <2>4, <2>5, QuietStep, Constants
<1>8. ~FlushNext(t) /\ ~FlushEnd(t)
  BY <1>1 DEF FlushNext, FlushEnd, At
<1> QED
  BY <1>2, <1>3, <1>4, <1>5, <1>6, <1>7, <1>8 DEF Progress

\* The invariant speaks of the budget, the index, the policy and the frames.
LEMMA SameState ==
  ASSUME ExclusiveInv, index' = index, used' = used, tracked' = tracked, frame' = frame
  PROVE  ExclusiveInv'
BY DEF ExclusiveInv, OneOwner, TrackedIsFree, HeldInMemory, OldIsFresh, RefusedTakesMemory,
  BudgetExact, Charges, WithinBudget

\* What the clients start.
LEMMA ExclusiveClient ==
  ASSUME TypeOK, ExclusiveInv, Exclusive, NEW t \in Threads, Client(t)
  PROVE  ExclusiveInv'
<1>1. ASSUME NEW op, NEW e, Begin(t, op, e)
      PROVE  op \in {"insert", "read"} /\ Idle(t) /\ Alone(t, e)
  BY <1>1 DEF Begin, Exclusive
<1>2. ASSUME NEW e \in Entries, NEW v \in Values, Insert(t, e, v) PROVE ExclusiveInv'
  <2> DEFINE g == [IdleFrame(e) EXCEPT !.pc = "get", !.op = "insert",
                                       !.batch = Plain("MemoryArrow", v)]
  <2>1. g.pc = "get" /\ g.op = "insert" /\ g.id = e
    BY SMTT(40) DEF IdleFrame
  <2>2. g \in Frame
    <3>1. "get" \in PC /\ {} \in SUBSET Paths /\ Plain("MemoryArrow", v) \in Entry
      BY EntryTypes DEF PC, MemoryTypes
    <3> QED BY <3>1, StartTypes
  <2>3. Goto(t, Main, g) /\ index' = index /\ used' = used /\ tracked' = tracked
    BY <1>2 DEF Insert
  <2>4. index[e].type \notin MemoryTypes
    BY <1>2 DEF Insert, Exclusive, NoEntry, MemoryTypes
  <2>5. Idle(t) /\ Alone(t, e)
    BY <1>1, <1>2 DEF Insert
  <2> HIDE DEF g
  <2>6. Alone(t, g.id) /\ index[g.id].type \notin MemoryTypes
    BY <2>1, <2>4, <2>5
  <2> QED BY <2>1, <2>2, <2>3, <2>5, <2>6, StartStep
<1>3. ASSUME NEW e \in Entries, NEW requests \in SUBSET Paths, NEW op \in {"read", "peek"},
             FromFile(t, op, e, requests), Idle(t), Alone(t, e),
             index' = index, used' = used, tracked' = tracked,
             op = "read" => index[e].type \in DiskTypes
      PROVE  ExclusiveInv'
  <2> DEFINE g == [IdleFrame(e) EXCEPT !.pc = "read", !.op = op, !.batch = index[e],
                                       !.requests = requests]
  <2>1. g.pc = "read" /\ g.op = op /\ g.id = e
    BY SMTT(40) DEF IdleFrame
  <2>2. g \in Frame
    <3>1. "read" \in PC /\ index[e] \in Entry
      BY DEF PC, TypeOK
    <3> QED BY <3>1, StartTypes, ZenonT(60)
  <2>3. Goto(t, Main, g) /\ frame[t][Main].pc = "idle"
    BY <1>3 DEF FromFile, Idle
  <2> HIDE DEF g
  <2>4. CASE op = "read"
    <3>1. index[e].type \notin MemoryTypes
      BY <1>3, <2>4 DEF DiskTypes, MemoryTypes
    <3> QED BY <1>3, <2>1, <2>2, <2>3, <2>4, <3>1, StartStep
  <2>5. CASE op = "peek"
    <3>1. ~Owner(g)
      BY <2>1, <2>5 DEF Owner
    <3> QED BY <1>3, <2>1, <2>3, <2>5, <3>1, QuietStep, Constants
  <2> QED BY <2>4, <2>5
<1>4. ASSUME NEW e \in Entries, NEW requests \in SUBSET Paths, ReadArrow(t, e, requests)
      PROVE  ExclusiveInv'
  <2>1. Idle(t) /\ Alone(t, e) /\ index' = index /\ used' = used /\ tracked' = tracked
    BY <1>1, <1>4 DEF ReadArrow
  <2>2. CASE frame' = frame
    BY <2>1, <2>2, SameState
  <2>3. CASE FromFile(t, "read", e, requests) /\ index[e].type \in DiskTypes
    BY <1>3, <2>1, <2>3
  <2>4. CASE FromFile(t, "peek", e, requests)
    BY <1>3, <2>1, <2>4
  <2>5. requests = {}
    BY <1>4 DEF ReadArrow, Exclusive
  <2>6. \/ frame' = frame
        \/ FromFile(t, "read", e, requests) /\ index[e].type \in DiskTypes
        \/ FromFile(t, "peek", e, requests)
    BY <1>4, <2>5 DEF ReadArrow, FromMemory
  <2> QED BY <2>2, <2>3, <2>4, <2>6
<1>5. ASSUME NEW e \in Entries, ReadLiquid(t, e) PROVE ExclusiveInv'
  <2>1. Idle(t) /\ Alone(t, e) /\ index' = index /\ used' = used /\ tracked' = tracked
    BY <1>1, <1>5 DEF ReadLiquid
  <2>2. \/ frame' = frame
        \/ FromFile(t, "read", e, {}) /\ index[e].type \in DiskTypes
        \/ FromFile(t, "peek", e, {})
    BY <1>5 DEF ReadLiquid, FromMemory, DiskTypes
  <2>3. {} \in SUBSET Paths
    OBVIOUS
  <2>4. CASE frame' = frame
    BY <2>1, <2>4, SameState
  <2>5. CASE FromFile(t, "read", e, {}) /\ index[e].type \in DiskTypes
    BY <1>3, <2>1, <2>3, <2>5
  <2>6. CASE FromFile(t, "peek", e, {})
    BY <1>3, <2>1, <2>3, <2>6
  <2> QED BY <2>2, <2>4, <2>5, <2>6
<1>6. ~FlushBegin(t) /\ ~Reset(t)
  BY <1>1 DEF FlushBegin, Reset
<1> QED BY <1>2, <1>4, <1>5, <1>6 DEF Client

\* In the exclusive setting one frame owns each entry that is about to change,
\* the size it read is fresh when it updates the budget, and the budget is exact
\* and respected: the induction.
THEOREM ExclusiveInvariant == Exclusive => (Spec => [](TypeOK /\ ExclusiveInv))
<1> SUFFICES ASSUME Exclusive PROVE Spec => [](TypeOK /\ ExclusiveInv)
  OBVIOUS
<1>1. Init /\ TypeOK => ExclusiveInv
  <2> SUFFICES ASSUME Init, TypeOK PROVE ExclusiveInv
    OBVIOUS
  <2>1. \A t \in Threads, k \in Slots : frame[t][k].pc = "idle" /\ frame[t][k].op = "none"
    BY DEF Init, IdleFrame
  <2>2. \A t \in Threads, k \in Slots : ~Owner(frame[t][k])
    BY <2>1 DEF Owner
  <2>3. OneOwner /\ TrackedIsFree /\ HeldInMemory
    BY <2>2 DEF Init, OneOwner, TrackedIsFree, HeldInMemory
  <2>4. OldIsFresh /\ RefusedTakesMemory
    BY <2>1 DEF OldIsFresh, RefusedTakesMemory
  <2>5. used = 0 /\ WithinBudget
    BY Constants DEF Init, WithinBudget
  <2>6. Charges = [e \in Entries |-> 0]
    <3>1. ASSUME NEW e \in Entries PROVE ChargeOf(frame, index, e) = 0
      <4>1. Paid(frame, e) = {}
        BY <2>1 DEF Paid
      <4>2. index[e].type = "None"
        BY DEF Init, NoEntry
      <4> QED BY <4>1, <4>2 DEF ChargeOf, Size
    <3> QED BY <3>1 DEF Charges
  <2>7. BudgetExact
    BY <2>5, <2>6, TotalZero DEF BudgetExact
  <2> QED BY <2>3, <2>4, <2>5, <2>7 DEF ExclusiveInv
<1>2. TypeOK /\ TypeOK' /\ ExclusiveInv /\ [Next]_vars => ExclusiveInv'
  <2> SUFFICES ASSUME TypeOK, TypeOK', ExclusiveInv, [Next]_vars PROVE ExclusiveInv'
    OBVIOUS
  <2>1. CASE UNCHANGED vars
    BY <2>1, SameState DEF vars
  <2>2. CASE Done
    BY <2>1, <2>2 DEF Done
  <2>3. ASSUME NEW t \in Threads, Progress(t) \/ Client(t) PROVE ExclusiveInv'
    BY <2>3, ExclusiveProgress, ExclusiveClient
  <2> QED BY <2>1, <2>2, <2>3 DEF Next
<1>3. Spec => []TypeOK
  BY TypeCorrect
<1> QED BY <1>1, <1>2, <1>3, PTL DEF Spec

\* used_memory_bytes is the total size of the entries in memory, for any number
\* of threads that share no entry.
THEOREM BudgetIsExact == Exclusive => (Spec => []BudgetExact)
<1>1. ExclusiveInv => BudgetExact
  BY DEF ExclusiveInv
<1> QED BY <1>1, ExclusiveInvariant, PTL

\* Neither "failed to insert disk entry" nor the unreachable! of
\* write_in_memory_batch_to_disk is reached: there is always room for a disk
\* entry, because an exact budget never wraps.
THEOREM DiskAlwaysFits == Exclusive => (Spec => []DiskEntriesFit)
<1>1. ExclusiveInv => DiskEntriesFit
  BY Constants DEF ExclusiveInv, RefusedTakesMemory, DiskEntriesFit
<1> QED BY <1>1, ExclusiveInvariant, PTL

\* try_reserve_memory keeps used_memory_bytes below max_memory_bytes, and no
\* fetch_sub wraps it, although sizes are read before the counter is updated.
THEOREM BudgetIsRespected == Exclusive => (Spec => []WithinBudget)
<1>1. ExclusiveInv => WithinBudget
  BY DEF ExclusiveInv
<1> QED BY <1>1, ExclusiveInvariant, PTL

-----------------------------------------------------------------------------
(* What squeezing and hydration return.                                    *)

\* Squeezing keeps the value, stays within the forms of the entry, and brings
\* the bytes along unless the file has them.
LEMMA SqueezedForm ==
  ASSUME NEW e \in Entries, NEW b \in Entry, NEW hint \in SUBSET Paths,
         b.type \in FormsOf(e), b.type # "None", Kind[e] # "variant",
         NEW r, r = Squeeze(e, b, hint) \/ r = WriteInMemoryBatch(e, b)
  PROVE  /\ r.batch.type \in FormsOf(e) /\ r.batch.type # "None" /\ r.batch.val = b.val
         /\ r.bytes # NoBytes => NeedsFile(r.batch) /\ r.bytes = FileOf(r.batch)
         /\ r.bytes = NoBytes /\ NeedsFile(r.batch) => NeedsFile(b) /\ FileOf(r.batch) = FileOf(b)
         /\ NeedsFile(b) => r.bytes = NoBytes /\ r.batch.type \in DiskTypes
<1>1. SqueezePolicy \in {"Evict", "TranscodeEvict", "TranscodeSqueezeEvict"}
      /\ Kind[e] \in {"plain", "opaque", "variant"}
  BY EntryAssumption
<1>2. CASE b.type = "MemoryArrow"
  <2>1. r = SqueezeArrow(e, b, hint) \/ r = SqueezeArrow(e, b, {})
    BY <1>2 DEF Squeeze, WriteInMemoryBatch, SqueezedTypes
  <2>2. CASE Format(e) = "Arrow"
    <3>1. r = [batch |-> Plain("DiskArrow", b.val), bytes |-> ArrowBytes(b.val)]
      BY <1>1, <2>1, <2>2 DEF Format, SqueezeArrow, VariantSqueezes
    <3> QED BY <1>2, <2>2, <3>1 DEF Plain, ArrowBytes, NoBytes, FormsOf, FileOf, BackingFormat,
              NeedsFile, SqueezedTypes, DiskTypes
  <2>3. CASE Format(e) # "Arrow"
    <3>1. r = [batch |-> Plain("MemoryLiquid", b.val), bytes |-> NoBytes]
      BY <1>1, <2>1, <2>3 DEF Format, SqueezeArrow, VariantSqueezes
    <3> QED BY <1>2, <2>3, <3>1 DEF Plain, FormsOf, NeedsFile, SqueezedTypes, DiskTypes
  <2> QED BY <2>2, <2>3
<1>3. CASE b.type = "MemoryLiquid"
  <2>1. Format(e) # "Arrow"
    BY <1>3 DEF FormsOf
  <2>2. \E ty \in {"SqueezedLiquid", "DiskLiquid"} :
          r = [batch |-> Plain(ty, b.val), bytes |-> LiquidBytes(b.val)]
    BY <1>3 DEF Squeeze, SqueezeLiquid, WriteInMemoryBatch, SqueezedTypes
  <2> QED BY <1>3, <2>1, <2>2 DEF Plain, LiquidBytes, NoBytes, FormsOf, FileOf, BackingFormat,
            NeedsFile, SqueezedTypes, DiskTypes
<1>4. CASE b.type \in SqueezedTypes
  <2>1. b.type = "SqueezedLiquid" /\ Format(e) # "Arrow"
    BY <1>4 DEF FormsOf, SqueezedTypes
  <2>2. r = [batch |-> Plain("DiskLiquid", b.val), bytes |-> NoBytes]
    BY <2>1 DEF Squeeze, WriteInMemoryBatch, DiskEntryOf, BackingFormat, SqueezedTypes
  <2> QED BY <2>1, <2>2 DEF Plain, FormsOf, FileOf, BackingFormat, NeedsFile, SqueezedTypes, DiskTypes
<1>5. CASE b.type \in DiskTypes
  <2>1. r = [batch |-> b, bytes |-> NoBytes]
    BY <1>5 DEF Squeeze, WriteInMemoryBatch, SqueezedTypes, DiskTypes
  <2> QED BY <1>5, <2>1
<1> QED BY <1>2, <1>3, <1>4, <1>5 DEF Entry, MemoryTypes, SqueezedTypes

\* Hydrating an entry on disk gives a form in memory that needs no file.
LEMMA HydratedForm ==
  ASSUME NEW e \in Entries, NEW b \in Entry, NEW v \in Values, NEW requests,
         b.type \in FormsOf(e), b.type \in DiskTypes, Kind[e] # "variant"
  PROVE  LET h == Hydrate(e, b, v, requests) IN
         h = NoEntry \/ (/\ h.type \in FormsOf(e) /\ h.type # "None" /\ ~NeedsFile(h)
                         /\ h.val = v)
<1>1. CASE HydrationPolicy = "NoHydration"
  BY <1>1 DEF Hydrate
<1>2. CASE HydrationPolicy # "NoHydration"
  <2>1. Hydrate(e, b, v, requests) = HydrateDisk(e, b, v, requests)
    BY <1>2 DEF Hydrate
  <2>2. CASE b.type = "DiskLiquid"
    <3>1. HydrateDisk(e, b, v, requests) = Plain("MemoryLiquid", v) /\ Format(e) # "Arrow"
      BY <2>2 DEF HydrateDisk, FormsOf
    <3> QED BY <2>1, <3>1 DEF Plain, FormsOf, NeedsFile, SqueezedTypes, DiskTypes
  <2>3. CASE b.type # "DiskLiquid"
    <3>1. HydrateDisk(e, b, v, requests) = Plain("MemoryArrow", v)
      BY <2>3 DEF HydrateDisk, VariantSqueezes
    <3> QED BY <2>1, <3>1 DEF Plain, FormsOf, NeedsFile, SqueezedTypes, DiskTypes
  <2> QED BY <2>2, <2>3
<1> QED BY <1>1, <1>2

-----------------------------------------------------------------------------
(* Steps that leave index, files and values alone.                         *)

\* What a frame must hold depends only on the index, the file and the value of
\* its entry.
LEMMA SameData ==
  ASSUME NEW f, NEW k, FrameData(f, k), index'[f.id] = index[f.id], file'[f.id] = file[f.id],
         latest'[f.id] = latest[f.id]
  PROVE  \A g : g = f => FrameData(g, k)'
BY DEF FrameData, HoldsLatest, HoldsBytes, ReadsItsFile, JobLeavesFile, FormsOf, Format,
  NeedsFile, FileOf

\* A frame moves on, on the same entry, and holds what it must.
LEMMA QuietData ==
  ASSUME TypeOK, DataInv, NEW t \in Threads, NEW k \in Slots, NEW g, Goto(t, k, g),
         index' = index, file' = file, latest' = latest, AnswerData',
         frame[t][k].pc # "write", FrameData(g, k),
         k = Main /\ g.pc # "idle" =>
           \A u \in Threads \ {t} : ~Idle(u) => g.id # frame[u][Main].id
  PROVE  DataInv'
<1>1. /\ frame'[t][k] = g
      /\ \A u \in Threads, j \in Slots : ~(u = t /\ j = k) => frame'[u][j] = frame[u][j]
  BY GotoFrame
<1>2. ASSUME NEW u \in Threads, NEW j \in Slots PROVE FrameData(frame[u][j], j)'
  <2> DEFINE h == frame'[u][j]
  <2>1. FrameData(h, j)
    BY <1>1 DEF DataInv
  <2>2. index'[h.id] = index[h.id] /\ file'[h.id] = file[h.id] /\ latest'[h.id] = latest[h.id]
    OBVIOUS
  <2> HIDE DEF h
  <2>3. \A x : x = h => FrameData(x, j)'
    BY <2>1, <2>2, SameData
  <2> QED BY <2>3 DEF h
<1>3. IndexData'
  <2>1. \A u \in Threads : frame[u][Main].pc = "write" =>
          frame'[u][Main] = frame[u][Main]
    BY <1>1, Constants
  <2> QED BY <2>1 DEF DataInv, IndexData, FormsOf, Format, NeedsFile, FileOf
<1>4. ClientsApart'
  <2>1. ASSUME NEW u \in Threads, NEW v \in Threads, u # v,
               frame'[u][Main].pc # "idle", frame'[v][Main].pc # "idle"
        PROVE  frame'[u][Main].id # frame'[v][Main].id
    <3>1. \A x \in Threads : x # t \/ k # Main => frame'[x][Main] = frame[x][Main]
      BY <1>1, Constants
    <3>2. CASE k # Main
      BY <2>1, <3>1, <3>2 DEF DataInv, ClientsApart, Idle
    <3>3. CASE k = Main
      BY <1>1, <2>1, <3>1, <3>3 DEF DataInv, ClientsApart, Idle
    <3> QED BY <3>2, <3>3
  <2> QED BY <2>1 DEF ClientsApart, Idle
<1> QED BY <1>2, <1>3, <1>4 DEF DataInv

\* A frame that goes on with the squeezed form of a batch holds what it must.
LEMMA SqueezedFrame ==
  ASSUME NEW k \in Slots, NEW f \in Frame, NEW b \in Entry, NEW hint \in SUBSET Paths, NEW r,
         r = Squeeze(f.id, b, hint) \/ r = WriteInMemoryBatch(f.id, b),
         b.type \in FormsOf(f.id), b.type # "None", Kind[f.id] # "variant",
         b.val = latest[f.id], NeedsFile(b) => file[f.id] = FileOf(b),
         k # Main => index[f.id].type # "None" /\ (NeedsFile(index[f.id]) => NeedsFile(b))
  PROVE  FrameData(WriteThenInsert(f, r), k)
<1> DEFINE g == WriteThenInsert(f, r)
<1>1. /\ r.batch.type \in FormsOf(f.id) /\ r.batch.type # "None" /\ r.batch.val = b.val
      /\ r.bytes # NoBytes => NeedsFile(r.batch) /\ r.bytes = FileOf(r.batch)
      /\ r.bytes = NoBytes /\ NeedsFile(r.batch) => NeedsFile(b) /\ FileOf(r.batch) = FileOf(b)
      /\ NeedsFile(b) => r.bytes = NoBytes /\ r.batch.type \in DiskTypes
  <2>1. f.id \in Entries
    BY DEF Frame
  <2> QED BY <2>1, SqueezedForm
<1>2. /\ g.id = f.id /\ g.batch = r.batch /\ g.bytes = r.bytes
      /\ g.pc = IF r.bytes = NoBytes THEN "get" ELSE "truncate"
  BY DEF WriteThenInsert, Frame
<1> HIDE DEF g
<1>3. HoldsLatest(g)
  BY <1>1, <1>2 DEF HoldsLatest
<1>4. HoldsBytes(g)
  BY <1>1, <1>2 DEF HoldsBytes
<1>5. ReadsItsFile(g)
  BY <1>2 DEF ReadsItsFile
<1>6. k # Main => JobLeavesFile(g)
  BY <1>1, <1>2 DEF JobLeavesFile
<1> QED BY <1>3, <1>4, <1>5, <1>6 DEF FrameData, g

\* A frame that only moves on keeps what it holds.
LEMMA MovedFrame ==
  ASSUME NEW k, NEW f, FrameData(f, k), NEW g, g.id = f.id, g.batch = f.batch,
         \/ f.pc = "get" /\ g.pc = "budget"
         \/ f.pc = "budget" /\ g.pc \in {"put", "victims"}
         \/ f.pc = "wait" /\ g.pc = "get" /\ k = Main
         \/ f.pc = "victims" /\ g.pc = "wait"
  PROVE  FrameData(g, k)
BY DEF FrameData, HoldsLatest, HoldsBytes, ReadsItsFile, JobLeavesFile, Inserting

\* A frame that does nothing holds nothing.
LEMMA IdleData ==
  ASSUME NEW k, NEW e \in Entries, NEW f, f = IdleFrame(e)
  PROVE  FrameData(f, k)
<1>1. f.pc = "idle" /\ f.batch.type = "None" /\ f.id = e
  BY DEF IdleFrame, NoEntry
<1> QED BY <1>1 DEF FrameData, HoldsLatest, HoldsBytes, ReadsItsFile, JobLeavesFile, Inserting, FormsOf

\* The answers stay right while they, the values and the index stay.
LEMMA AnswersStay ==
  ASSUME DataInv, answer' = answer, latest' = latest,
         \A e \in Entries : index[e].type # "None" => index'[e].type # "None", TypeOK
  PROVE  AnswerData'
<1>1. \A t \in Threads : answer[t].id \in Entries
  BY DEF TypeOK, Answer
<1> QED BY <1>1 DEF DataInv, AnswerData

\* index.get, the budget and notify_insert.
LEMMA QuietFrameStep ==
  ASSUME TypeOK, ExclusiveInv, DataInv, Exclusive, NEW t \in Threads, NEW k \in Slots,
         TryInsertGet(t, k) \/ TryInsertBudget(t, k) \/ TryInsertFails(t, k) \/ NotifyInsert(t, k)
  PROVE  DataInv'
<1> DEFINE f == frame[t][k]
<1>1. f \in Frame /\ f.id \in Entries /\ f.batch \in Entry /\ f.op # "flush" /\ FrameData(f, k)
  BY DEF TypeOK, ExclusiveInv, RefusedTakesMemory, DataInv, Frame
<1>2. /\ f.pc \in {"get", "budget", "notify"}
      /\ UNCHANGED <<index, file, answer, latest>>
  BY DEF TryInsertGet, TryInsertBudget, TryInsertFails, NotifyInsert, At
<1>3. AnswerData'
  BY <1>2, AnswersStay
<1>4. k = Main => \A u \in Threads \ {t} : ~Idle(u) => f.id # frame[u][Main].id
  BY <1>2 DEF DataInv, ClientsApart, Idle
<1>5. \E g : Goto(t, k, g) /\ FrameData(g, k) /\ g.id = f.id
  <2>1. CASE TryInsertGet(t, k)
    <3> DEFINE g == [f EXCEPT !.old = index[f.id], !.pc = "budget"]
    <3>1. g.id = f.id /\ g.batch = f.batch /\ g.pc = "budget" /\ f.pc = "get"
      BY <1>1, <2>1 DEF Frame, TryInsertGet, At
    <3>2. Goto(t, k, g)
      BY <2>1 DEF TryInsertGet
    <3> HIDE DEF g
    <3> QED BY <1>1, <3>1, <3>2, MovedFrame
  <2>2. CASE TryInsertBudget(t, k)
    <3> DEFINE g == [f EXCEPT !.pc = "put"]
    <3>1. g.id = f.id /\ g.batch = f.batch /\ g.pc = "put" /\ f.pc = "budget"
      BY <1>1, <2>2 DEF Frame, TryInsertBudget, At
    <3>2. Goto(t, k, g)
      BY <2>2 DEF TryInsertBudget
    <3> HIDE DEF g
    <3> QED BY <1>1, <3>1, <3>2, MovedFrame
  <2>3. CASE TryInsertFails(t, k)
    <3> DEFINE r == Squeeze(f.id, f.batch, SqueezeHint[f.id])
               g == [f EXCEPT !.pc = "victims"]
    <3>1. f.pc = "budget" /\ ~Fits(f)
      BY <2>3 DEF TryInsertFails, At
    <3>2. Goto(t, k, IF f.op = "squeeze" THEN WriteThenInsert(f, r) ELSE g)
      BY <1>1, <2>3 DEF TryInsertFails
    <3>3. CASE f.op = "squeeze"
      <4>1. f.batch.type \in MemoryTypes
        BY <3>1, RefusedSize
      <4>2. /\ f.batch.type \in FormsOf(f.id) /\ f.batch.type # "None" /\ f.batch.val = latest[f.id]
            /\ NeedsFile(f.batch) => file[f.id] = FileOf(f.batch)
        BY <1>1, <3>1 DEF FrameData, HoldsLatest, HoldsBytes, Inserting
      <4>3. k # Main => index[f.id].type # "None" /\ ~NeedsFile(index[f.id])
        BY <1>1, <3>1, <4>1 DEF FrameData, JobLeavesFile, MemoryTypes, DiskTypes
      <4>4. Kind[f.id] # "variant" /\ SqueezeHint[f.id] \in SUBSET Paths
        BY <1>1, Constants DEF Exclusive
      <4>5. FrameData(WriteThenInsert(f, r), k)
        BY <1>1, <4>2, <4>3, <4>4, SqueezedFrame
      <4> QED BY <1>1, <3>2, <3>3, <4>5, WriteThenInsertOwns
    <3>4. CASE f.op # "squeeze"
      <4>1. g.id = f.id /\ g.batch = f.batch /\ g.pc = "victims"
        BY <1>1 DEF Frame
      <4>2. Goto(t, k, g)
        BY <3>2, <3>4
      <4> HIDE DEF g
      <4> QED BY <1>1, <3>1, <4>1, <4>2, MovedFrame
    <3> QED BY <3>3, <3>4
  <2>4. CASE NotifyInsert(t, k)
    <3>1. Finished(f) = IdleFrame(f.id) /\ Goto(t, k, Finished(f)) /\ IdleFrame(f.id).id = f.id
      BY <1>1, <2>4 DEF NotifyInsert, Finished, IdleFrame
    <3> QED BY <1>1, <3>1, IdleData
  <2> QED BY <2>1, <2>2, <2>3, <2>4
<1> QED BY <1>2, <1>3, <1>4, <1>5, QuietData

-----------------------------------------------------------------------------
(* index.insert and write_batch_to_disk.                                   *)

\* While one frame owns an entry, every other frame that works on it is a late
\* notify_insert, or a reader whose file the owner leaves alone.
LEMMA OthersOnEntry ==
  ASSUME TypeOK, ExclusiveInv, DataInv, NEW t \in Threads, NEW k \in Slots, Owner(frame[t][k]),
         NEW u \in Threads, NEW j \in Slots, frame[u][j].id = frame[t][k].id, ~(u = t /\ j = k)
  PROVE  /\ frame[u][j].pc \in {"idle", "notify", "read", "flush", "noRoom"}
         /\ frame[u][j].pc = "read" => j = Main /\ k # Main
<1>1. ~Owner(frame[u][j])
  BY DEF ExclusiveInv, OneOwner
<1>2. frame[u][j].pc \in PC /\ frame[u][j].pc # "badFile"
  BY DEF TypeOK, Frame, DataInv, FrameData, ReadsItsFile
<1>3. frame[u][j].pc \in {"idle", "notify", "read", "flush", "noRoom"}
  BY <1>1, <1>2 DEF Owner, PC
<1>4. ASSUME frame[u][j].pc = "read" PROVE j = Main /\ k # Main
  <2>1. j = Main
    BY <1>4 DEF DataInv, FrameData, JobLeavesFile
  <2>2. k # Main
    <3>1. SUFFICES ASSUME k = Main PROVE FALSE
      OBVIOUS
    <3>2. u # t /\ ~Idle(u) /\ ~Idle(t)
      BY <1>4, <2>1, <3>1 DEF Idle, Owner
    <3> QED BY <2>1, <3>1, <3>2 DEF DataInv, ClientsApart
  <2> QED BY <2>1, <2>2
<1> QED BY <1>3, <1>4

\* Clients stay apart while a frame of one moves on with its entry.
LEMMA StillApart ==
  ASSUME DataInv, NEW t \in Threads, NEW k \in Slots, NEW g, frame[t][k].pc # "idle",
         g.id = frame[t][k].id, frame'[t][k] = g,
         \A u \in Threads, j \in Slots : ~(u = t /\ j = k) => frame'[u][j] = frame[u][j]
  PROVE  ClientsApart'
<1>1. ASSUME NEW u \in Threads, frame'[u][Main].pc # "idle"
      PROVE  frame[u][Main].pc # "idle" /\ frame'[u][Main].id = frame[u][Main].id
  BY <1>1, Constants
<1> QED BY <1>1 DEF DataInv, ClientsApart, Idle

\* index.insert: the new entry is the latest value, in a form of its entry, and
\* its file is written.
LEMMA PutData ==
  ASSUME TypeOK, ExclusiveInv, DataInv, NEW t \in Threads, NEW k \in Slots, IndexInsert(t, k)
  PROVE  DataInv'
<1> DEFINE f == frame[t][k]
           e == f.id
           g == [f EXCEPT !.pc = "notify"]
<1>1. /\ f \in Frame /\ e \in Entries /\ FrameData(f, k) /\ f.pc = "put" /\ Owner(f)
      /\ Goto(t, k, g) /\ UNCHANGED <<file, answer, latest>>
      /\ index' = [index EXCEPT ![e] = f.batch]
  BY DEF TypeOK, DataInv, Frame, IndexInsert, At, Owner
<1>2. g.id = e /\ g.batch = f.batch /\ g.pc = "notify"
  BY <1>1 DEF Frame
<1>3. /\ frame'[t][k] = g
      /\ \A u \in Threads, j \in Slots : ~(u = t /\ j = k) => frame'[u][j] = frame[u][j]
  BY <1>1, GotoFrame
<1>4. index'[e] = f.batch /\ \A d \in Entries : d # e => index'[d] = index[d]
  BY <1>1 DEF TypeOK
<1>5. /\ f.batch.type \in FormsOf(e) /\ f.batch.type # "None" /\ f.batch.val = latest[e]
      /\ NeedsFile(f.batch) => file[e] = FileOf(f.batch)
  BY <1>1 DEF FrameData, HoldsLatest, HoldsBytes, Inserting
<1> HIDE DEF g
<1>6. FrameData(frame[t][k], k)'
  BY <1>1, <1>2, <1>3, <1>4, <1>5 DEF FrameData, HoldsLatest, HoldsBytes, ReadsItsFile,
    JobLeavesFile, FormsOf, Format, NeedsFile
<1>7. ASSUME NEW u \in Threads, NEW j \in Slots, ~(u = t /\ j = k) PROVE FrameData(frame[u][j], j)'
  <2> DEFINE h == frame[u][j]
  <2>1. h \in Frame /\ h.id \in Entries /\ FrameData(h, j) /\ frame'[u][j] = h
    BY <1>3, <1>7 DEF TypeOK, Frame, DataInv
  <2>2. CASE h.id # e
    <3>1. index'[h.id] = index[h.id] /\ file'[h.id] = file[h.id] /\ latest'[h.id] = latest[h.id]
      BY <1>1, <1>4, <2>1, <2>2
    <3> QED BY <2>1, <3>1, SameData
  <2>3. CASE h.id = e
    <3>1. h.pc \in {"idle", "notify", "read", "flush", "noRoom"} /\ (h.pc = "read" => j = Main /\ k # Main)
      BY <1>1, <1>7, <2>3, OthersOnEntry
    <3>2. HoldsLatest(frame[u][j])'
      BY <1>1, <2>1 DEF FrameData, HoldsLatest, FormsOf, Format
    <3>3. HoldsBytes(frame[u][j])'
      BY <2>1, <3>1 DEF HoldsBytes
    <3>4. ReadsItsFile(frame[u][j])'
      <4>1. ASSUME h.pc = "read" PROVE NeedsFile(f.batch)
        <5>1. NeedsFile(index[e]) /\ k # Main
          BY <2>1, <2>3, <3>1, <4>1 DEF FrameData, ReadsItsFile
        <5> QED BY <1>1, <5>1 DEF FrameData, JobLeavesFile, NeedsFile
      <4> QED BY <1>1, <1>4, <2>1, <2>3, <4>1 DEF FrameData, ReadsItsFile, NeedsFile, FileOf
    <3>5. j # Main => JobLeavesFile(frame[u][j])'
      BY <1>4, <1>5, <2>1, <2>3, <3>1 DEF JobLeavesFile
    <3> QED BY <3>2, <3>3, <3>4, <3>5 DEF FrameData
  <2> QED BY <2>2, <2>3
<1>8. IndexData'
  <2>1. ASSUME NEW u \in Threads, frame[u][Main].pc = "write" PROVE frame'[u][Main] = frame[u][Main]
    BY <1>1, <1>3, <2>1, Constants
  <2>2. ASSUME NEW d \in Entries, d # e
        PROVE  /\ index'[d].type \in FormsOf(d)
               /\ index'[d].type # "None" => index'[d].val = latest'[d]
               /\ NeedsFile(index'[d]) =>
                    \/ file'[d] = FileOf(index'[d])
                    \/ \E u \in Threads : frame'[u][Main].pc = "write" /\ frame'[u][Main].id = d
    BY <1>1, <1>4, <2>1, <2>2 DEF DataInv, IndexData
  <2>3. /\ index'[e].type \in FormsOf(e)
        /\ index'[e].type # "None" => index'[e].val = latest'[e]
        /\ NeedsFile(index'[e]) => file'[e] = FileOf(index'[e])
    BY <1>1, <1>4, <1>5
  <2> HIDE DEF e
  <2>4. ASSUME NEW d \in Entries
        PROVE  /\ index'[d].type \in FormsOf(d)
               /\ index'[d].type # "None" => index'[d].val = latest'[d]
               /\ NeedsFile(index'[d]) =>
                    \/ file'[d] = FileOf(index'[d])
                    \/ \E u \in Threads : frame'[u][Main].pc = "write" /\ frame'[u][Main].id = d
    <3>1. CASE d = e
      BY <2>3, <3>1
    <3>2. CASE d # e
      BY <2>2, <3>2
    <3> QED BY <3>1, <3>2
  <2> QED BY <2>4 DEF IndexData, FormsOf, Format, NeedsFile, FileOf
<1>9. AnswerData'
  <2>1. \A d \in Entries : index[d].type # "None" => index'[d].type # "None"
    BY <1>4, <1>5
  <2> QED BY <1>1, <2>1, AnswersStay
<1>10. ClientsApart'
  BY <1>1, <1>2, <1>3, StillApart
<1> QED BY <1>6, <1>7, <1>8, <1>9, <1>10 DEF DataInv

\* A change of one entry's file by its owner disturbs nobody else.
LEMMA FileOthers ==
  ASSUME TypeOK, ExclusiveInv, DataInv, NEW t \in Threads, NEW k \in Slots,
         frame[t][k].pc \in {"truncate", "write"},
         \A d \in Entries : d # frame[t][k].id => file'[d] = file[d],
         index' = index, latest' = latest,
         NEW u \in Threads, NEW j \in Slots, ~(u = t /\ j = k), frame'[u][j] = frame[u][j]
  PROVE  FrameData(frame[u][j], j)'
<1> DEFINE f == frame[t][k]
           h == frame[u][j]
<1>1. h.id \in Entries /\ FrameData(h, j) /\ FrameData(f, k) /\ Owner(f)
  BY DEF TypeOK, Frame, DataInv, Owner
<1>2. CASE h.id # f.id
  <2>1. index'[h.id] = index[h.id] /\ file'[h.id] = file[h.id] /\ latest'[h.id] = latest[h.id]
    BY <1>1, <1>2
  <2> QED BY <1>1, <2>1, SameData
<1>3. CASE h.id = f.id
  <2>1. h.pc \in {"idle", "notify", "read", "flush", "noRoom"} /\ (h.pc = "read" => j = Main /\ k # Main)
    BY <1>1, <1>3, OthersOnEntry
  <2>2. h.pc # "read"
    <3>1. SUFFICES ASSUME h.pc = "read" PROVE FALSE
      OBVIOUS
    <3>2. NeedsFile(index[f.id]) /\ k # Main
      BY <1>1, <1>3, <2>1, <3>1 DEF FrameData, ReadsItsFile
    <3> QED BY <1>1, <3>2 DEF FrameData, JobLeavesFile
  <2>3. HoldsLatest(frame[u][j])'
    BY <1>1 DEF FrameData, HoldsLatest, FormsOf, Format
  <2>4. HoldsBytes(frame[u][j])' /\ ReadsItsFile(frame[u][j])'
    BY <1>1, <2>1, <2>2 DEF HoldsBytes, ReadsItsFile, FrameData
  <2>5. j # Main => JobLeavesFile(frame[u][j])'
    BY <1>1 DEF FrameData, JobLeavesFile, NeedsFile
  <2> QED BY <2>3, <2>4, <2>5 DEF FrameData
<1> QED BY <1>2, <1>3

\* File::create: the file is empty until the bytes are written, which no reader
\* of the entry sees.
LEMMA TruncateData ==
  ASSUME TypeOK, ExclusiveInv, DataInv, NEW t \in Threads, NEW k \in Slots, TruncateFile(t, k)
  PROVE  DataInv'
<1> DEFINE f == frame[t][k]
           e == f.id
           g == [f EXCEPT !.pc = "write"]
<1>1. /\ f \in Frame /\ e \in Entries /\ FrameData(f, k) /\ f.pc = "truncate"
      /\ Goto(t, k, g) /\ UNCHANGED <<index, answer, latest>>
      /\ file' = [file EXCEPT ![e] = Truncated]
  BY DEF TypeOK, DataInv, Frame, TruncateFile, At
<1>2. g.id = e /\ g.batch = f.batch /\ g.bytes = f.bytes /\ g.pc = "write"
  BY <1>1 DEF Frame
<1>3. /\ frame'[t][k] = g
      /\ \A u \in Threads, j \in Slots : ~(u = t /\ j = k) => frame'[u][j] = frame[u][j]
  BY <1>1, GotoFrame
<1>4. file'[e] = Truncated /\ \A d \in Entries : d # e => file'[d] = file[d]
  BY <1>1 DEF TypeOK
<1> HIDE DEF g
<1>5. FrameData(frame[t][k], k)'
  <2>1. HoldsLatest(frame[t][k])'
    BY <1>1, <1>2, <1>3 DEF FrameData, HoldsLatest, Inserting, FormsOf, Format
  <2>2. HoldsBytes(frame[t][k])' /\ ReadsItsFile(frame[t][k])'
    BY <1>1, <1>2, <1>3, <1>4 DEF FrameData, HoldsBytes, ReadsItsFile, FileOf
  <2>3. k # Main => JobLeavesFile(frame[t][k])'
    BY <1>1, <1>2, <1>3 DEF FrameData, JobLeavesFile, NeedsFile
  <2> QED BY <2>1, <2>2, <2>3 DEF FrameData
<1>6. ASSUME NEW u \in Threads, NEW j \in Slots, ~(u = t /\ j = k) PROVE FrameData(frame[u][j], j)'
  BY <1>1, <1>3, <1>4, <1>6, FileOthers
<1>7. IndexData'
  <2>1. ASSUME NEW u \in Threads, frame[u][Main].pc = "write" PROVE frame'[u][Main] = frame[u][Main]
    BY <1>1, <1>3, <2>1, Constants
  <2>2. k # Main => ~NeedsFile(index[e])
    BY <1>1 DEF FrameData, JobLeavesFile
  <2>3. k = Main => frame'[t][Main].pc = "write" /\ frame'[t][Main].id = e
    BY <1>2, <1>3
  <2>4. ASSUME NEW d \in Entries, NeedsFile(index'[d])
        PROVE  \/ file'[d] = FileOf(index'[d])
               \/ \E u \in Threads : frame'[u][Main].pc = "write" /\ frame'[u][Main].id = d
    <3>1. CASE d = e
      BY <1>1, <2>2, <2>3, <2>4, <3>1
    <3>2. CASE d # e
      BY <1>1, <1>4, <2>1, <2>4, <3>2 DEF DataInv, IndexData
    <3> QED BY <3>1, <3>2
  <2> QED BY <1>1, <2>4 DEF DataInv, IndexData, FormsOf, Format, NeedsFile, FileOf
<1>8. AnswerData'
  BY <1>1, AnswersStay
<1>9. ClientsApart'
  BY <1>1, <1>2, <1>3, StillApart
<1> QED BY <1>5, <1>6, <1>7, <1>8, <1>9 DEF DataInv

\* write_all: the file has the bytes of the batch, alone.
LEMMA WriteData ==
  ASSUME TypeOK, ExclusiveInv, DataInv, NEW t \in Threads, NEW k \in Slots, WriteFile(t, k)
  PROVE  DataInv'
<1> DEFINE f == frame[t][k]
           e == f.id
           g == [f EXCEPT !.pc = "get", !.bytes = NoBytes]
<1>1. /\ f \in Frame /\ e \in Entries /\ FrameData(f, k) /\ f.pc = "write"
      /\ Goto(t, k, g) /\ UNCHANGED <<index, answer, latest>>
  BY DEF TypeOK, DataInv, Frame, WriteFile, At
<1>2. g.id = e /\ g.batch = f.batch /\ g.pc = "get"
  BY <1>1 DEF Frame
<1>3. /\ frame'[t][k] = g
      /\ \A u \in Threads, j \in Slots : ~(u = t /\ j = k) => frame'[u][j] = frame[u][j]
  BY <1>1, GotoFrame
<1>4. /\ file[e] = Truncated /\ f.bytes = FileOf(f.batch) /\ NeedsFile(f.batch)
      /\ f.batch.type \in FormsOf(e) /\ f.batch.type # "None" /\ f.batch.val = latest[e]
  BY <1>1 DEF FrameData, HoldsBytes, HoldsLatest, Inserting
<1>5. file'[e] = FileOf(f.batch) /\ \A d \in Entries : d # e => file'[d] = file[d]
  <2>1. file' = [file EXCEPT ![e] = f.bytes]
    BY <1>4 DEF WriteFile
  <2> QED BY <1>1, <1>4, <2>1 DEF TypeOK
<1> HIDE DEF g
<1>6. FrameData(frame[t][k], k)'
  <2>1. HoldsLatest(frame[t][k])'
    BY <1>1, <1>2, <1>3, <1>4 DEF HoldsLatest, Inserting, FormsOf, Format
  <2>2. HoldsBytes(frame[t][k])' /\ ReadsItsFile(frame[t][k])'
    BY <1>1, <1>2, <1>3, <1>5 DEF HoldsBytes, ReadsItsFile, FileOf
  <2>3. k # Main => JobLeavesFile(frame[t][k])'
    BY <1>1, <1>2, <1>3 DEF FrameData, JobLeavesFile, NeedsFile
  <2> QED BY <2>1, <2>2, <2>3 DEF FrameData
<1>7. ASSUME NEW u \in Threads, NEW j \in Slots, ~(u = t /\ j = k) PROVE FrameData(frame[u][j], j)'
  BY <1>1, <1>3, <1>5, <1>7, FileOthers
<1>8. IndexData'
  <2>1. ASSUME NEW d \in Entries, NeedsFile(index'[d])
        PROVE  \/ file'[d] = FileOf(index'[d])
               \/ \E u \in Threads : frame'[u][Main].pc = "write" /\ frame'[u][Main].id = d
    <3>1. CASE d = e
      <4>1. index[e].type \in FormsOf(e) /\ NeedsFile(index[e]) /\ index[e].val = latest[e]
        BY <1>1, <2>1, <3>1 DEF DataInv, IndexData, NeedsFile, SqueezedTypes, DiskTypes
      <4>2. BackingFormat(f.batch) = BackingFormat(index[e])
        BY <1>4, <4>1 DEF FormsOf, NeedsFile, BackingFormat, SqueezedTypes, DiskTypes
      <4> QED BY <1>1, <1>4, <1>5, <3>1, <4>1, <4>2 DEF FileOf
    <3>2. CASE d # e
      <4>1. ASSUME NEW u \in Threads, frame[u][Main].pc = "write", frame[u][Main].id = d
            PROVE  frame'[u][Main] = frame[u][Main]
        BY <1>3, <3>2, <4>1, Constants
      <4> QED BY <1>1, <1>5, <2>1, <3>2, <4>1 DEF DataInv, IndexData
    <3> QED BY <3>1, <3>2
  <2> QED BY <1>1, <2>1 DEF DataInv, IndexData, FormsOf, Format, NeedsFile, FileOf
<1>9. AnswerData'
  BY <1>1, AnswersStay
<1>10. ClientsApart'
  BY <1>1, <1>2, <1>3, StillApart
<1> QED BY <1>6, <1>7, <1>8, <1>9, <1>10 DEF DataInv

-----------------------------------------------------------------------------
(* The other steps of an operation.                                        *)

\* The jobs for the victims start without a batch; what they will squeeze is in
\* the index.
LEMMA FindVictimData ==
  ASSUME TypeOK, ExclusiveInv, DataInv, NEW t \in Threads, FindVictim(t)
  PROVE  DataInv'
<1> DEFINE f == frame[t][Main]
           w == [f EXCEPT !.pc = "wait"]
           l(e) == [IdleFrame(e) EXCEPT !.pc = "load", !.op = "squeeze"]
<1>1. PICK V \in VictimSets :
        frame' = [frame EXCEPT ![t] = [k \in Slots |-> CASE k = Main -> w
                                                         [] k \in V  -> l(k)
                                                         [] OTHER    -> frame[t][k]]]
  BY DEF FindVictim
<1>2. V \subseteq tracked /\ V \subseteq Entries
  BY DEF VictimSets, TypeOK
<1>3. /\ f \in Frame /\ f.pc = "victims" /\ FrameData(f, Main)
      /\ UNCHANGED <<index, file, answer, latest>>
  <2>1. f.pc = "victims" /\ UNCHANGED <<index, file, answer, latest>>
    BY DEF FindVictim, At
  <2>2. f \in Frame /\ FrameData(f, Main)
    BY Constants DEF TypeOK, DataInv
  <2> QED BY <2>1, <2>2
<1>4. /\ frame'[t][Main] = w
      /\ \A e \in V : frame'[t][e] = l(e)
      /\ \A u \in Threads, j \in Slots :
           ~(u = t /\ j \in V \cup {Main}) => frame'[u][j] = frame[u][j]
  BY <1>1, <1>2, Constants DEF TypeOK
<1>5. w.pc = "wait" /\ w.id = f.id /\ w.batch = f.batch
  BY <1>3 DEF Frame
<1>6. ASSUME NEW e \in V PROVE l(e).pc = "load" /\ l(e).id = e /\ l(e).batch = NoEntry
  BY DEF IdleFrame
<1> HIDE DEF w, l
<1>7. FrameData(w, Main)
  BY <1>3, <1>5, MovedFrame
<1>8. ASSUME NEW e \in V PROVE FrameData(l(e), e)
  <2>1. index[e].type # "None"
    BY <1>2, <1>8 DEF ExclusiveInv, TrackedIsFree, MemoryTypes
  <2>2. NoEntry.type = "None"
    BY DEF NoEntry
  <2> QED BY <1>6, <1>8, <2>1, <2>2 DEF FrameData, HoldsLatest, HoldsBytes, ReadsItsFile, JobLeavesFile,
            Inserting, FormsOf
<1>9. ASSUME NEW u \in Threads, NEW j \in Slots PROVE FrameData(frame[u][j], j)'
  <2> DEFINE h == frame'[u][j]
  <2>1. FrameData(h, j)
    <3>1. CASE u = t /\ j = Main
      BY <1>4, <1>7, <3>1
    <3>2. CASE u = t /\ j \in V
      BY <1>4, <1>8, <3>2
    <3>3. CASE ~(u = t /\ j \in V \cup {Main})
      BY <1>4, <3>3 DEF DataInv
    <3> QED BY <3>1, <3>2, <3>3
  <2>2. index'[h.id] = index[h.id] /\ file'[h.id] = file[h.id] /\ latest'[h.id] = latest[h.id]
    BY <1>3
  <2> HIDE DEF h
  <2>3. \A x : x = h => FrameData(x, j)'
    BY <2>1, <2>2, SameData
  <2> QED BY <2>3 DEF h
<1>10. \A u \in Threads :
         \/ frame'[u][Main] = frame[u][Main]
         \/ /\ u = t /\ frame[u][Main].pc = "victims" /\ frame'[u][Main].pc = "wait"
            /\ frame'[u][Main].id = frame[u][Main].id
  BY <1>2, <1>3, <1>4, <1>5, Constants
<1>11. IndexData'
  <2>1. \A u \in Threads : frame[u][Main].pc = "write" => frame'[u][Main] = frame[u][Main]
    BY <1>10
  <2> QED BY <1>3, <2>1 DEF DataInv, IndexData, FormsOf, Format, NeedsFile, FileOf
<1>12. ClientsApart'
  BY <1>10 DEF DataInv, ClientsApart, Idle
<1>13. AnswerData'
  BY <1>3, AnswersStay
<1> QED BY <1>9, <1>11, <1>12, <1>13 DEF DataInv

\* A read that awaited finds the bytes of the latest value, in the format it
\* expects.
LEMMA ReadData ==
  ASSUME TypeOK, ExclusiveInv, DataInv, Exclusive, NEW t \in Threads, ReadFile(t)
  PROVE  DataInv'
<1> DEFINE f == frame[t][Main]
           c == file[f.id]
           h == Hydrate(f.id, f.batch, c.val, f.requests)
<1>1. /\ f \in Frame /\ f.id \in Entries /\ f.batch \in Entry /\ f.pc = "read" /\ FrameData(f, Main)
      /\ UNCHANGED <<index, file, latest>>
  BY Constants DEF ReadFile, At, TypeOK, DataInv, Frame
<1>2. /\ c = FileOf(f.batch) /\ NeedsFile(f.batch) /\ NeedsFile(index[f.id])
      /\ f.batch.type \in FormsOf(f.id) /\ f.batch.type # "None" /\ f.batch.val = latest[f.id]
  BY <1>1 DEF FrameData, ReadsItsFile, HoldsLatest, NeedsFile, SqueezedTypes, DiskTypes
<1>3. c.fmt = BackingFormat(f.batch) /\ c.val = latest[f.id]
  BY <1>2 DEF FileOf
<1>4. /\ Reply(t, f.id, f.requests, Plain("DiskArrow", c.val))
      /\ Goto(t, Main, IF f.op = "peek" \/ h = NoEntry THEN Finished(f)
                       ELSE [f EXCEPT !.pc = "get", !.batch = h])
  BY <1>3 DEF ReadFile
<1>5. AnswerData'
  <2>1. answer' = [answer EXCEPT ![t] = [id |-> f.id, val |-> latest[f.id], requests |-> f.requests,
                                         given |-> TRUE, paths |-> Paths]]
    BY <1>3, <1>4 DEF Reply, Plain
  <2>2. f.requests \subseteq Paths /\ index[f.id].type # "None"
    BY <1>1, <1>2 DEF Frame, NeedsFile, SqueezedTypes, DiskTypes
  <2>3. ASSUME NEW u \in Threads, answer'[u].given
        PROVE  /\ index'[answer'[u].id].type # "None"
               /\ answer'[u].val = latest'[answer'[u].id]
               /\ answer'[u].requests \subseteq answer'[u].paths
    <3>1. CASE u = t
      <4>1. answer'[u] = [id |-> f.id, val |-> latest[f.id], requests |-> f.requests,
                          given |-> TRUE, paths |-> Paths]
        BY <2>1, <3>1 DEF TypeOK
      <4> QED BY <1>1, <2>2, <4>1
    <3>2. CASE u # t
      <4>1. answer'[u] = answer[u]
        BY <2>1, <3>2 DEF TypeOK
      <4> QED BY <1>1, <2>3, <4>1 DEF DataInv, AnswerData
    <3> QED BY <3>1, <3>2
  <2> QED BY <2>3 DEF AnswerData
<1>6. \A u \in Threads \ {t} : ~Idle(u) => f.id # frame[u][Main].id
  BY <1>1 DEF DataInv, ClientsApart, Idle
<1>7. \E g : Goto(t, Main, g) /\ FrameData(g, Main) /\ g.id = f.id
  <2>1. CASE f.op = "peek" \/ h = NoEntry
    <3>1. Finished(f) = IdleFrame(f.id) /\ Goto(t, Main, Finished(f)) /\ IdleFrame(f.id).id = f.id
      BY <1>4, <2>1, Constants DEF ExclusiveInv, RefusedTakesMemory, Finished, IdleFrame
    <3> QED BY <1>1, <3>1, IdleData
  <2>2. CASE ~(f.op = "peek" \/ h = NoEntry)
    <3> DEFINE g == [f EXCEPT !.pc = "get", !.batch = h]
    <3>1. Goto(t, Main, g)
      BY <1>4, <2>2
    <3>2. g.id = f.id /\ g.batch = h /\ g.pc = "get"
      BY <1>1 DEF Frame
    <3>3. f.op = "read"
      BY <1>1, <2>2, Constants DEF ExclusiveInv, RefusedTakesMemory
    <3>4. f.batch.type \in DiskTypes /\ Kind[f.id] # "variant" /\ c.val \in Values
      BY <1>1, <3>3 DEF FrameData, ReadsItsFile, Exclusive, TypeOK, Content
    <3>5. h.type \in FormsOf(f.id) /\ h.type # "None" /\ ~NeedsFile(h) /\ h.val = c.val
      BY <1>1, <1>2, <2>2, <3>4, HydratedForm
    <3> HIDE DEF g, h
    <3>6. FrameData(g, Main)
      BY <1>3, <3>2, <3>5 DEF FrameData, HoldsLatest, HoldsBytes, ReadsItsFile, Inserting
    <3> QED BY <3>1, <3>2, <3>6
  <2> QED BY <2>1, <2>2
<1> QED BY <1>1, <1>5, <1>6, <1>7, QuietData, Constants

\* What an operation under way does.
LEMMA DataProgress ==
  ASSUME TypeOK, ExclusiveInv, DataInv, Exclusive, NEW t \in Threads, Progress(t)
  PROVE  DataInv'
<1> DEFINE f == frame[t][Main]
<1>1. /\ f \in Frame /\ f.id \in Entries /\ f.batch \in Entry /\ FrameData(f, Main)
      /\ f.op # "flush" /\ f.pc # "flush"
  BY Constants DEF TypeOK, Frame, DataInv, ExclusiveInv, RefusedTakesMemory
<1>2. ASSUME NEW k \in Slots, FrameStep(t, k) PROVE DataInv'
  BY <1>2, QuietFrameStep, PutData, TruncateData, WriteData DEF FrameStep
<1>3. f.pc # "idle" => \A u \in Threads \ {t} : ~Idle(u) => f.id # frame[u][Main].id
  BY DEF DataInv, ClientsApart, Idle
<1>4. \A e \in Entries : Kind[e] # "variant" /\ SqueezeHint[e] \in SUBSET Paths
  BY Constants DEF Exclusive
<1>5. ASSUME NEW e \in Entries, SqueezeVictim(t, e) PROVE DataInv'
  <2> DEFINE j == frame[t][e]
             r == Squeeze(e, index[e], SqueezeHint[e])
  <2>1. e \in Slots /\ e # Main /\ j \in Frame /\ j.id = e /\ index[e] \in Entry /\ FrameData(j, e)
    BY Constants DEF TypeOK, DataInv
  <2>2. j.pc = "load" /\ UNCHANGED <<index, file, answer, latest>>
    BY <1>5 DEF SqueezeVictim, At
  <2>3. index[e].type # "None"
    BY <2>1, <2>2 DEF FrameData, JobLeavesFile
  <2>4. Goto(t, e, WriteThenInsert(j, r))
    <3>1. index[e] # NoEntry
      BY <2>3 DEF NoEntry
    <3> QED BY <1>5, <3>1 DEF SqueezeVictim
  <2>5. /\ index[e].type \in FormsOf(e) /\ index[e].val = latest[e]
        /\ NeedsFile(index[e]) => file[e] = FileOf(index[e])
    <3>1. ASSUME NEW u \in Threads, frame[u][Main].pc = "write", frame[u][Main].id = e PROVE FALSE
      <4>1. Owner(frame[u][Main]) /\ Owner(j) /\ j.id = frame[u][Main].id
        BY <2>1, <2>2, <3>1 DEF Owner
      <4> QED BY <2>1, <4>1, Constants DEF ExclusiveInv, OneOwner
    <3> QED BY <2>3, <3>1 DEF DataInv, IndexData
  <2>6. FrameData(WriteThenInsert(j, r), e)
    BY <1>4, <2>1, <2>3, <2>5, SqueezedFrame
  <2>7. AnswerData'
    BY <2>2, AnswersStay
  <2> HIDE DEF r
  <2> QED BY <2>1, <2>2, <2>4, <2>6, <2>7, QuietData
<1>6. CASE WriteSelf(t)
  <2> DEFINE r == WriteInMemoryBatch(f.id, f.batch)
  <2>1. f.pc = "victims" /\ UNCHANGED <<index, file, answer, latest>>
    BY <1>6 DEF WriteSelf, At
  <2>2. f.batch.type \notin DiskTypes
    BY <2>1, Constants DEF ExclusiveInv, RefusedTakesMemory, MemoryTypes, DiskTypes
  <2>3. Goto(t, Main, WriteThenInsert(f, r))
    BY <1>6, <2>2 DEF WriteSelf
  <2>4. /\ f.batch.type \in FormsOf(f.id) /\ f.batch.type # "None" /\ f.batch.val = latest[f.id]
        /\ NeedsFile(f.batch) => file[f.id] = FileOf(f.batch)
    BY <1>1, <2>1 DEF FrameData, HoldsLatest, HoldsBytes, Inserting
  <2>5. FrameData(WriteThenInsert(f, r), Main)
    BY <1>1, <1>4, <2>4, SqueezedFrame, Constants
  <2>6. WriteThenInsert(f, r).id = f.id
    BY <1>1, WriteThenInsertOwns
  <2>7. AnswerData'
    BY <2>1, AnswersStay
  <2> HIDE DEF r
  <2> QED BY <1>3, <2>1, <2>3, <2>5, <2>6, <2>7, QuietData, Constants
<1>7. CASE VictimsSqueezed(t)
  <2> DEFINE g == [f EXCEPT !.pc = "get"]
  <2>1. g.pc = "get" /\ g.id = f.id /\ g.batch = f.batch
    BY <1>1 DEF Frame
  <2>2. f.pc = "wait" /\ Goto(t, Main, g) /\ UNCHANGED <<index, file, answer, latest>>
    BY <1>7 DEF VictimsSqueezed
  <2> HIDE DEF g
  <2>3. FrameData(g, Main)
    BY <1>1, <2>1, <2>2, MovedFrame
  <2>4. AnswerData'
    BY <2>2, AnswersStay
  <2> QED BY <1>3, <2>1, <2>2, <2>3, <2>4, QuietData, Constants
<1>8. CASE FindVictim(t)
  BY <1>8, FindVictimData
<1>9. CASE ReadFile(t)
  BY <1>9, ReadData
<1>10. ~FlushNext(t) /\ ~FlushEnd(t)
  BY <1>1 DEF FlushNext, FlushEnd, At
<1> QED
  BY <1>2, <1>5, <1>6, <1>7, <1>8, <1>9, <1>10 DEF Progress

-----------------------------------------------------------------------------
(* What the clients start.                                                 *)

\* A reply from memory is the entry in the index.
LEMMA MemoryAnswers ==
  ASSUME TypeOK, DataInv, NEW t \in Threads, NEW e \in Entries, NEW requests \in SUBSET Paths,
         index' = index, latest' = latest, index[e].type # "None", index[e].type # "SqueezedArrow",
         Reply(t, e, requests, index[e])
  PROVE  AnswerData'
<1>1. answer' = [answer EXCEPT ![t] = [id |-> e, val |-> index[e].val, requests |-> requests,
                                       given |-> TRUE, paths |-> Paths]]
  BY DEF Reply
<1>2. index[e].val = latest[e]
  BY DEF DataInv, IndexData
<1>3. ASSUME NEW u \in Threads, answer'[u].given
      PROVE  /\ index'[answer'[u].id].type # "None"
             /\ answer'[u].val = latest'[answer'[u].id]
             /\ answer'[u].requests \subseteq answer'[u].paths
  <2>1. CASE u = t
    <3>1. answer'[u] = [id |-> e, val |-> index[e].val, requests |-> requests,
                        given |-> TRUE, paths |-> Paths]
      BY <1>1, <2>1 DEF TypeOK
    <3> QED BY <1>2, <3>1
  <2>2. CASE u # t
    <3>1. answer'[u] = answer[u]
      BY <1>1, <2>2 DEF TypeOK
    <3> QED BY <1>3, <3>1 DEF DataInv, AnswerData
  <2> QED BY <2>1, <2>2
<1> QED BY <1>3 DEF AnswerData

\* A thread whose answer is withdrawn adds none.
LEMMA NoAnswers ==
  ASSUME TypeOK, DataInv, NEW t \in Threads, answer' = [answer EXCEPT ![t] = NoAnswer],
         index' = index,
         \A u \in Threads : answer[u].given => latest'[answer[u].id] = latest[answer[u].id]
  PROVE  AnswerData'
<1>1. ASSUME NEW u \in Threads, answer'[u].given
      PROVE  answer[u].given /\ answer'[u] = answer[u]
  <2>1. ~NoAnswer.given
    BY DEF NoAnswer
  <2> QED BY <1>1, <2>1 DEF TypeOK
<1> QED BY <1>1 DEF DataInv, AnswerData

\* A read goes to the file of an entry that nobody is writing.
LEMMA FromFileData ==
  ASSUME TypeOK, DataInv, NEW t \in Threads, NEW e \in Entries, NEW requests \in SUBSET Paths,
         NEW op \in {"read", "peek"}, FromFile(t, op, e, requests), Idle(t), Alone(t, e),
         UNCHANGED <<index, file, latest>>, NeedsFile(index[e]),
         op = "read" => index[e].type \in DiskTypes
  PROVE  DataInv'
<1> DEFINE g == [IdleFrame(e) EXCEPT !.pc = "read", !.op = op, !.batch = index[e],
                                     !.requests = requests]
<1>1. g.pc = "read" /\ g.op = op /\ g.id = e /\ g.batch = index[e]
  BY DEF IdleFrame
<1>2. Goto(t, Main, g) /\ answer' = [answer EXCEPT ![t] = NoAnswer] /\ frame[t][Main].pc = "idle"
  BY DEF FromFile, Idle
<1> HIDE DEF g
<1>3. AnswerData'
  BY <1>2, NoAnswers
<1>4. file[e] = FileOf(index[e])
  <2>1. ASSUME NEW u \in Threads, frame[u][Main].pc = "write", frame[u][Main].id = e PROVE FALSE
    BY <1>2, <2>1 DEF Alone, Idle
  <2> QED BY <2>1 DEF DataInv, IndexData
<1>5. FrameData(g, Main)
  <2>1. HoldsLatest(g)
    BY <1>1 DEF HoldsLatest, DataInv, IndexData, Inserting, NeedsFile, SqueezedTypes, DiskTypes
  <2>2. HoldsBytes(g) /\ ReadsItsFile(g)
    BY <1>1, <1>4 DEF HoldsBytes, ReadsItsFile
  <2> QED BY <2>1, <2>2 DEF FrameData
<1>6. \A u \in Threads \ {t} : ~Idle(u) => g.id # frame[u][Main].id
  BY <1>1 DEF Alone
<1> QED BY <1>2, <1>3, <1>5, <1>6, QuietData, Constants

\* An insertion of an entry that is not in the cache: nobody holds or has read
\* an earlier value.
LEMMA InsertData ==
  ASSUME TypeOK, ExclusiveInv, DataInv, Exclusive, NEW t \in Threads,
         NEW e \in Entries, NEW v \in Values, Insert(t, e, v)
  PROVE  DataInv'
<1> DEFINE g == [IdleFrame(e) EXCEPT !.pc = "get", !.op = "insert",
                                     !.batch = Plain("MemoryArrow", v)]
<1>1. /\ Idle(t) /\ Alone(t, e) /\ index[e] = NoEntry
      /\ Goto(t, Main, g) /\ latest' = [latest EXCEPT ![e] = v]
      /\ answer' = [answer EXCEPT ![t] = NoAnswer] /\ UNCHANGED <<index, file>>
  BY DEF Insert, Begin, Exclusive
<1>2. index[e].type = "None" /\ latest'[e] = v /\ \A d \in Entries : d # e => latest'[d] = latest[d]
  BY <1>1 DEF NoEntry, TypeOK
<1>3. /\ g.pc = "get" /\ g.id = e /\ g.batch.type = "MemoryArrow" /\ g.batch.val = v
  BY DEF IdleFrame, Plain
<1>4. /\ frame'[t][Main] = g
      /\ \A u \in Threads, j \in Slots : ~(u = t /\ j = Main) => frame'[u][j] = frame[u][j]
  BY <1>1, GotoFrame, Constants
<1> HIDE DEF g
<1>5. FrameData(frame[t][Main], Main)'
  BY <1>2, <1>3, <1>4 DEF FrameData, HoldsLatest, HoldsBytes, ReadsItsFile, Inserting, FormsOf,
    NeedsFile, SqueezedTypes, DiskTypes
<1>6. ASSUME NEW u \in Threads, NEW j \in Slots, ~(u = t /\ j = Main)
      PROVE  FrameData(frame[u][j], j)'
  <2> DEFINE h == frame[u][j]
  <2>1. h.id \in Entries /\ FrameData(h, j) /\ frame'[u][j] = h
    BY <1>4, <1>6 DEF TypeOK, Frame, DataInv
  <2>2. CASE h.id # e
    <3>1. index'[h.id] = index[h.id] /\ file'[h.id] = file[h.id] /\ latest'[h.id] = latest[h.id]
      BY <1>1, <1>2, <2>1, <2>2
    <3> QED BY <2>1, <3>1, SameData
  <2>3. CASE h.id = e
    <3>1. h.pc = "idle"
      <4>1. CASE j = Main
        BY <1>1, <1>6, <2>3, <4>1 DEF Alone, Idle
      <4>2. CASE j # Main
        BY <1>2, <2>1, <2>3, <4>2 DEF FrameData, JobLeavesFile
      <4> QED BY <4>1, <4>2
    <3>2. h.batch.type = "None"
      BY <2>1, <3>1 DEF FrameData, HoldsLatest
    <3> QED BY <2>1, <3>1, <3>2 DEF FrameData, HoldsLatest, HoldsBytes, ReadsItsFile, JobLeavesFile,
              Inserting, FormsOf
  <2> QED BY <2>2, <2>3
<1>7. IndexData'
  <2>1. \A u \in Threads : frame[u][Main].pc = "write" => frame'[u][Main] = frame[u][Main]
    BY <1>1, <1>4, Constants DEF Idle
  <2>2. ASSUME NEW d \in Entries, index'[d].type # "None" PROVE d # e /\ latest'[d] = latest[d]
    BY <1>1, <1>2, <2>2
  <2> QED BY <1>1, <2>1, <2>2 DEF DataInv, IndexData, FormsOf, Format, NeedsFile, FileOf,
            SqueezedTypes, DiskTypes
<1>8. AnswerData'
  <2>1. ASSUME NEW u \in Threads, answer[u].given
        PROVE  latest'[answer[u].id] = latest[answer[u].id]
    <3>1. answer[u].id \in Entries /\ index[answer[u].id].type # "None"
      BY <2>1 DEF TypeOK, Answer, DataInv, AnswerData
    <3> QED BY <1>2, <3>1
  <2> QED BY <1>1, <2>1, NoAnswers
<1>9. ClientsApart'
  <2>1. ASSUME NEW u \in Threads, NEW w \in Threads, u # w,
               frame'[u][Main].pc # "idle", frame'[w][Main].pc # "idle"
        PROVE  frame'[u][Main].id # frame'[w][Main].id
    <3>1. \A x \in Threads : x # t => frame'[x][Main] = frame[x][Main]
      BY <1>4, Constants
    <3>2. \A x \in Threads : x # t /\ frame[x][Main].pc # "idle" => frame[x][Main].id # e
      BY <1>1 DEF Alone, Idle
    <3> QED BY <1>3, <1>4, <2>1, <3>1, <3>2 DEF DataInv, ClientsApart, Idle
  <2> QED BY <2>1 DEF ClientsApart, Idle
<1> QED BY <1>5, <1>6, <1>7, <1>8, <1>9 DEF DataInv

\* The invariant speaks of the index, the files, the values, the answers and the
\* frames.
LEMMA SameAllData ==
  ASSUME TypeOK, DataInv, index' = index, file' = file, latest' = latest, frame' = frame, AnswerData'
  PROVE  DataInv'
<1>1. ASSUME NEW u \in Threads, NEW j \in Slots PROVE FrameData(frame[u][j], j)'
  <2>1. FrameData(frame[u][j], j)
    BY DEF DataInv
  <2> QED BY <2>1, SameData
<1>2. IndexData' /\ ClientsApart'
  BY DEF DataInv, IndexData, ClientsApart, Idle, FormsOf, Format, NeedsFile, FileOf
<1> QED BY <1>1, <1>2 DEF DataInv

\* What the clients start.
LEMMA DataClient ==
  ASSUME TypeOK, ExclusiveInv, DataInv, Exclusive, NEW t \in Threads, Client(t)
  PROVE  DataInv'
<1>1. ASSUME NEW op, NEW e, Begin(t, op, e)
      PROVE  op \in {"insert", "read"} /\ Idle(t) /\ Alone(t, e)
  BY <1>1 DEF Begin, Exclusive
<1>2. ASSUME NEW e \in Entries, NEW v \in Values, Insert(t, e, v) PROVE DataInv'
  BY <1>2, InsertData
<1>3. \A e \in Entries : index[e].type \in FormsOf(e)
  BY DEF DataInv, IndexData
<1>4. ASSUME NEW e \in Entries, NEW requests \in SUBSET Paths, ReadArrow(t, e, requests)
      PROVE  DataInv'
  <2>1. /\ Idle(t) /\ Alone(t, e) /\ UNCHANGED <<index, file, latest>> /\ index[e] # NoEntry
    BY <1>1, <1>4 DEF ReadArrow
  <2>2. requests = {} /\ index[e].type # "SqueezedArrow"
    BY <1>3, <1>4 DEF ReadArrow, Exclusive, FormsOf
  <2>3. \/ FromMemory(t, e, requests) /\ index[e].type # "None"
        \/ answer' = [answer EXCEPT ![t] = NoAnswer] /\ UNCHANGED frame
        \/ FromFile(t, "read", e, requests) /\ index[e].type \in DiskTypes
        \/ FromFile(t, "peek", e, requests) /\ index[e].type = "SqueezedLiquid"
    BY <1>4, <2>2 DEF ReadArrow
  <2>4. CASE FromMemory(t, e, requests) /\ index[e].type # "None"
    <3>1. AnswerData'
      BY <2>1, <2>2, <2>4, MemoryAnswers DEF FromMemory
    <3> QED BY <2>1, <2>4, <3>1, SameAllData DEF FromMemory
  <2>5. CASE answer' = [answer EXCEPT ![t] = NoAnswer] /\ UNCHANGED frame
    BY <2>1, <2>5, NoAnswers, SameAllData
  <2>6. CASE FromFile(t, "read", e, requests) /\ index[e].type \in DiskTypes
    <3>1. NeedsFile(index[e])
      BY <2>6 DEF NeedsFile
    <3> QED BY <2>1, <2>6, <3>1, FromFileData
  <2>7. CASE FromFile(t, "peek", e, requests) /\ index[e].type = "SqueezedLiquid"
    <3>1. NeedsFile(index[e])
      BY <2>7 DEF NeedsFile, SqueezedTypes
    <3> QED BY <2>1, <2>7, <3>1, FromFileData
  <2> QED BY <2>3, <2>4, <2>5, <2>6, <2>7
<1>5. ASSUME NEW e \in Entries, ReadLiquid(t, e) PROVE DataInv'
  <2>1. /\ Idle(t) /\ Alone(t, e) /\ UNCHANGED <<index, file, latest>> /\ {} \in SUBSET Paths
    BY <1>1, <1>5 DEF ReadLiquid
  <2>2. \/ index[e].type = "DiskLiquid"     /\ FromFile(t, "read", e, {})
        \/ index[e].type = "SqueezedLiquid" /\ FromFile(t, "peek", e, {})
        \/ index[e].type = "MemoryLiquid"   /\ FromMemory(t, e, {})
    BY <1>5 DEF ReadLiquid
  <2>3. CASE index[e].type = "DiskLiquid" /\ FromFile(t, "read", e, {})
    <3>1. NeedsFile(index[e]) /\ index[e].type \in DiskTypes
      BY <2>3 DEF NeedsFile, DiskTypes
    <3> QED BY <2>1, <2>3, <3>1, FromFileData
  <2>4. CASE index[e].type = "SqueezedLiquid" /\ FromFile(t, "peek", e, {})
    <3>1. NeedsFile(index[e])
      BY <2>4 DEF NeedsFile, SqueezedTypes
    <3> QED BY <2>1, <2>4, <3>1, FromFileData
  <2>5. CASE index[e].type = "MemoryLiquid" /\ FromMemory(t, e, {})
    <3>1. AnswerData'
      BY <2>1, <2>5, MemoryAnswers DEF FromMemory
    <3> QED BY <2>1, <2>5, <3>1, SameAllData DEF FromMemory
  <2> QED BY <2>2, <2>3, <2>4, <2>5
<1>6. ~FlushBegin(t) /\ ~Reset(t)
  BY <1>1 DEF FlushBegin, Reset
<1> QED BY <1>2, <1>4, <1>5, <1>6 DEF Client

\* The induction: files, batches and answers have the value last inserted.
THEOREM DataInvariant == Exclusive => (Spec => []DataInv)
<1> SUFFICES ASSUME Exclusive PROVE Spec => []DataInv
  OBVIOUS
<1>1. Init => DataInv
  <2> SUFFICES ASSUME Init PROVE DataInv
    OBVIOUS
  <2>1. ASSUME NEW t \in Threads, NEW k \in Slots PROVE FrameData(frame[t][k], k)
    <3>1. \E e \in Entries : frame[t][k] = IdleFrame(e)
      BY Constants DEF Init, Slots
    <3> QED BY <3>1, IdleData
  <2>2. IndexData
    BY DEF Init, IndexData, NoEntry, FormsOf, NeedsFile, SqueezedTypes, DiskTypes
  <2>3. AnswerData /\ ClientsApart
    BY Constants DEF Init, AnswerData, NoAnswer, ClientsApart, Idle, IdleFrame
  <2> QED BY <2>1, <2>2, <2>3 DEF DataInv
<1>2. TypeOK /\ ExclusiveInv /\ DataInv /\ [Next]_vars => DataInv'
  <2> SUFFICES ASSUME TypeOK, ExclusiveInv, DataInv, [Next]_vars PROVE DataInv'
    OBVIOUS
  <2>1. CASE UNCHANGED vars
    BY <2>1, AnswersStay, SameAllData DEF vars
  <2>2. CASE Done
    BY <2>1, <2>2 DEF Done
  <2>3. ASSUME NEW t \in Threads, Progress(t) \/ Client(t) PROVE DataInv'
    BY <2>3, DataProgress, DataClient
  <2> QED BY <2>1, <2>2, <2>3 DEF Next
<1> QED BY <1>1, <1>2, ExclusiveInvariant, PTL DEF Spec

\* Whatever squeeze jobs and hydrations of other threads do while a reader
\* awaits, the file of an entry is the one its reader expects, and none of the
\* expect calls of read_disk_arrow_array is reached.
THEOREM EntriesAreReadable == Exclusive => (Spec => []EntriesReadable)
<1>1. DataInv => EntriesReadable
  <2> SUFFICES ASSUME DataInv PROVE EntriesReadable
    OBVIOUS
  <2>1. FileBacksEntry
    <3>1. ASSUME NEW e \in Entries, index[e].type \in SqueezedTypes \cup DiskTypes
          PROVE  file[e] = [fmt |-> BackingFormat(index[e]), val |-> index[e].val] \/ Rewriting(e)
      BY <3>1, Constants DEF DataInv, IndexData, NeedsFile, FileOf, Rewriting
    <3> QED BY <3>1 DEF FileBacksEntry
  <2>2. ReadsDecode
    BY Constants DEF DataInv, FrameData, ReadsItsFile, ReadsDecode
  <2> QED BY <2>1, <2>2 DEF EntriesReadable
<1> QED BY <1>1, DataInvariant, PTL

\* A read returns the value last inserted, wherever squeezing and hydration have
\* moved the entry meanwhile.
THEOREM ReadsAreLatest == Exclusive => (Spec => []ReadsLatest)
<1>1. DataInv => ReadsLatest
  BY DEF DataInv, AnswerData, ReadsLatest
<1> QED BY <1>1, DataInvariant, PTL

-----------------------------------------------------------------------------
(* Entries stay in the index: any number of threads, any operations.       *)

\* What a frame is about to insert is an entry.
HoldsEntries ==
  /\ \A e \in Entries : index[e].type = "None" => index[e] = NoEntry
  /\ \A t \in Threads, k \in Slots :
       frame[t][k].pc \in Inserting => frame[t][k].batch.type # "None"

\* Squeezing, flushing and hydration never lose the entry.
LEMMA KeepsEntry ==
  ASSUME NEW e, NEW b, NEW hint, NEW v, NEW requests
  PROVE  /\ b.type # "None" => Squeeze(e, b, hint).batch.type # "None"
         /\ b.type # "None" => WriteInMemoryBatch(e, b).batch.type # "None"
         /\ b.type \in MemoryTypes => FlushEntry(b).batch.type # "None"
         /\ Hydrate(e, b, v, requests) # NoEntry => Hydrate(e, b, v, requests).type # "None"
<1>1. \A h : b.type # "None" => Squeeze(e, b, h).batch.type # "None"
  <2>1. \A h : SqueezeArrow(e, b, h).batch.type # "None"
    BY DEF SqueezeArrow, Plain, SqueezedVariant
  <2>2. SqueezeLiquid(e, b).batch.type # "None" /\ DiskEntryOf(b).type # "None"
    BY DEF SqueezeLiquid, DiskEntryOf, Plain
  <2> QED BY <2>1, <2>2 DEF Squeeze, SqueezedTypes
<1>2. b.type # "None" => WriteInMemoryBatch(e, b).batch.type # "None"
  BY <1>1 DEF WriteInMemoryBatch, Plain
<1>3. b.type \in MemoryTypes => FlushEntry(b).batch.type # "None"
  BY DEF FlushEntry, DiskEntryOf, Plain, MemoryTypes
<1>4. Hydrate(e, b, v, requests) # NoEntry => Hydrate(e, b, v, requests).type # "None"
  <2>1. HydrateDisk(e, b, v, requests).type # "None"
    BY DEF HydrateDisk, Plain, SqueezedVariant
  <2>2. HydrateVariantPaths(e, b, v, requests).type # "None"
    BY DEF HydrateVariantPaths, Plain, SqueezedVariant
  <2> QED BY <2>1, <2>2 DEF Hydrate
<1> QED BY <1>1, <1>2, <1>3, <1>4

\* A frame moves on with an entry.
LEMMA HoldsOn ==
  ASSUME TypeOK, HoldsEntries, NEW t \in Threads, NEW k \in Slots, NEW g, Goto(t, k, g),
         g.pc \in Inserting => g.batch.type # "None", index' = index
  PROVE  HoldsEntries'
<1>1. /\ frame'[t][k] = g
      /\ \A u \in Threads, j \in Slots : ~(u = t /\ j = k) => frame'[u][j] = frame[u][j]
  BY GotoFrame
<1> QED BY <1>1 DEF HoldsEntries

\* Every step keeps that, and only reset takes an entry out of the index.
LEMMA HoldsStep ==
  ASSUME TypeOK, HoldsEntries, [Next]_vars
  PROVE  /\ HoldsEntries'
         /\ \A e \in Entries :
              index[e] # NoEntry => index'[e] # NoEntry \/ \E t \in Threads : Reset(t)
<1> USE DEF Inserting
<1>1. CASE UNCHANGED vars \/ Done
  BY <1>1 DEF vars, Done, HoldsEntries
<1>2. ASSUME NEW t \in Threads, NEW k \in Slots, FrameStep(t, k)
      PROVE  HoldsEntries' /\ \A e \in Entries : index[e] # NoEntry => index'[e] # NoEntry
  <2> DEFINE f == frame[t][k]
  <2>1. f \in Frame /\ f.id \in Entries /\ (f.pc \in Inserting => f.batch.type # "None")
    BY DEF TypeOK, Frame, HoldsEntries
  <2>2. CASE TryInsertGet(t, k)
    <3> DEFINE g == [f EXCEPT !.old = index[f.id], !.pc = "budget"]
    <3>1. Goto(t, k, g) /\ index' = index /\ f.pc = "get" /\ g.batch = f.batch
      BY <2>1, <2>2 DEF TryInsertGet, At, Frame
    <3> HIDE DEF g
    <3> QED BY <2>1, <3>1, HoldsOn
  <2>3. CASE TryInsertBudget(t, k)
    <3> DEFINE g == [f EXCEPT !.pc = "put"]
    <3>1. Goto(t, k, g) /\ index' = index /\ f.pc = "budget" /\ g.batch = f.batch
      BY <2>1, <2>3 DEF TryInsertBudget, At, Frame
    <3> HIDE DEF g
    <3> QED BY <2>1, <3>1, HoldsOn
  <2>4. CASE TryInsertFails(t, k)
    <3> DEFINE r == Squeeze(f.id, f.batch, SqueezeHint[f.id])
               w == WriteThenInsert(f, r)
               g(pc) == [f EXCEPT !.pc = pc]
    <3>1. f.pc = "budget" /\ index' = index
      BY <2>4 DEF TryInsertFails, At
    <3>2. Goto(t, k, w) \/ \E pc \in {"noRoom", "victims"} : Goto(t, k, g(pc))
      BY <2>4 DEF TryInsertFails
    <3>3. w.batch.type # "None"
      <4>1. w.batch = r.batch
        BY <2>1 DEF WriteThenInsert, Frame
      <4> QED BY <2>1, <3>1, <4>1, KeepsEntry
    <3>4. \A pc : g(pc).batch = f.batch
      BY <2>1 DEF Frame
    <3> HIDE DEF w, g
    <3> QED BY <2>1, <3>1, <3>2, <3>3, <3>4, HoldsOn
  <2>5. CASE IndexInsert(t, k)
    <3> DEFINE g == [f EXCEPT !.pc = "notify"]
    <3>1. /\ Goto(t, k, g) /\ index' = [index EXCEPT ![f.id] = f.batch] /\ f.pc = "put"
          /\ g.batch = f.batch
      BY <2>1, <2>5 DEF IndexInsert, At, Frame
    <3> HIDE DEF g
    <3>2. f.batch.type # "None" /\ f.batch # NoEntry
      BY <2>1, <3>1 DEF NoEntry
    <3>3. \A e \in Entries : index'[e] = IF e = f.id THEN f.batch ELSE index[e]
      BY <2>1, <3>1 DEF TypeOK
    <3>4. /\ frame'[t][k] = g
          /\ \A u \in Threads, j \in Slots : ~(u = t /\ j = k) => frame'[u][j] = frame[u][j]
      BY <3>1, GotoFrame
    <3> QED BY <3>1, <3>2, <3>3, <3>4 DEF HoldsEntries
  <2>6. CASE NotifyInsert(t, k)
    <3>1. Goto(t, k, Finished(f)) /\ index' = index /\ Finished(f).pc \in {"idle", "flush"}
      BY <2>6 DEF NotifyInsert, Finished, IdleFrame
    <3> QED BY <3>1, HoldsOn
  <2>7. CASE TruncateFile(t, k)
    <3> DEFINE g == [f EXCEPT !.pc = "write"]
    <3>1. Goto(t, k, g) /\ index' = index /\ f.pc = "truncate" /\ g.batch = f.batch
      BY <2>1, <2>7 DEF TruncateFile, At, Frame
    <3> HIDE DEF g
    <3> QED BY <2>1, <3>1, HoldsOn
  <2>8. CASE WriteFile(t, k)
    <3> DEFINE g == [f EXCEPT !.pc = "get", !.bytes = NoBytes]
    <3>1. Goto(t, k, g) /\ index' = index /\ f.pc = "write" /\ g.batch = f.batch
      BY <2>1, <2>8 DEF WriteFile, At, Frame
    <3> HIDE DEF g
    <3> QED BY <2>1, <3>1, HoldsOn
  <2> QED BY <1>2, <2>2, <2>3, <2>4, <2>5, <2>6, <2>7, <2>8 DEF FrameStep
<1>3. ASSUME NEW t \in Threads, NEW e \in Entries, SqueezeVictim(t, e) PROVE HoldsEntries' /\ index' = index
  <2> DEFINE r == Squeeze(e, index[e], SqueezeHint[e])
             g == IF index[e] = NoEntry THEN IdleFrame(e) ELSE WriteThenInsert(frame[t][e], r)
  <2>1. Goto(t, e, g) /\ index' = index /\ e \in Slots /\ frame[t][e] \in Frame
    BY <1>3, Constants DEF SqueezeVictim, TypeOK
  <2>2. g.pc = "idle" \/ g.batch.type # "None"
    <3>1. CASE index[e] = NoEntry
      BY <3>1 DEF IdleFrame
    <3>2. CASE index[e] # NoEntry
      <4>1. index[e].type # "None"
        BY <3>2 DEF HoldsEntries
      <4>2. WriteThenInsert(frame[t][e], r).batch = r.batch
        BY <2>1 DEF WriteThenInsert, Frame
      <4> QED BY <3>2, <4>1, <4>2, KeepsEntry
    <3> QED BY <3>1, <3>2
  <2> HIDE DEF g
  <2> QED BY <2>1, <2>2, HoldsOn
<1>4. ASSUME NEW t \in Threads,
             FindVictim(t) \/ WriteSelf(t) \/ VictimsSqueezed(t) \/ ReadFile(t) \/ FlushNext(t) \/ FlushEnd(t)
      PROVE  HoldsEntries' /\ index' = index
  <2> DEFINE f == frame[t][Main]
  <2>1. f \in Frame /\ f.id \in Entries /\ (f.pc \in Inserting => f.batch.type # "None") /\ index' = index
    <3>1. f \in Frame /\ (f.pc \in Inserting => f.batch.type # "None")
      BY Constants, SMTT(40) DEF TypeOK, HoldsEntries
    <3>2. index' = index
      BY <1>4 DEF FindVictim, WriteSelf, VictimsSqueezed, ReadFile, FlushNext, FlushEnd
    <3> QED BY <3>1, <3>2 DEF Frame
  <2>2. CASE FindVictim(t)
    <3>1. PICK V \in VictimSets :
            frame' = [frame EXCEPT ![t] =
              [k \in Slots |-> CASE k = Main -> [f EXCEPT !.pc = "wait"]
                                 [] k \in V  -> [IdleFrame(k) EXCEPT !.pc = "load", !.op = "squeeze"]
                                 [] OTHER    -> frame[t][k]]]
      BY <2>2 DEF FindVictim
    <3>2. [f EXCEPT !.pc = "wait"].batch = f.batch /\ f.pc = "victims"
      BY <2>1, <2>2 DEF Frame, FindVictim, At
    <3>3. \A k : [IdleFrame(k) EXCEPT !.pc = "load", !.op = "squeeze"].pc = "load"
      BY DEF IdleFrame
    <3>4. Main \notin V
      BY Constants DEF VictimSets, TypeOK
    <3>5. ASSUME NEW u \in Threads, NEW k \in Slots, frame'[u][k].pc \in Inserting
          PROVE  frame'[u][k].batch.type # "None"
      <4>1. \/ frame'[u][k] = frame[u][k]
            \/ u = t /\ k = Main /\ frame'[u][k] = [f EXCEPT !.pc = "wait"]
            \/ frame'[u][k].pc = "load"
        BY <3>1, <3>3, <3>4 DEF TypeOK
      <4> QED BY <2>1, <3>2, <3>5, <4>1 DEF HoldsEntries
    <3> QED BY <2>1, <3>5 DEF HoldsEntries
  <2>3. CASE WriteSelf(t)
    <3> DEFINE w == WriteThenInsert(f, WriteInMemoryBatch(f.id, f.batch))
               g == [f EXCEPT !.pc = "noRoom"]
    <3>1. f.pc = "victims" /\ (Goto(t, Main, w) \/ Goto(t, Main, g))
      BY <2>3 DEF WriteSelf, At
    <3>2. w.batch = WriteInMemoryBatch(f.id, f.batch).batch /\ g.pc = "noRoom"
      BY <2>1 DEF WriteThenInsert, Frame
    <3>3. w.batch.type # "None"
      <4>1. f.batch.type # "None"
        BY <2>1, <3>1
      <4>2. WriteInMemoryBatch(f.id, f.batch).batch.type # "None"
        BY <4>1, KeepsEntry, Zenon
      <4> QED BY <3>2, <4>2
    <3> HIDE DEF w, g
    <3> QED BY <2>1, <3>1, <3>2, <3>3, HoldsOn, Constants
  <2>4. CASE VictimsSqueezed(t)
    <3> DEFINE g == [f EXCEPT !.pc = "get"]
    <3>1. Goto(t, Main, g) /\ f.pc = "wait" /\ g.batch = f.batch
      BY <2>1, <2>4 DEF VictimsSqueezed, Frame
    <3> HIDE DEF g
    <3> QED BY <2>1, <3>1, HoldsOn, Constants
  <2>5. CASE ReadFile(t)
    <3> DEFINE h == Hydrate(f.id, f.batch, file[f.id].val, f.requests)
               b == [f EXCEPT !.pc = "badFile"]
               g == [f EXCEPT !.pc = "get", !.batch = h]
    <3>1. Goto(t, Main, b) \/ Goto(t, Main, Finished(f)) \/ (h # NoEntry /\ Goto(t, Main, g))
      <4>1. CASE file[f.id].fmt # BackingFormat(f.batch)
        BY <2>5, <4>1 DEF ReadFile
      <4>2. CASE file[f.id].fmt = BackingFormat(f.batch) /\ (f.op = "peek" \/ h = NoEntry)
        BY <2>5, <4>2 DEF ReadFile
      <4>3. CASE file[f.id].fmt = BackingFormat(f.batch) /\ ~(f.op = "peek" \/ h = NoEntry)
        BY <2>5, <4>3 DEF ReadFile
      <4> QED BY <4>1, <4>2, <4>3
    <3>2. b.pc = "badFile" /\ Finished(f).pc \in {"idle", "flush"} /\ g.batch = h
      BY <2>1 DEF Frame, Finished, IdleFrame
    <3>3. h # NoEntry => h.type # "None"
      BY KeepsEntry
    <3> HIDE DEF b, g, h
    <3> QED BY <2>1, <3>1, <3>2, <3>3, HoldsOn, Constants
  <2>6. CASE FlushNext(t)
    <3>1. PICK e \in InMemory(snapshot[t]) :
            Goto(t, Main, WriteThenInsert([f EXCEPT !.id = e], FlushEntry(snapshot[t][e])))
      BY <2>6 DEF FlushNext
    <3> DEFINE w == WriteThenInsert([f EXCEPT !.id = e], FlushEntry(snapshot[t][e]))
    <3>2. w.batch = FlushEntry(snapshot[t][e]).batch
      BY <2>1 DEF WriteThenInsert, Frame
    <3>3. w.batch.type # "None"
      BY <3>1, <3>2, KeepsEntry DEF InMemory
    <3> HIDE DEF w
    <3>4. Goto(t, Main, w)
      BY <3>1 DEF w
    <3> QED BY <2>1, <3>3, <3>4, HoldsOn, Constants
  <2>7. CASE FlushEnd(t)
    <3>1. Goto(t, Main, IdleFrame(AnyEntry)) /\ IdleFrame(AnyEntry).pc = "idle"
      BY <2>7 DEF FlushEnd, IdleFrame
    <3> QED BY <2>1, <3>1, HoldsOn, Constants
  <2> QED BY <1>4, <2>1, <2>2, <2>3, <2>4, <2>5, <2>6, <2>7
<1>5. ASSUME NEW t \in Threads, Client(t), ~Reset(t) PROVE HoldsEntries' /\ index' = index
  <2>1. index' = index
    BY <1>5 DEF Client, Insert, ReadArrow, ReadLiquid, FlushBegin
  <2>2. \/ frame' = frame
        \/ \E g : Goto(t, Main, g) /\ (g.pc \in Inserting => g.batch.type # "None")
    <3>1. ASSUME NEW e \in Entries, NEW v \in Values, Insert(t, e, v)
          PROVE  \E g : Goto(t, Main, g) /\ (g.pc \in Inserting => g.batch.type # "None")
      <4> DEFINE g == [IdleFrame(e) EXCEPT !.pc = "get", !.op = "insert",
                                           !.batch = Plain("MemoryArrow", v)]
      <4>1. Goto(t, Main, g) /\ g.batch.type = "MemoryArrow"
        BY <3>1 DEF Insert, IdleFrame, Plain
      <4> HIDE DEF g
      <4> QED BY <4>1
    <3>2. ASSUME NEW op, NEW e, NEW requests, FromFile(t, op, e, requests)
          PROVE  \E g : Goto(t, Main, g) /\ (g.pc \in Inserting => g.batch.type # "None")
      <4> DEFINE g == [IdleFrame(e) EXCEPT !.pc = "read", !.op = op, !.batch = index[e],
                                           !.requests = requests]
      <4>1. Goto(t, Main, g) /\ g.pc = "read"
        BY <3>2 DEF FromFile, IdleFrame
      <4> HIDE DEF g
      <4> QED BY <4>1
    <3>3. ASSUME FlushBegin(t)
          PROVE  \E g : Goto(t, Main, g) /\ (g.pc \in Inserting => g.batch.type # "None")
      <4> DEFINE g == [IdleFrame(AnyEntry) EXCEPT !.pc = "flush", !.op = "flush"]
      <4>1. Goto(t, Main, g) /\ g.pc = "flush"
        BY <3>3 DEF FlushBegin, IdleFrame
      <4> HIDE DEF g
      <4> QED BY <4>1
    <3>4. ASSUME NEW e \in Entries, NEW requests \in SUBSET Paths, ReadArrow(t, e, requests)
          PROVE  frame' = frame \/ \E op : FromFile(t, op, e, requests)
      BY <3>4 DEF ReadArrow, FromMemory
    <3>5. ASSUME NEW e \in Entries, ReadLiquid(t, e)
          PROVE  frame' = frame \/ \E op : FromFile(t, op, e, {})
      BY <3>5 DEF ReadLiquid, FromMemory
    <3> QED BY <1>5, <3>1, <3>2, <3>3, <3>4, <3>5 DEF Client
  <2>3. CASE frame' = frame
    BY <2>1, <2>3 DEF HoldsEntries
  <2> QED BY <2>1, <2>2, <2>3, HoldsOn, Constants
<1>6. ASSUME NEW t \in Threads, Reset(t) PROVE HoldsEntries'
  BY <1>6 DEF Reset, HoldsEntries
<1> QED
  BY <1>1, <1>2, <1>3, <1>4, <1>5, <1>6 DEF Next, Progress

\* "Every previously inserted entry can be retrieved": no interleaving of inserts,
\* squeezes, hydrations and flushes takes an entry out of the index.
THEOREM InsertedEntriesStay == Spec => InsertedStays
<1>1. Init => HoldsEntries
  BY DEF Init, HoldsEntries, IdleFrame, Inserting
<1>2. TypeOK /\ HoldsEntries /\ [Next]_vars => HoldsEntries'
  BY HoldsStep
<1>3. TypeOK /\ HoldsEntries /\ [Next]_vars =>
        [\A e \in Entries :
           index[e] # NoEntry => index'[e] # NoEntry \/ \E t \in Threads : Reset(t)]_vars
  BY HoldsStep
<1> QED BY <1>1, <1>2, <1>3, TypeCorrect, PTL DEF Spec, InsertedStays

-----------------------------------------------------------------------------
(* One client thread, any operations: nothing in memory escapes the        *)
(* policy.  Between index.insert and notify_insert a thread does not       *)
(* await, so its other futures cannot come between.                        *)
OneThread == \A t, u \in Threads : t = u

\* The frame will put an entry into the index, or report it.
Busy(f) == f.pc \in Inserting \cup {"load", "noRoom"}

JobsWhileWaiting ==
  \A t \in Threads, e \in Entries : frame[t][e].pc # "idle" => frame[t][Main].pc = "wait"

ReportsWhatIsThere ==
  \A t \in Threads, k \in Slots :
    frame[t][k].pc = "notify" => index[frame[t][k].id] = frame[t][k].batch

TrackedOrBusy ==
  \A e \in Entries :
    index[e].type \in MemoryTypes =>
      e \in tracked \/ \E t \in Threads, k \in Slots : Busy(frame[t][k]) /\ frame[t][k].id = e

OneThreadInv == JobsWhileWaiting /\ ReportsWhatIsThere /\ TrackedOrBusy

\* A frame moves on and touches neither the index nor the policy.
LEMMA QuietThread ==
  ASSUME TypeOK, OneThreadInv, NEW t \in Threads, NEW k \in Slots, NEW g, Goto(t, k, g),
         index' = index, tracked' = tracked, g.pc # "notify",
         Busy(frame[t][k]) =>
           (Busy(g) /\ g.id = frame[t][k].id) \/ index[frame[t][k].id].type \notin MemoryTypes,
         k # Main /\ g.pc # "idle" => frame[t][Main].pc = "wait",
         k = Main /\ g.pc # "wait" => \A e \in Entries : frame[t][e].pc = "idle"
  PROVE  OneThreadInv'
<1>1. /\ frame'[t][k] = g
      /\ \A u \in Threads, j \in Slots : ~(u = t /\ j = k) => frame'[u][j] = frame[u][j]
  BY GotoFrame
<1>2. JobsWhileWaiting'
  <2>1. ASSUME NEW u \in Threads, NEW e \in Entries, frame'[u][e].pc # "idle"
        PROVE  frame'[u][Main].pc = "wait"
    <3>1. e \in Slots /\ e # Main /\ Main \in Slots
      BY Constants
    <3>2. CASE u # t
      BY <1>1, <2>1, <3>1, <3>2 DEF OneThreadInv, JobsWhileWaiting
    <3>3. CASE u = t /\ k # Main
      BY <1>1, <2>1, <3>1, <3>3 DEF OneThreadInv, JobsWhileWaiting
    <3>4. CASE u = t /\ k = Main
      BY <1>1, <2>1, <3>1, <3>4 DEF OneThreadInv, JobsWhileWaiting
    <3> QED BY <3>2, <3>3, <3>4
  <2> QED BY <2>1 DEF JobsWhileWaiting
<1>3. ReportsWhatIsThere'
  BY <1>1 DEF OneThreadInv, ReportsWhatIsThere
<1>4. TrackedOrBusy'
  <2>1. ASSUME NEW e \in Entries, index'[e].type \in MemoryTypes, e \notin tracked
        PROVE  \E u \in Threads, j \in Slots : Busy(frame'[u][j]) /\ frame'[u][j].id = e
    <3>1. PICK u \in Threads, j \in Slots : Busy(frame[u][j]) /\ frame[u][j].id = e
      BY <2>1 DEF OneThreadInv, TrackedOrBusy
    <3>2. Busy(frame'[u][j]) /\ frame'[u][j].id = e
      BY <1>1, <2>1, <3>1
    <3> QED BY <3>2
  <2> QED BY <2>1 DEF TrackedOrBusy, Busy
<1> QED BY <1>2, <1>3, <1>4 DEF OneThreadInv

\* While a thread runs its own operation it has no jobs.
LEMMA NoJobs ==
  ASSUME OneThreadInv, NEW t \in Threads, frame[t][Main].pc # "wait"
  PROVE  \A e \in Entries : frame[t][e].pc = "idle"
BY DEF OneThreadInv, JobsWhileWaiting

\* The steps of one frame.
LEMMA ThreadFrameStep ==
  ASSUME TypeOK, OneThreadInv, OneThread, NEW t \in Threads, NEW k \in Slots, FrameStep(t, k)
  PROVE  OneThreadInv'
<1> DEFINE f == frame[t][k]
<1>1. f \in Frame /\ f.id \in Entries
  BY DEF TypeOK, Frame
<1>2. f.pc \in {"get", "budget", "put", "notify", "truncate", "write"}
  BY DEF FrameStep, TryInsertGet, TryInsertBudget, TryInsertFails, IndexInsert, NotifyInsert,
    TruncateFile, WriteFile, At
<1>3. /\ k # Main => frame[t][Main].pc = "wait"
      /\ k = Main => \A e \in Entries : frame[t][e].pc = "idle"
  <2>1. k # Main => k \in Entries
    BY DEF Slots
  <2> QED BY <1>2, <2>1, NoJobs DEF OneThreadInv, JobsWhileWaiting
<1>4. CASE TryInsertGet(t, k) \/ TryInsertBudget(t, k) \/ TryInsertFails(t, k) \/ TruncateFile(t, k) \/ WriteFile(t, k)
  <2>1. index' = index /\ tracked' = tracked
    BY <1>4 DEF TryInsertGet, TryInsertBudget, TryInsertFails, TruncateFile, WriteFile
  <2>2. \E g : Goto(t, k, g) /\ Busy(g) /\ g.id = f.id /\ g.pc # "notify"
    <3>1. CASE TryInsertGet(t, k)
      <4> DEFINE g == [f EXCEPT !.old = index[f.id], !.pc = "budget"]
      <4>1. Goto(t, k, g) /\ g.pc = "budget" /\ g.id = f.id
        BY <1>1, <3>1 DEF TryInsertGet, Frame
      <4> HIDE DEF g
      <4> QED BY <4>1 DEF Busy, Inserting
    <3>2. CASE TryInsertBudget(t, k)
      <4> DEFINE g == [f EXCEPT !.pc = "put"]
      <4>1. Goto(t, k, g) /\ g.pc = "put" /\ g.id = f.id
        BY <1>1, <3>2 DEF TryInsertBudget, Frame
      <4> HIDE DEF g
      <4> QED BY <4>1 DEF Busy, Inserting
    <3>3. CASE TryInsertFails(t, k)
      <4> DEFINE w == WriteThenInsert(f, Squeeze(f.id, f.batch, SqueezeHint[f.id]))
                 g(pc) == [f EXCEPT !.pc = pc]
      <4>1. Goto(t, k, w) \/ \E pc \in {"noRoom", "victims"} : Goto(t, k, g(pc))
        BY <3>3 DEF TryInsertFails
      <4>2. /\ w.pc \in {"get", "truncate"} /\ w.id = f.id
            /\ \A pc : g(pc).pc = pc /\ g(pc).id = f.id
        BY <1>1, WriteThenInsertOwns DEF Frame
      <4> HIDE DEF w, g
      <4> QED BY <4>1, <4>2 DEF Busy, Inserting
    <3>4. CASE TruncateFile(t, k)
      <4> DEFINE g == [f EXCEPT !.pc = "write"]
      <4>1. Goto(t, k, g) /\ g.pc = "write" /\ g.id = f.id
        BY <1>1, <3>4 DEF TruncateFile, Frame
      <4> HIDE DEF g
      <4> QED BY <4>1 DEF Busy, Inserting
    <3>5. CASE WriteFile(t, k)
      <4> DEFINE g == [f EXCEPT !.pc = "get", !.bytes = NoBytes]
      <4>1. Goto(t, k, g) /\ g.pc = "get" /\ g.id = f.id
        BY <1>1, <3>5 DEF WriteFile, Frame
      <4> HIDE DEF g
      <4> QED BY <4>1 DEF Busy, Inserting
    <3> QED BY <1>4, <3>1, <3>2, <3>3, <3>4, <3>5
  <2> QED BY <1>3, <2>1, <2>2, QuietThread
<1>5. CASE IndexInsert(t, k)
  <2> DEFINE g == [f EXCEPT !.pc = "notify"]
  <2>1. /\ Goto(t, k, g) /\ index' = [index EXCEPT ![f.id] = f.batch] /\ tracked' = tracked
        /\ g.pc = "notify" /\ g.id = f.id /\ g.batch = f.batch /\ CanRun(t, k)
    BY <1>1, <1>5 DEF IndexInsert, At, Frame
  <2> HIDE DEF g
  <2>2. /\ frame'[t][k] = g
        /\ \A u \in Threads, j \in Slots : ~(u = t /\ j = k) => frame'[u][j] = frame[u][j]
    BY <2>1, GotoFrame
  <2>3. \A u \in Threads, j \in Slots : ~(u = t /\ j = k) => frame[u][j].pc # "notify"
    BY <2>1 DEF CanRun, Suspended, OneThread
  <2>4. index'[f.id] = f.batch /\ \A e \in Entries : e # f.id => index'[e] = index[e]
    BY <1>1, <2>1 DEF TypeOK
  <2>5. JobsWhileWaiting'
    <3>1. \A u \in Threads, j \in Slots : frame'[u][j].pc # "idle" => frame[u][j].pc # "idle"
      BY <1>2, <2>2
    <3>2. \A u \in Threads : frame[u][Main].pc = "wait" => frame'[u][Main].pc = "wait"
      BY <1>5, <2>2, Constants DEF IndexInsert, At
    <3> QED BY <3>1, <3>2, Constants DEF OneThreadInv, JobsWhileWaiting
  <2>6. ReportsWhatIsThere'
    BY <2>1, <2>2, <2>3, <2>4 DEF ReportsWhatIsThere
  <2>7. TrackedOrBusy'
    <3>1. Busy(g)
      BY <2>1 DEF Busy, Inserting
    <3>2. ASSUME NEW e \in Entries, index'[e].type \in MemoryTypes, e \notin tracked
          PROVE  \E u \in Threads, j \in Slots : Busy(frame'[u][j]) /\ frame'[u][j].id = e
      <4>1. CASE e = f.id
        BY <2>1, <2>2, <3>1, <4>1
      <4>2. CASE e # f.id
        <5>1. PICK u \in Threads, j \in Slots : Busy(frame[u][j]) /\ frame[u][j].id = e
          BY <2>4, <3>2, <4>2 DEF OneThreadInv, TrackedOrBusy
        <5>2. frame'[u][j] = frame[u][j]
          BY <2>2, <4>2, <5>1
        <5> QED BY <5>1, <5>2
      <4> QED BY <4>1, <4>2
    <3> QED BY <2>1, <3>2 DEF TrackedOrBusy, Busy
  <2> QED BY <2>5, <2>6, <2>7 DEF OneThreadInv
<1>6. CASE NotifyInsert(t, k)
  <2> DEFINE g == Finished(f)
  <2>1. /\ Goto(t, k, g) /\ index' = index /\ f.pc = "notify" /\ g.pc \in {"idle", "flush"}
        /\ f.batch.type \in MemoryTypes => f.id \in tracked'
        /\ \A e \in Entries : e # f.id => (e \in tracked <=> e \in tracked')
    BY <1>6 DEF NotifyInsert, At, Finished, IdleFrame
  <2>2. index[f.id] = f.batch
    BY <2>1 DEF OneThreadInv, ReportsWhatIsThere
  <2> HIDE DEF g
  <2>3. /\ frame'[t][k] = g
        /\ \A u \in Threads, j \in Slots : ~(u = t /\ j = k) => frame'[u][j] = frame[u][j]
    BY <2>1, GotoFrame
  <2>4. JobsWhileWaiting'
    <3>1. \A u \in Threads, j \in Slots : frame'[u][j].pc # "idle" => frame[u][j].pc # "idle"
      BY <1>2, <2>3
    <3>2. \A u \in Threads : frame[u][Main].pc = "wait" => frame'[u][Main].pc = "wait"
      BY <2>1, <2>3, Constants
    <3> QED BY <3>1, <3>2, Constants DEF OneThreadInv, JobsWhileWaiting
  <2>5. ReportsWhatIsThere'
    BY <2>1, <2>3 DEF OneThreadInv, ReportsWhatIsThere
  <2>6. TrackedOrBusy'
    <3>1. ASSUME NEW e \in Entries, index'[e].type \in MemoryTypes, e \notin tracked'
          PROVE  \E u \in Threads, j \in Slots : Busy(frame'[u][j]) /\ frame'[u][j].id = e
      <4>1. e # f.id
        BY <2>1, <2>2, <3>1
      <4>2. PICK u \in Threads, j \in Slots : Busy(frame[u][j]) /\ frame[u][j].id = e
        BY <2>1, <3>1, <4>1 DEF OneThreadInv, TrackedOrBusy
      <4>3. frame'[u][j] = frame[u][j]
        BY <2>3, <4>1, <4>2
      <4> QED BY <4>2, <4>3
    <3> QED BY <3>1 DEF TrackedOrBusy, Busy
  <2> QED BY <2>4, <2>5, <2>6 DEF OneThreadInv
<1> QED BY <1>4, <1>5, <1>6 DEF FrameStep

\* The other steps of the thread.
LEMMA ThreadProgress ==
  ASSUME TypeOK, OneThreadInv, OneThread, NEW t \in Threads, Progress(t)
  PROVE  OneThreadInv'
<1> DEFINE f == frame[t][Main]
<1>1. f \in Frame /\ f.id \in Entries
  <2>1. f \in Frame
    BY Constants DEF TypeOK
  <2> QED BY <2>1 DEF Frame
<1>2. ASSUME NEW k \in Slots, FrameStep(t, k) PROVE OneThreadInv'
  BY <1>2, ThreadFrameStep
<1>3. ASSUME NEW e \in Entries, SqueezeVictim(t, e) PROVE OneThreadInv'
  <2> DEFINE w == WriteThenInsert(frame[t][e], Squeeze(e, index[e], SqueezeHint[e]))
             g == IF index[e] = NoEntry THEN IdleFrame(e) ELSE w
  <2>1. /\ Goto(t, e, g) /\ index' = index /\ tracked' = tracked /\ e \in Slots /\ e # Main
        /\ frame[t][e] \in Frame /\ frame[t][e].id = e /\ frame[t][e].pc = "load"
    BY <1>3, Constants DEF SqueezeVictim, At, TypeOK
  <2>2. w.pc \in {"get", "truncate"} /\ w.id = e
    BY <2>1, WriteThenInsertOwns
  <2>3. IdleFrame(e).pc = "idle"
    BY DEF IdleFrame
  <2>4. frame[t][Main].pc = "wait"
    BY <2>1 DEF OneThreadInv, JobsWhileWaiting
  <2> HIDE DEF w
  <2>5. CASE index[e] = NoEntry
    <3>1. index[e].type \notin MemoryTypes /\ g.pc = "idle"
      BY <2>3, <2>5 DEF NoEntry, MemoryTypes
    <3> HIDE DEF g
    <3> QED BY <2>1, <3>1, QuietThread
  <2>6. CASE index[e] # NoEntry
    <3>1. g.pc \in {"get", "truncate"} /\ g.id = e
      BY <2>2, <2>6
    <3>2. Busy(g)
      BY <3>1 DEF Busy, Inserting
    <3> HIDE DEF g
    <3> QED BY <2>1, <2>4, <3>1, <3>2, QuietThread
  <2> QED BY <2>5, <2>6
<1>4. CASE FindVictim(t)
  <2> DEFINE w == [f EXCEPT !.pc = "wait"]
             l(e) == [IdleFrame(e) EXCEPT !.pc = "load", !.op = "squeeze"]
  <2>1. PICK V \in VictimSets :
          /\ tracked' = tracked \ V
          /\ frame' = [frame EXCEPT ![t] = [k \in Slots |-> CASE k = Main -> w
                                                           [] k \in V  -> l(k)
                                                           [] OTHER    -> frame[t][k]]]
    BY <1>4 DEF FindVictim
  <2>2. V \subseteq Entries /\ index' = index
    BY <1>4 DEF VictimSets, TypeOK, FindVictim
  <2>3. /\ frame'[t][Main] = w
        /\ \A e \in V : frame'[t][e] = l(e)
        /\ \A u \in Threads, j \in Slots :
             ~(u = t /\ j \in V \cup {Main}) => frame'[u][j] = frame[u][j]
    BY <2>1, <2>2, Constants DEF TypeOK
  <2>4. w.pc = "wait" /\ w.id = f.id /\ \A e \in V : l(e).pc = "load" /\ l(e).id = e
    BY <1>1 DEF Frame, IdleFrame
  <2> HIDE DEF w, l
  <2>5. Busy(w) /\ \A e \in V : Busy(l(e))
    BY <2>4 DEF Busy, Inserting
  <2>6. JobsWhileWaiting'
    BY <2>3, <2>4 DEF OneThread, JobsWhileWaiting
  <2>7. ReportsWhatIsThere'
    <3>1. ASSUME NEW u \in Threads, NEW j \in Slots, frame'[u][j].pc = "notify"
          PROVE  frame'[u][j] = frame[u][j]
      BY <2>3, <2>4, <3>1
    <3> QED BY <2>2, <3>1 DEF OneThreadInv, ReportsWhatIsThere
  <2>8. TrackedOrBusy'
    <3>1. ASSUME NEW e \in Entries, index'[e].type \in MemoryTypes, e \notin tracked'
          PROVE  \E u \in Threads, j \in Slots : Busy(frame'[u][j]) /\ frame'[u][j].id = e
      <4>1. CASE e \in V
        BY <2>2, <2>3, <2>4, <2>5, <4>1, Constants
      <4>2. CASE e \notin V
        <5>1. PICK u \in Threads, j \in Slots : Busy(frame[u][j]) /\ frame[u][j].id = e
          BY <2>1, <2>2, <3>1, <4>2 DEF OneThreadInv, TrackedOrBusy
        <5>2. CASE u = t /\ j = Main
          BY <2>3, <2>4, <2>5, <5>1, <5>2, Constants
        <5>3. CASE u = t /\ j \in V
          BY <2>2, <4>2, <5>1, <5>3 DEF TypeOK
        <5>4. CASE ~(u = t /\ j \in V \cup {Main})
          BY <2>3, <5>1, <5>4
        <5> QED BY <5>2, <5>3, <5>4
      <4> QED BY <4>1, <4>2
    <3> QED BY <3>1 DEF TrackedOrBusy, Busy
  <2> QED BY <2>6, <2>7, <2>8 DEF OneThreadInv
<1>5. CASE WriteSelf(t) \/ VictimsSqueezed(t) \/ ReadFile(t) \/ FlushNext(t) \/ FlushEnd(t)
  <2>1. index' = index /\ tracked' = tracked
    BY <1>5 DEF WriteSelf, VictimsSqueezed, ReadFile, FlushNext, FlushEnd
  <2>2. \A e \in Entries : frame[t][e].pc = "idle"
    <3>1. CASE VictimsSqueezed(t)
      BY <3>1 DEF VictimsSqueezed
    <3>2. CASE ~VictimsSqueezed(t)
      <4>1. f.pc # "wait"
        BY <1>5, <3>2 DEF WriteSelf, ReadFile, FlushNext, FlushEnd, At
      <4> QED BY <4>1, NoJobs
    <3> QED BY <3>1, <3>2
  <2>3. \E g : Goto(t, Main, g) /\ g.pc # "notify" /\ (Busy(f) => Busy(g) /\ g.id = f.id)
    <3>1. CASE WriteSelf(t)
      <4> DEFINE w == WriteThenInsert(f, WriteInMemoryBatch(f.id, f.batch))
                 g == [f EXCEPT !.pc = "noRoom"]
      <4>1. Goto(t, Main, w) \/ Goto(t, Main, g)
        BY <3>1 DEF WriteSelf
      <4>2. w.pc \in {"get", "truncate"} /\ w.id = f.id /\ g.pc = "noRoom" /\ g.id = f.id
        BY <1>1, WriteThenInsertOwns DEF Frame
      <4> HIDE DEF w, g
      <4> QED BY <4>1, <4>2 DEF Busy, Inserting
    <3>2. CASE VictimsSqueezed(t)
      <4> DEFINE g == [f EXCEPT !.pc = "get"]
      <4>1. Goto(t, Main, g) /\ g.pc = "get" /\ g.id = f.id
        BY <1>1, <3>2 DEF VictimsSqueezed, Frame
      <4> HIDE DEF g
      <4> QED BY <4>1 DEF Busy, Inserting
    <3>3. CASE ReadFile(t)
      <4> DEFINE h == Hydrate(f.id, f.batch, file[f.id].val, f.requests)
                 b == [f EXCEPT !.pc = "badFile"]
                 g == [f EXCEPT !.pc = "get", !.batch = h]
      <4>1. f.pc = "read" /\ ~Busy(f)
        BY <3>3 DEF ReadFile, At, Busy, Inserting
      <4>2. Goto(t, Main, b) \/ Goto(t, Main, Finished(f)) \/ Goto(t, Main, g)
        <5>1. CASE file[f.id].fmt # BackingFormat(f.batch)
          BY <3>3, <5>1 DEF ReadFile
        <5>2. CASE file[f.id].fmt = BackingFormat(f.batch)
          BY <3>3, <5>2 DEF ReadFile
        <5> QED BY <5>1, <5>2
      <4>3. b.pc = "badFile" /\ Finished(f).pc \in {"idle", "flush"} /\ g.pc = "get"
        BY <1>1 DEF Frame, Finished, IdleFrame
      <4> HIDE DEF b, g, h
      <4> QED BY <4>1, <4>2, <4>3
    <3>4. CASE FlushNext(t)
      <4>1. PICK e \in InMemory(snapshot[t]) :
              Goto(t, Main, WriteThenInsert([f EXCEPT !.id = e], FlushEntry(snapshot[t][e])))
        BY <3>4 DEF FlushNext
      <4> DEFINE w == WriteThenInsert([f EXCEPT !.id = e], FlushEntry(snapshot[t][e]))
      <4>2. w.pc \in {"get", "truncate"}
        BY <1>1 DEF WriteThenInsert, Frame
      <4>3. ~Busy(f)
        BY <3>4 DEF FlushNext, At, Busy, Inserting
      <4> HIDE DEF w
      <4>4. Goto(t, Main, w)
        BY <4>1 DEF w
      <4> QED BY <4>2, <4>3, <4>4
    <3>5. CASE FlushEnd(t)
      <4>1. Goto(t, Main, IdleFrame(AnyEntry)) /\ IdleFrame(AnyEntry).pc = "idle" /\ ~Busy(f)
        BY <3>5 DEF FlushEnd, IdleFrame, At, Busy, Inserting
      <4> QED BY <4>1
    <3> QED BY <1>5, <3>1, <3>2, <3>3, <3>4, <3>5
  <2> QED BY <2>1, <2>2, <2>3, QuietThread, Constants
<1> QED BY <1>2, <1>3, <1>4, <1>5 DEF Progress

\* What the client starts.
LEMMA ThreadClient ==
  ASSUME TypeOK, OneThreadInv, OneThread, NEW t \in Threads, Client(t)
  PROVE  OneThreadInv'
<1>1. Idle(t)
  BY DEF Client, Insert, ReadArrow, ReadLiquid, FlushBegin, Reset, Begin
<1>2. ~Busy(frame[t][Main]) /\ \A e \in Entries : frame[t][e].pc = "idle"
  BY <1>1, NoJobs DEF Idle, Busy, Inserting
<1>3. CASE Reset(t)
  <2>1. frame' = frame /\ tracked' = tracked /\ \A e \in Entries : index'[e].type = "None"
    BY <1>3 DEF Reset, NoEntry
  <2>2. \A u \in Threads, k \in Slots : frame[u][k].pc = "idle"
    BY <1>1, <1>2 DEF OneThread, Idle, Slots
  <2> QED BY <2>1, <2>2 DEF OneThreadInv, JobsWhileWaiting, ReportsWhatIsThere, TrackedOrBusy,
            MemoryTypes
<1>4. CASE ~Reset(t)
  <2>1. index' = index /\ tracked' = tracked
    BY <1>4 DEF Client, Insert, ReadArrow, ReadLiquid, FlushBegin
  <2>2. frame' = frame \/ \E g : Goto(t, Main, g) /\ g.pc # "notify"
    <3>1. ASSUME NEW e \in Entries, NEW v \in Values, Insert(t, e, v)
          PROVE  \E g : Goto(t, Main, g) /\ g.pc # "notify"
      <4> DEFINE g == [IdleFrame(e) EXCEPT !.pc = "get", !.op = "insert",
                                           !.batch = Plain("MemoryArrow", v)]
      <4>1. Goto(t, Main, g) /\ g.pc = "get"
        BY <3>1 DEF Insert, IdleFrame
      <4> HIDE DEF g
      <4> QED BY <4>1
    <3>2. ASSUME NEW op, NEW e, NEW requests, FromFile(t, op, e, requests)
          PROVE  \E g : Goto(t, Main, g) /\ g.pc # "notify"
      <4> DEFINE g == [IdleFrame(e) EXCEPT !.pc = "read", !.op = op, !.batch = index[e],
                                           !.requests = requests]
      <4>1. Goto(t, Main, g) /\ g.pc = "read"
        BY <3>2 DEF FromFile, IdleFrame
      <4> HIDE DEF g
      <4> QED BY <4>1
    <3>3. ASSUME FlushBegin(t) PROVE \E g : Goto(t, Main, g) /\ g.pc # "notify"
      <4> DEFINE g == [IdleFrame(AnyEntry) EXCEPT !.pc = "flush", !.op = "flush"]
      <4>1. Goto(t, Main, g) /\ g.pc = "flush"
        BY <3>3 DEF FlushBegin, IdleFrame
      <4> HIDE DEF g
      <4> QED BY <4>1
    <3>4. ASSUME NEW e \in Entries, NEW requests \in SUBSET Paths, ReadArrow(t, e, requests)
          PROVE  frame' = frame \/ \E op : FromFile(t, op, e, requests)
      BY <3>4 DEF ReadArrow, FromMemory
    <3>5. ASSUME NEW e \in Entries, ReadLiquid(t, e)
          PROVE  frame' = frame \/ \E op : FromFile(t, op, e, {})
      BY <3>5 DEF ReadLiquid, FromMemory
    <3> QED BY <1>4, <3>1, <3>2, <3>3, <3>4, <3>5 DEF Client
  <2>3. CASE frame' = frame
    BY <2>1, <2>3 DEF OneThreadInv, JobsWhileWaiting, ReportsWhatIsThere, TrackedOrBusy, Busy
  <2> QED BY <1>2, <2>1, <2>2, <2>3, QuietThread, Constants
<1> QED BY <1>3, <1>4

\* With one client thread, whatever it does and whichever policies it uses, an
\* entry that takes memory can be found by find_victim or is in the thread's hands.
THEOREM MemoryStaysEvictable == OneThread => (Spec => []MemoryIsEvictable)
<1> SUFFICES ASSUME OneThread PROVE Spec => []MemoryIsEvictable
  OBVIOUS
<1>1. Init => OneThreadInv
  BY Constants DEF Init, OneThreadInv, JobsWhileWaiting, ReportsWhatIsThere, TrackedOrBusy, IdleFrame,
    NoEntry, MemoryTypes
<1>2. TypeOK /\ OneThreadInv /\ [Next]_vars => OneThreadInv'
  <2> SUFFICES ASSUME TypeOK, OneThreadInv, [Next]_vars PROVE OneThreadInv'
    OBVIOUS
  <2>1. CASE UNCHANGED vars
    BY <2>1 DEF vars, OneThreadInv, JobsWhileWaiting, ReportsWhatIsThere, TrackedOrBusy, Busy
  <2>2. CASE Done
    BY <2>1, <2>2 DEF Done
  <2>3. ASSUME NEW t \in Threads, Progress(t) \/ Client(t) PROVE OneThreadInv'
    BY <2>3, ThreadProgress, ThreadClient
  <2> QED BY <2>1, <2>2, <2>3 DEF Next
<1>3. OneThreadInv => MemoryIsEvictable
  <2> SUFFICES ASSUME OneThreadInv, NEW e \in Entries, index[e].type \in MemoryTypes, e \notin tracked
               PROVE  ~Untouched(e)
    BY DEF MemoryIsEvictable
  <2>1. PICK t \in Threads, k \in Slots : Busy(frame[t][k]) /\ frame[t][k].id = e
    BY DEF OneThreadInv, TrackedOrBusy
  <2>2. WorksOn(t, k, e)
    BY <2>1 DEF WorksOn, Busy, Inserting
  <2> QED BY <2>2 DEF Untouched
<1> QED BY <1>1, <1>2, <1>3, TypeCorrect, PTL DEF Spec
=============================================================================
