---------------------------- MODULE LiquidCache ----------------------------
(***************************************************************************)
(* The storage engine of liquid-cache (storage/src/cache/core.rs): client  *)
(* threads insert, read, flush and reset entries of a shared index under   *)
(* one memory budget.                                                      *)
(*                                                                         *)
(* Each thread t runs one operation at a time in frame[t][Main]; while it  *)
(* waits for squeeze_victims it also runs one squeeze job per victim e in  *)
(* frame[t][e].  Each frame makes one shared access per step: index.get,   *)
(* the budget, index.insert, the policy's mutex, the file.  The jobs of a  *)
(* thread are futures polled by that thread, so they alternate only where  *)
(* the code awaits (CanRun).                                               *)
(*                                                                         *)
(* The cache policy appears through PolicyContract.tla: a set of tracked   *)
(* entries from which find_victim takes.  BudgetAccounting.tla justifies   *)
(* the atomic budget steps.                                                *)
(***************************************************************************)
EXTENDS CacheEntry, Footprint, Integers

CONSTANTS Threads,            \* client threads
          Main,               \* the slot of a thread's own operation
          MaxBytes,           \* max_memory_bytes
          Word,               \* usize counts modulo Word (2^64 in the code)
          VictimCount,        \* entries asked of find_victim (8 in the code)
          TracksDisk,         \* the policy keeps advising entries on disk
          Ops,                \* operations the clients use
          ExclusiveClients,   \* clients share no entry and insert it once
          MaxOps              \* bound: operations started in a behaviour

ASSUME CacheAssumption ==
  /\ Main \notin Entries
  /\ MaxBytes \in Nat /\ Word \in Nat /\ MaxBytes < Word
  /\ VictimCount \in Nat \ {0}
  /\ TracksDisk \in BOOLEAN /\ ExclusiveClients \in BOOLEAN
  /\ Ops \subseteq {"insert", "read", "flush", "reset"}
  /\ MaxOps \in Nat

VARIABLES index,      \* ArtIndex: [Entries -> Entry], NoEntry if absent
          used,       \* used_memory_bytes
          usedDisk,   \* used_disk_bytes
          file,       \* [Entries -> Content], the file of each entry
          tracked,    \* entries the cache policy may advise
          frame,      \* [Threads -> [Slots -> Frame]]
          snapshot,   \* [Threads -> [Entries -> Entry]], rest of a flush
          answer,     \* [Threads -> what the thread's last read returned]
          latest,     \* ghost: the value last inserted for each entry
          opsLeft     \* operations that may still start

vars == <<index, used, usedDisk, file, tracked, frame, snapshot, answer,
          latest, opsLeft>>

Slots == Entries \cup {Main}

PC == {"idle", "get", "budget", "put", "notify", "victims", "wait", "load",
       "truncate", "write", "read", "flush", "badFile", "noRoom"}

\* Where a thread stays when its read could not decode the file, or when the
\* code's expect or unreachable! on room for a disk entry failed.
Panics == {"badFile", "noRoom"}

Frame == [pc : PC, op : {"none", "insert", "read", "peek", "flush", "squeeze"},
          id : Entries, batch : Entry, old : Entry, bytes : Content,
          requests : SUBSET Paths]

Answer == [id : Entries, val : Values, paths : SUBSET Paths,
           requests : SUBSET Paths, given : BOOLEAN]

IdleFrame(e) == [pc |-> "idle", op |-> "none", id |-> e, batch |-> NoEntry,
                 old |-> NoEntry, bytes |-> NoBytes, requests |-> {}]

AnyEntry == CHOOSE e \in Entries : TRUE
NoAnswer == [id |-> AnyEntry, val |-> NoEntry.val, paths |-> {}, requests |-> {},
             given |-> FALSE]
NoSnapshot == [e \in Entries |-> NoEntry]

TypeOK ==
  /\ index \in [Entries -> Entry]
  /\ used \in 0..(Word - 1)
  /\ usedDisk \in Nat
  /\ file \in [Entries -> Content]
  /\ tracked \subseteq Entries
  /\ frame \in [Threads -> [Slots -> Frame]]
  /\ \A t \in Threads, e \in Entries : frame[t][e].id = e
  /\ snapshot \in [Threads -> [Entries -> Entry]]
  /\ answer \in [Threads -> Answer]
  /\ latest \in [Entries -> Values]
  /\ opsLeft \in 0..MaxOps

Init ==
  /\ index = [e \in Entries |-> NoEntry]
  /\ used = 0
  /\ usedDisk = 0
  /\ file = [e \in Entries |-> NoBytes]
  /\ tracked = {}
  /\ frame = [t \in Threads |->
                [k \in Slots |-> IdleFrame(IF k = Main THEN AnyEntry ELSE k)]]
  /\ snapshot = [t \in Threads |-> NoSnapshot]
  /\ answer = [t \in Threads |-> NoAnswer]
  /\ latest = [e \in Entries |-> NoEntry.val]
  /\ opsLeft = MaxOps

-----------------------------------------------------------------------------
(* Scheduling.  A frame may run unless another frame of its thread is      *)
(* between two await points.                                               *)
Suspended == {"idle", "wait", "load", "truncate", "write"}

CanRun(t, k) == \A j \in Slots \ {k} : frame[t][j].pc \in Suspended

At(t, k, pc) == frame[t][k].pc = pc /\ CanRun(t, k)

Goto(t, k, f) == frame' = [frame EXCEPT ![t][k] = f]

\* Where an operation continues once its entry is in the cache.
Finished(f) == IF f.op = "flush" THEN [IdleFrame(f.id) EXCEPT !.pc = "flush", !.op = "flush"]
               ELSE IdleFrame(f.id)

(* Plausible mistakes in core.rs; the runs must tell each from the code.   *)

\* a file that exists in the right format is not written again
WriteOnlyOnce(f, r) ==
  [f EXCEPT !.batch = r.batch, !.bytes = r.bytes,
            !.pc = IF r.bytes = NoBytes \/ file[f.id].fmt = r.bytes.fmt THEN "get" ELSE "truncate"]

\* the size of the entry that is replaced is not given back
ReservedForgetsOld(f) == (used + Size(f.id, f.batch)) % Word

\* it is given back twice
ReservedFreesTwice(f) == used + Size(f.id, f.batch) - 2 * Size(f.id, f.old)

\* the limit is tested before the size is added
FitsBefore(f) == f.old = NoEntry \/ Size(f.id, f.old) < Size(f.id, f.batch) => used <= MaxBytes

\* a full budget refuses an entry that shrinks
FitsWhenNotFull(f) == used < MaxBytes

\* insert_inner retries at once
RetryWithoutVictims(t, k) ==
  LET f == frame[t][k] IN
  /\ At(t, k, "budget")
  /\ used + Size(f.id, f.batch) > MaxBytes + Size(f.id, f.old)
  /\ Goto(t, k, [f EXCEPT !.pc = "get"])
  /\ UNCHANGED <<index, used, usedDisk, file, tracked, snapshot, answer, latest, opsLeft>>

\* an entry that leaves memory leaves the index
EvictDrops(t, k) ==
  LET f == frame[t][k] IN
  /\ At(t, k, "put")
  /\ index' = [index EXCEPT ![f.id] = IF f.batch.type \in DiskTypes THEN NoEntry ELSE f.batch]
  /\ Goto(t, k, [f EXCEPT !.pc = "notify"])
  /\ UNCHANGED <<used, usedDisk, file, tracked, snapshot, answer, latest, opsLeft>>

\* the policy hears only of new entries
NotifyNewOnly(t, k) ==
  LET f == frame[t][k] IN
  /\ At(t, k, "notify")
  /\ tracked' = IF f.old = NoEntry /\ f.batch.type \in MemoryTypes
                THEN tracked \cup {f.id} ELSE tracked
  /\ Goto(t, k, Finished(f))
  /\ UNCHANGED <<index, used, usedDisk, file, snapshot, answer, latest, opsLeft>>

\* find_victim advises entries without forgetting them
PeekVictim(t) ==
  LET f == frame[t][Main] IN
  /\ At(t, Main, "victims")
  /\ \E e \in tracked :
       frame' = [frame EXCEPT ![t] =
         [k \in Slots |-> CASE k = Main -> [f EXCEPT !.pc = "wait"]
                            [] k = e    -> [IdleFrame(k) EXCEPT !.pc = "load", !.op = "squeeze"]
                            [] OTHER    -> frame[t][k]]]
  /\ UNCHANGED <<index, used, usedDisk, file, tracked, snapshot, answer, latest, opsLeft>>

\* without victims the batch is tried again as it is
RetrySelf(t) ==
  /\ At(t, Main, "victims")
  /\ tracked = {}
  /\ Goto(t, Main, [frame[t][Main] EXCEPT !.pc = "get"])
  /\ UNCHANGED <<index, used, usedDisk, file, tracked, snapshot, answer, latest, opsLeft>>

-----------------------------------------------------------------------------
\* Continue with a batch that has to be on disk first if it carries bytes.
WriteThenInsert(f, r) ==
  [f EXCEPT !.batch = r.batch, !.bytes = r.bytes,
            !.pc = IF r.bytes = NoBytes THEN "get" ELSE "truncate"]

-----------------------------------------------------------------------------
(* try_insert: index.get, budget, index.insert, notify_insert.             *)

TryInsertGet(t, k) ==
  /\ At(t, k, "get")
  /\ Goto(t, k, [frame[t][k] EXCEPT !.old = index[frame[t][k].id], !.pc = "budget"])
  /\ UNCHANGED <<index, used, usedDisk, file, tracked, snapshot, answer, latest, opsLeft>>

\* BudgetAccounting: a growing entry reserves the difference, a shrinking one
\* gives it back with a wrapping fetch_sub; an absent entry reserves its size.
Grows(f) == f.old = NoEntry \/ Size(f.id, f.old) < Size(f.id, f.batch)
Reserved(f) == (used + Size(f.id, f.batch) - Size(f.id, f.old)) % Word
Fits(f) == Grows(f) => Reserved(f) <= MaxBytes

TryInsertBudget(t, k) ==
  LET f == frame[t][k] IN
  /\ At(t, k, "budget")
  /\ Fits(f)
  /\ used' = Reserved(f)
  /\ Goto(t, k, [f EXCEPT !.pc = "put"])
  /\ UNCHANGED <<index, usedDisk, file, tracked, snapshot, answer, latest, opsLeft>>

\* Err(to_insert): insert_inner asks for victims, a squeeze job squeezes its
\* result again, flush_all_to_disk expects that it never happens.
TryInsertFails(t, k) ==
  LET f == frame[t][k] IN
  /\ At(t, k, "budget")
  /\ ~Fits(f)
  /\ Goto(t, k, CASE f.op = "squeeze" -> WriteThenInsert(f, Squeeze(f.id, f.batch, SqueezeHint[f.id]))
                  [] f.op = "flush"   -> [f EXCEPT !.pc = "noRoom"]
                  [] OTHER            -> [f EXCEPT !.pc = "victims"])
  /\ UNCHANGED <<index, used, usedDisk, file, tracked, snapshot, answer, latest, opsLeft>>

IndexInsert(t, k) ==
  LET f == frame[t][k] IN
  /\ At(t, k, "put")
  /\ index' = [index EXCEPT ![f.id] = f.batch]
  /\ Goto(t, k, [f EXCEPT !.pc = "notify"])
  /\ UNCHANGED <<used, usedDisk, file, tracked, snapshot, answer, latest, opsLeft>>

\* CachePolicy::notify_insert: LiquidPolicy moves a disk entry to the queue it
\* never advises from; the other policies keep it among the advisable.
NotifyInsert(t, k) ==
  LET f == frame[t][k] IN
  /\ At(t, k, "notify")
  /\ tracked' = IF f.batch.type \in MemoryTypes \/ TracksDisk
                THEN tracked \cup {f.id} ELSE tracked \ {f.id}
  /\ Goto(t, k, Finished(f))
  /\ UNCHANGED <<index, used, usedDisk, file, snapshot, answer, latest, opsLeft>>

-----------------------------------------------------------------------------
(* insert_inner after a failed try_insert.                                 *)

\* CachePolicy::find_victim returns as many tracked entries as asked for and
\* forgets them.
VictimSets ==
  {V \in SUBSET tracked :
     Cardinality(V) = IF Cardinality(tracked) < VictimCount THEN Cardinality(tracked)
                      ELSE VictimCount}

FindVictim(t) ==
  LET f == frame[t][Main] IN
  /\ At(t, Main, "victims")
  /\ tracked # {}
  /\ \E V \in VictimSets :
       /\ tracked' = tracked \ V
       /\ frame' = [frame EXCEPT ![t] =
            [k \in Slots |-> CASE k = Main -> [f EXCEPT !.pc = "wait"]
                               [] k \in V  -> [IdleFrame(k) EXCEPT !.pc = "load", !.op = "squeeze"]
                               [] OTHER    -> frame[t][k]]]
  /\ UNCHANGED <<index, used, usedDisk, file, snapshot, answer, latest, opsLeft>>

\* No victim is left: write_in_memory_batch_to_disk, which a disk batch must
\* not reach.
WriteSelf(t) ==
  LET f == frame[t][Main] IN
  /\ At(t, Main, "victims")
  /\ tracked = {}
  /\ Goto(t, Main, IF f.batch.type \in DiskTypes THEN [f EXCEPT !.pc = "noRoom"]
                   ELSE WriteThenInsert(f, WriteInMemoryBatch(f.id, f.batch)))
  /\ UNCHANGED <<index, used, usedDisk, file, tracked, snapshot, answer, latest, opsLeft>>

\* squeeze_victims returns when every job has: try the batch again.
VictimsSqueezed(t) ==
  /\ frame[t][Main].pc = "wait"
  /\ \A e \in Entries : frame[t][e].pc = "idle"
  /\ Goto(t, Main, [frame[t][Main] EXCEPT !.pc = "get"])
  /\ UNCHANGED <<index, used, usedDisk, file, tracked, snapshot, answer, latest, opsLeft>>

\* squeeze_victim_inner: an entry no longer in the index is skipped.
SqueezeVictim(t, e) ==
  LET f == frame[t][e] IN
  /\ At(t, e, "load")
  /\ Goto(t, e, IF index[e] = NoEntry THEN IdleFrame(e)
                ELSE WriteThenInsert(f, Squeeze(e, index[e], SqueezeHint[e])))
  /\ UNCHANGED <<index, used, usedDisk, file, tracked, snapshot, answer, latest, opsLeft>>

-----------------------------------------------------------------------------
(* write_batch_to_disk: File::create truncates, write_all fills.  Bytes    *)
(* written over those of a concurrent writer may leave a mixture.          *)

TruncateFile(t, k) ==
  /\ At(t, k, "truncate")
  /\ file' = [file EXCEPT ![frame[t][k].id] = Truncated]
  /\ Goto(t, k, [frame[t][k] EXCEPT !.pc = "write"])
  /\ UNCHANGED <<index, used, usedDisk, tracked, snapshot, answer, latest, opsLeft>>

FileLength(e, c) == IF c.fmt = "Arrow" THEN ArrowSize[e] ELSE LiquidSize[e]

WriteFile(t, k) ==
  LET f == frame[t][k] IN
  /\ At(t, k, "write")
  /\ \E c \in {f.bytes} \cup (IF file[f.id] \in {Truncated, f.bytes} THEN {} ELSE {Mixed}) :
       file' = [file EXCEPT ![f.id] = c]
  /\ usedDisk' = usedDisk + FileLength(f.id, f.bytes)
  /\ Goto(t, k, [f EXCEPT !.pc = "get", !.bytes = NoBytes])
  /\ UNCHANGED <<index, used, tracked, snapshot, answer, latest, opsLeft>>

-----------------------------------------------------------------------------
(* Client operations.                                                      *)

Idle(t) == frame[t][Main].pc = "idle"

\* No other client works on e.
Alone(t, e) == \A u \in Threads \ {t} : ~Idle(u) => frame[u][Main].id # e

Begin(t, op, e) ==
  /\ op \in Ops
  /\ Idle(t)
  /\ opsLeft > 0
  /\ opsLeft' = opsLeft - 1
  /\ ExclusiveClients => Alone(t, e)

\* LiquidCache::insert(..).await: insert_inner of an Arrow batch.
Insert(t, e, v) ==
  /\ Begin(t, "insert", e)
  /\ ExclusiveClients => index[e] = NoEntry
  /\ Goto(t, Main, [IdleFrame(e) EXCEPT !.pc = "get", !.op = "insert",
                                        !.batch = Plain("MemoryArrow", v)])
  /\ latest' = [latest EXCEPT ![e] = v]
  /\ answer' = [answer EXCEPT ![t] = NoAnswer]
  /\ UNCHANGED <<index, used, usedDisk, file, tracked, snapshot>>

\* The read returns b, of which a squeezed variant holds only some paths.
Reply(t, e, requests, b) ==
  answer' = [answer EXCEPT ![t] =
    [id |-> e, val |-> b.val, requests |-> requests, given |-> TRUE,
     paths |-> IF b.type = "SqueezedArrow" THEN b.paths ELSE Paths]]

\* The read returns without touching the file.
FromMemory(t, e, requests) ==
  /\ Reply(t, e, requests, index[e])
  /\ UNCHANGED frame

\* The read goes to the file with the entry it found in the index.
FromFile(t, op, e, requests) ==
  /\ Goto(t, Main, [IdleFrame(e) EXCEPT !.pc = "read", !.op = op, !.batch = index[e],
                                        !.requests = requests])
  /\ answer' = [answer EXCEPT ![t] = NoAnswer]

\* read_arrow_array.  With requests the expression is a VariantGet; an empty
\* selection returns an empty array before the file is read.
ReadArrow(t, e, requests) ==
  LET b == index[e] IN
  /\ Begin(t, "read", e)
  /\ b # NoEntry
  /\ requests # {} => Kind[e] = "variant"
  /\ \/ /\ b.type \in {"MemoryArrow", "MemoryLiquid"}
        /\ FromMemory(t, e, requests)
     \/ /\ b.type \in DiskTypes
        /\ FromFile(t, "read", e, requests)
     \/ /\ b.type \in DiskTypes        \* empty selection
        /\ answer' = [answer EXCEPT ![t] = NoAnswer]
        /\ UNCHANGED frame
     \/ /\ b.type = "SqueezedArrow" /\ requests \subseteq b.paths
        /\ FromMemory(t, e, requests)
     \/ /\ b.type = "SqueezedArrow" /\ ~(requests \subseteq b.paths)
        /\ FromFile(t, "read", e, requests)
     \/ /\ b.type = "SqueezedLiquid"   \* Date32 component kept in memory, or not
        /\ FromMemory(t, e, requests) \/ FromFile(t, "peek", e, requests)
  /\ UNCHANGED <<index, used, usedDisk, file, tracked, snapshot, latest>>

\* try_read_liquid and eval_predicate_internal: no expression reaches the
\* hydration policy, and a squeezed entry is never hydrated.
ReadLiquid(t, e) ==
  LET b == index[e] IN
  /\ Begin(t, "read", e)
  /\ \/ b.type = "DiskLiquid"     /\ FromFile(t, "read", e, {})
     \/ b.type = "SqueezedLiquid" /\ FromFile(t, "peek", e, {})
     \/ b.type = "MemoryLiquid"   /\ FromMemory(t, e, {})
  /\ UNCHANGED <<index, used, usedDisk, file, tracked, snapshot, latest>>

\* The awaited read and decode.  Bytes of another format, or none, panic
\* ("create reader failed", "Invalid magic number").  Then maybe_hydrate.
ReadFile(t) ==
  LET f == frame[t][Main]
      c == file[f.id]
      h == Hydrate(f.id, f.batch, c.val, f.requests)
  IN
  /\ At(t, Main, "read")
  /\ IF c.fmt # BackingFormat(f.batch)
     THEN /\ Goto(t, Main, [f EXCEPT !.pc = "badFile"])
          /\ UNCHANGED answer
     ELSE /\ Reply(t, f.id, f.requests, Plain("DiskArrow", c.val))
          /\ Goto(t, Main, IF f.op = "peek" \/ h = NoEntry
                           THEN Finished(f)
                           ELSE [f EXCEPT !.pc = "get", !.batch = h])
  /\ UNCHANGED <<index, used, usedDisk, file, tracked, snapshot, latest, opsLeft>>

-----------------------------------------------------------------------------
(* flush_all_to_disk works through a snapshot of the index.                *)

FlushBegin(t) ==
  /\ Begin(t, "flush", AnyEntry)
  /\ snapshot' = [snapshot EXCEPT ![t] = index]
  /\ Goto(t, Main, [IdleFrame(AnyEntry) EXCEPT !.pc = "flush", !.op = "flush"])
  /\ answer' = [answer EXCEPT ![t] = NoAnswer]
  /\ UNCHANGED <<index, used, usedDisk, file, tracked, latest>>

InMemory(s) == {e \in Entries : s[e].type \in MemoryTypes}

\* An entry to flush keeps its format; a squeezed one is already on disk.
FlushEntry(b) ==
  CASE b.type = "MemoryArrow"  -> [batch |-> Plain("DiskArrow", b.val), bytes |-> ArrowBytes(b.val)]
    [] b.type = "MemoryLiquid" -> [batch |-> Plain("DiskLiquid", b.val), bytes |-> LiquidBytes(b.val)]
    [] OTHER                   -> [batch |-> DiskEntryOf(b), bytes |-> NoBytes]

FlushNext(t) ==
  /\ At(t, Main, "flush")
  /\ \E e \in InMemory(snapshot[t]) :
       /\ Goto(t, Main, WriteThenInsert([frame[t][Main] EXCEPT !.id = e], FlushEntry(snapshot[t][e])))
       /\ snapshot' = [snapshot EXCEPT ![t][e] = NoEntry]
  /\ UNCHANGED <<index, used, usedDisk, file, tracked, answer, latest, opsLeft>>

FlushEnd(t) ==
  /\ At(t, Main, "flush")
  /\ InMemory(snapshot[t]) = {}
  /\ snapshot' = [snapshot EXCEPT ![t] = NoSnapshot]
  /\ Goto(t, Main, IdleFrame(AnyEntry))
  /\ UNCHANGED <<index, used, usedDisk, file, tracked, answer, latest, opsLeft>>

\* reset: documented for use while no one else uses the cache.  The policy
\* and the files keep what they have.
Reset(t) ==
  /\ Begin(t, "reset", AnyEntry)
  /\ \A u \in Threads : Idle(u)
  /\ index' = [e \in Entries |-> NoEntry]
  /\ used' = 0
  /\ usedDisk' = 0
  /\ answer' = [answer EXCEPT ![t] = NoAnswer]
  /\ UNCHANGED <<file, tracked, frame, snapshot, latest>>

-----------------------------------------------------------------------------
FrameStep(t, k) ==
  \/ TryInsertGet(t, k) \/ TryInsertBudget(t, k) \/ TryInsertFails(t, k)
  \/ IndexInsert(t, k)  \/ NotifyInsert(t, k)
  \/ TruncateFile(t, k) \/ WriteFile(t, k)

\* The steps a thread owes once an operation has begun.
Progress(t) ==
  \/ \E k \in Slots : FrameStep(t, k)
  \/ \E e \in Entries : SqueezeVictim(t, e)
  \/ FindVictim(t) \/ WriteSelf(t) \/ VictimsSqueezed(t)
  \/ ReadFile(t) \/ FlushNext(t) \/ FlushEnd(t)

Client(t) ==
  \/ \E e \in Entries, v \in Values : Insert(t, e, v)
  \/ \E e \in Entries, requests \in SUBSET Paths : ReadArrow(t, e, requests)
  \/ \E e \in Entries : ReadLiquid(t, e)
  \/ FlushBegin(t) \/ Reset(t)

\* Every client is done (or its thread has panicked).
Done ==
  /\ opsLeft = 0
  /\ \A t \in Threads : frame[t][Main].pc \in {"idle"} \cup Panics
  /\ UNCHANGED vars

Next == Done \/ \E t \in Threads : Progress(t) \/ Client(t)

Spec == Init /\ [][Next]_vars

FairSpec == Spec /\ \A t \in Threads : WF_vars(Progress(t))
=============================================================================
