----------------------- MODULE LiquidCacheProperties -----------------------
(***************************************************************************)
(* What the storage engine must guarantee, stated over LiquidCache.tla.    *)
(***************************************************************************)
EXTENDS LiquidCache

\* A frame works on e: it holds a batch of e that it will put in the index,
\* or is about to look e up in order to squeeze it.
WorksOn(t, k, e) == frame[t][k].pc # "idle" /\ frame[t][k].id = e
Untouched(e) == \A t \in Threads, k \in Slots : ~WorksOn(t, k, e)

\* What the budget should have been charged for e: the entry in the index ix,
\* or the one whose try_insert, in a frame of fr, has passed the budget but
\* not yet the index.
Paid(fr, e) == {p \in Threads \X Slots : fr[p[1]][p[2]].pc = "put" /\ fr[p[1]][p[2]].id = e}
ChargeOf(fr, ix, e) ==
  IF Paid(fr, e) = {} THEN Size(e, ix[e])
  ELSE LET p == CHOOSE p \in Paid(fr, e) : TRUE IN Size(e, fr[p[1]][p[2]].batch)
Charges == [e \in Entries |-> ChargeOf(frame, index, e)]

\* try_insert reads the old size, updates the budget and replaces the entry
\* in three separate accesses; used_memory_bytes must nevertheless always be
\* the total size of what the index holds (or is about to hold).
BudgetExact == used = Total(Charges)

\* try_reserve_memory: used_memory_bytes never exceeds max_memory_bytes (and
\* never wraps below zero).
WithinBudget == used <= MaxBytes

\* An entry that takes memory can be found by the policy, unless a thread has
\* it in hand: otherwise it would occupy its memory for ever.
MemoryIsEvictable ==
  \A e \in Entries :
    index[e].type \in MemoryTypes => e \in tracked \/ ~Untouched(e)

\* A frame of e has truncated the file, or is an insertion of a new value that
\* has written its bytes and not yet replaced the entry.
Rewriting(e) ==
  \E t \in Threads, k \in Slots :
    /\ frame[t][k].id = e
    /\ \/ frame[t][k].pc = "write"
       \/ frame[t][k].op = "insert" /\ frame[t][k].pc \in {"get", "budget", "put"}

\* Entries on disk, and squeezed entries, are backed by a file that holds
\* their value in the format the reader will decode, unless a thread is
\* rewriting it.
FileBacksEntry ==
  \A e \in Entries :
    index[e].type \in SqueezedTypes \cup DiskTypes =>
      \/ file[e] = [fmt |-> BackingFormat(index[e]), val |-> index[e].val]
      \/ Rewriting(e)

\* A read returns the value last inserted for the entry and at least the
\* variant paths it asked for, wherever squeezing has moved the entry.
ReadsLatest ==
  \A t \in Threads : answer[t].given =>
    /\ answer[t].val = latest[answer[t].id]
    /\ answer[t].requests \subseteq answer[t].paths

\* The file a read opens holds the format of the entry it found before it
\* awaited: none of the expect calls of read_disk_arrow_array (core.rs:703-707)
\* and of the panics of the Liquid header check is reached.
ReadsDecode == \A t \in Threads : frame[t][Main].pc # "badFile"

\* Wherever squeezing, hydration and flushes have moved an entry, and whoever
\* replaced it during a reader's await: its file is the one its reader
\* expects, and a read that has begun decodes what it opens.
EntriesReadable == FileBacksEntry /\ ReadsDecode

\* flush_all_to_disk can always insert its disk entries ("failed to insert
\* disk entry"), and insert_inner never has to find room for a disk batch
\* (unreachable! in write_in_memory_batch_to_disk).
DiskEntriesFit == \A t \in Threads : frame[t][Main].pc # "noRoom"

\* "Every previously inserted entry can be retrieved": once in the index, an
\* entry stays there until the cache is reset.
InsertedStays ==
  [][\A e \in Entries :
       index[e] # NoEntry => index'[e] # NoEntry \/ \E t \in Threads : Reset(t)]_vars

\* insert_inner runs the replacement policy "until the batch is inserted"
\* (core.rs:310): every operation that begins comes to an end.
OperationsEnd == \A t \in Threads : (~Idle(t)) ~> Idle(t)

-----------------------------------------------------------------------------
(***************************************************************************)
(* Why three separate accesses in try_insert are enough when clients share *)
(* no entry: every entry that is about to change has one owner, handed     *)
(* over through the policy (find_victim forgets what it returns, and       *)
(* notify_insert gives back only what is finished).                        *)
(***************************************************************************)
\* The setting: clients share no entry and insert it once (column.rs checks
\* is_cached first), the policy forgets disk entries (LiquidPolicy), nobody
\* flushes or resets meanwhile, no entry is a variant struct, whose squeezed
\* form a reader rewrites without having taken it from the policy, and the
\* sizes are far from the end of the word.
Exclusive ==
  /\ ExclusiveClients /\ ~TracksDisk
  /\ Ops \subseteq {"insert", "read"}
  /\ \A e \in Entries : Kind[e] # "variant"
  /\ \A e \in Entries, b \in Entry : MaxBytes + Size(e, b) < Word

\* The frame f will yet change the budget or the index for its entry, or tell
\* the policy about it.  A frame that only has to report a disk entry is no
\* owner: its late notify_insert may race with a reader's hydration.
Owner(f) ==
  \/ f.pc \in {"load", "get", "budget", "put", "victims", "wait", "truncate", "write"}
  \/ f.pc = "read" /\ f.op = "read"
  \/ f.pc = "notify" /\ f.batch.type \in MemoryTypes

OneOwner ==
  \A t, u \in Threads : \A j, k \in Slots :
    Owner(frame[t][j]) /\ Owner(frame[u][k]) /\ frame[t][j].id = frame[u][k].id
      => t = u /\ j = k

TrackedIsFree ==
  \A e \in tracked :
    /\ index[e].type \in MemoryTypes
    /\ \A t \in Threads, k \in Slots : Owner(frame[t][k]) => frame[t][k].id # e

\* What a squeeze job holds, and what is about to be reported, is in memory.
HeldInMemory ==
  \A t \in Threads, k \in Slots :
    Owner(frame[t][k]) /\ (k # Main \/ frame[t][k].pc = "notify")
      => index[frame[t][k].id].type \in MemoryTypes

\* The size read before the budget step is not stale at the budget step.
OldIsFresh ==
  \A t \in Threads, k \in Slots :
    frame[t][k].pc = "budget" => frame[t][k].old = index[frame[t][k].id]

\* Only a batch that takes memory is refused, reads are reads, and nobody
\* flushes.
RefusedTakesMemory ==
  \A t \in Threads, k \in Slots :
    /\ frame[t][k].pc = "read" => frame[t][k].op \in {"read", "peek"}
    /\ frame[t][k].op # "flush" /\ frame[t][k].pc \notin {"flush", "noRoom"}
    /\ frame[t][k].pc \in {"victims", "wait"} => frame[t][k].batch.type \in MemoryTypes

\* In the exclusive setting every entry about to change has one owner, whose
\* view of it is fresh: the invariant that makes the accounting exact although
\* try_insert reads, reserves and replaces in separate accesses.
ExclusiveInv ==
  /\ OneOwner /\ TrackedIsFree /\ HeldInMemory /\ OldIsFresh /\ RefusedTakesMemory
  /\ BudgetExact /\ WithinBudget

-----------------------------------------------------------------------------
(* What the owners, the readers and the index hold, and what is in the     *)
(* files.  No squeeze policy changes the format in which an entry goes to  *)
(* disk, so a reader that awaits is not disturbed by a squeeze job.        *)
Format(e) == IF SqueezePolicy = "Evict" \/ Kind[e] # "plain" THEN "Arrow" ELSE "Liquid"
FormsOf(e) ==
  {"None", "MemoryArrow"} \cup
    (IF Format(e) = "Arrow" THEN {"DiskArrow"} ELSE {"MemoryLiquid", "SqueezedLiquid", "DiskLiquid"})
NeedsFile(b) == b.type \in SqueezedTypes \cup DiskTypes
FileOf(b) == [fmt |-> BackingFormat(b), val |-> b.val]

Inserting == {"get", "budget", "put", "notify", "victims", "wait", "truncate", "write"}

\* A batch on its way into the index is the latest, in a form of its entry.
HoldsLatest(f) ==
  /\ f.batch.type \in FormsOf(f.id)
  /\ f.batch.type # "None" => f.batch.val = latest[f.id]
  /\ f.pc = "idle" => f.batch.type = "None"
  /\ f.pc \in Inserting => f.batch.type # "None"

\* Its bytes are in the file, or it has them with it.
HoldsBytes(f) ==
  /\ f.pc \in {"get", "budget", "put", "victims", "wait"} /\ NeedsFile(f.batch) => file[f.id] = FileOf(f.batch)
  /\ f.pc \in {"truncate", "write"} => NeedsFile(f.batch) /\ f.bytes = FileOf(f.batch)
  /\ f.pc = "write" => file[f.id] = Truncated

\* A reader that awaits will find the file it expects.
ReadsItsFile(f) ==
  /\ f.pc = "read" => NeedsFile(f.batch) /\ NeedsFile(index[f.id]) /\ file[f.id] = FileOf(f.batch)
  /\ f.pc = "read" /\ f.op = "read" => f.batch.type \in DiskTypes
  /\ f.pc # "badFile"

\* A squeeze job never writes the file of an entry that a reader may be reading.
JobLeavesFile(f) ==
  /\ f.pc # "read"
  /\ f.pc # "idle" => index[f.id].type # "None"
  /\ f.pc \in {"get", "budget", "put", "truncate", "write"} /\ NeedsFile(index[f.id]) =>
       f.pc \notin {"truncate", "write"} /\ f.batch.type \in DiskTypes

FrameData(f, k) ==
  HoldsLatest(f) /\ HoldsBytes(f) /\ ReadsItsFile(f) /\ (k # Main => JobLeavesFile(f))

IndexData ==
  \A e \in Entries :
    /\ index[e].type \in FormsOf(e)
    /\ index[e].type # "None" => index[e].val = latest[e]
    /\ NeedsFile(index[e]) =>
         \/ file[e] = FileOf(index[e])
         \/ \E t \in Threads : frame[t][Main].pc = "write" /\ frame[t][Main].id = e

AnswerData ==
  \A t \in Threads : answer[t].given =>
    /\ index[answer[t].id].type # "None"
    /\ answer[t].val = latest[answer[t].id]
    /\ answer[t].requests \subseteq answer[t].paths

ClientsApart ==
  \A t, u \in Threads :
    t # u /\ ~Idle(t) /\ ~Idle(u) => frame[t][Main].id # frame[u][Main].id

\* The files, batches and answers agree with the latest insertion.
DataInv ==
  /\ \A t \in Threads, k \in Slots : FrameData(frame[t][k], k)
  /\ IndexData /\ AnswerData /\ ClientsApart
=============================================================================
