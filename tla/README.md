# Liquid Cache in TLA+

Liquid Cache is a cache for columnar data between object storage and DataFusion.
Its storage engine keeps each cached batch in one of five forms (Arrow in memory,
"Liquid" encoding in memory, a squeezed form in memory that is backed by a file,
Arrow on disk, Liquid on disk), moves batches towards the disk when a memory budget
is exhausted, and back into memory when they are read. Around it stand a Parquet
reader that fills and consults the cache, io_uring runtimes for its files, and a
client/server pair that pushes plans to the cache.

This directory models the storage engine with its budget, its replacement policies and the
encodings of its entries, the io_uring runtimes and their tasks, the Parquet scan through
the cache with its planning, and the remote service with its byte cache. It checks them
with TLC, and proves with TLAPS, for any number of threads, entries, tokens, nodes,
partitions and readers, what the storage engine, its budget, its queue policies and their
list, the I/O runtimes and tasks, the planning and the byte cache guarantee.

Paths below are relative to the repository root.

## Inventory

| Component | State | Operations | What is hard | What makes it correct |
|---|---|---|---|---|
| Storage engine `src/storage/src/cache/core.rs`, `index.rs`, `builders.rs` | index from entry id to entry (an ART, one atomic get or insert at a time), budget, policy, files | `insert`, `get`, `eval_predicate`, `try_read_liquid`, `flush_all_to_disk`, `reset` | no lock spans two accesses: `try_insert` reads the old entry, updates the budget, replaces the entry and tells the policy in four steps; squeezing and reading await file I/O in between | the budget equals what the index holds; every entry in memory can be evicted; every entry on disk has the file its reader expects; reads return what was inserted; every operation ends |
| Entries and files `cached_batch.rs`, `io_context.rs`, `utils.rs` | type, data or data type, backing | sizes, disk path, read, write | one file per entry whatever its format | the file's format matches the entry |
| Squeeze and hydration policies `policies/squeeze.rs`, `policies/hydration.rs` | none | `squeeze`, `hydrate` | variant structs are kept path by path | no path is lost |
| Memory budget `budget.rs` | two atomics | reserve, update, reset | compare-and-exchange loop, wrapping subtraction | linearizable, never above the limit |
| Cache policies `policies/cache/*.rs` | lists of raw pointers, hash map, hand, frequencies | `notify_insert`, `notify_access`, `find_victim` | raw pointers, hands into the list, several structures that must agree | distinct victims, in the advertised order, forgotten when advised |
| Expressions and hints `expressions.rs`, `src/parquet/src/io/mod.rs` | the last expressions of each column | record, majority | the history forgets | the hint follows the workload |
| Parquet cache `src/parquet/src/cache/*` | file registry, packed entry ids | register, insert, evaluate predicates | check-then-act on `is_cached` | ids are injective |
| io_uring runtimes `src/parquet/src/io/io_uring/*` | rings, free tokens, completions, leases | submit, poll, drain, abandon | a future dropped before its completion; more tasks than tokens; drains by any thread | a task gets its own completion, and gets it in the end |
| I/O tasks `src/parquet/src/io/io_uring/tasks.rs`, `io_backend.rs` | a buffer, the outcome | open, read, write | padding for direct I/O at both ends, short transfers | a read gives the bytes that were written |
| Stream and reader `src/parquet/src/reader/runtime/*` | poll state machines, row selections | plan, fill, read | cache contents change between planning and reading | rows come out once, in order |
| Encodings `src/storage/src/liquid_array/*`, `transcode.rs` | encoded arrays | encode, decode, filter, squeeze, predicates | wrapped offsets, widths, sentinels, buckets, patches, dictionaries, prefixes, fingerprints | decode inverts encode, on every way through memory and disk; a squeezed answer is the full answer |
| Variant columns `src/parquet/src/cache/column.rs`, `variant_array.rs`, `variant_schema.rs` | the shredded batch, the kept paths | shred, squeeze to paths, read by path, hydrate | paths below one another, types, paths of earlier queries | a path has the value it has in the documents |
| Byte cache `src/storage/src/utils/byte_cache.rs` | chunk files of an object | get, fetch, write and rename | ranges across chunks, several writers, crashes | bytes are those of the object |
| Planning `src/parquet/src/reader/plantime`, `optimizers` | usages of columns, metadata cache, row filter | analyze, annotate, open, prune | names that are qualified, aliased and merged; partitions that open a file together | a column is only kept as what every use of it needs; partitions share the rows of a file |
| Server, client, local `src/server`, `src/client`, `src/local` | registered plans and stores, streams | register, execute, fetch, reset | partitions race to register; failed calls, dropped streams, restarts | every partition gets its rows, once and in order |
| Observer, admin server | counters, traces | report | | |

`PROJECT.json` lists every component with its status, the hazards at their lines and
the property that watches each.

## Modules

| Module | Models |
|---|---|
| `CacheEntry` | the entry forms, their sizes, the bytes of a file, and squeezing and hydration as pure operators |
| `LiquidCache` | the storage engine: threads, index, budget, files, tracked entries |
| `LiquidCacheProperties` | what it must guarantee; the ownership and data invariants of clients that share no entry |
| `MCLiquidCache` | sizes and kinds of entries for TLC |
| `BudgetAccounting`, `AtomicBudget` | the lock-free budget, and the budget that decides at one instant |
| `PolicyContract` | what the storage engine assumes of a policy |
| `QueuePolicies`, `HandPolicies`, `S3Fifo` | LRU, FIFO, FILO and LiquidPolicy; Clock and Sieve; S3-FIFO |
| `DoublyLinkedList`, `NodeList` | the intrusive list pointer by pointer, and the sequence it stands for |
| `PolicyConstants`, `MCCachePolicies` | their common constants; all policies side by side for TLC |
| `SharedRing`, `UringWorker`, `LeasedRings` | the io_uring runtimes: one ring for all threads, a worker that owns the ring, a ring per task (async and blocking) |
| `IoTasks` | one read or write in each of the back ends |
| `IoConstants`, `MCIoRuntimes` | their common constants; the runtimes and the tasks side by side for TLC |
| `RowSelections` | the algorithms on row selections, as operators |
| `LiquidStream` | the file registry and entry ids; scans: planning, filling, reading |
| `MCLiquidStream` | files and queries for TLC |
| `PrimitiveArrays` | arrays of numbers with null slots, bit packing; integers: offsets, deltas, linear residuals; their squeezed forms, date components and predicates |
| `FloatArrays` | floats as decimal integers with patches |
| `ByteArrays` | compressed dictionaries; strings and decimals; strings with prefix keys and fingerprints |
| `EncodingLife`, `MCEncodings` | the life of a batch through its encodings; arrays for TLC |
| `Lineage`, `SqueezeHints` | how queries annotate columns; how annotations become squeeze hints |
| `FileOpener` | partitions that open a file: metadata, pruning, row filter |
| `VariantColumns` | a batch of a variant column, shredded, squeezed and hydrated |
| `MCPlans` | plans, hints, files and documents for TLC |
| `RemoteQuery`, `ByteCache`, `MCService` | the client's partitions and the server; chunk files; both for TLC |
| `Footprint`, `NumberTheorems` | the total of a function into Nat and how it changes; sizes of intervals, least and greatest numbers, induction over Nat and what it says of recursive functions, of loops and of `FlattenSeq` |
| `LiquidCacheProofs`, `BudgetProofs` | theorems about the storage engine: types, ownership and budget, files, answers and eviction; the lock-free budget |
| `PolicyProofs` | theorems about the list and the cache policies |
| `IoProofs`, `PlanProofs`, `ServiceProofs` | theorems about runtimes and tasks; about opening files, hints and variants; about the byte cache and the streams of the service |
| `StreamProofs` | theorems about the scans, and what the algorithms on row selections do |

### The storage engine

A client thread runs one operation at a time. The operation is a *frame*: a program
counter and the local variables of `insert_inner`, `try_insert`, `read_disk_array` or
`flush_all_to_disk`. While a thread waits in `squeeze_victims` it also has a frame for
each victim. One step of a frame is one access to shared state:

| Step | Code |
|---|---|
| `TryInsertGet`, `TryInsertBudget` / `TryInsertFails`, `IndexInsert`, `NotifyInsert` | the four accesses of `try_insert` |
| `FindVictim`, `WriteSelf`, `VictimsSqueezed` | the loop of `insert_inner` |
| `SqueezeVictim` | `squeeze_victim_inner`: look up, squeeze, and then the steps of a write and of `try_insert`, squeezing again as long as it does not fit |
| `TruncateFile`, `WriteFile` | `write_batch_to_disk`: `File::create` truncates, the bytes come later; writing over another writer's bytes may leave a mixture |
| `ReadArrow`, `ReadLiquid`, `ReadFile` | the look-up, and the awaited read with decoding and hydration; `ReadLiquid` stands for `try_read_liquid` and `eval_predicate`, which differ in the answer only |
| `FlushBegin`, `FlushNext`, `FlushEnd`, `Reset` | `flush_all_to_disk` over its snapshot, `reset` |

The frames of one thread are futures polled by that thread: they alternate only where
the code awaits (`CanRun`); frames of different threads interleave freely. A failed
`expect` or `unreachable!` leaves the thread at `badFile` or `noRoom`. The value of a
disk entry, `latest` and the `given` answers are ghosts.

A policy appears as the set `tracked` and the contract of `PolicyContract`; `TracksDisk`
tells the policies that keep advising disk entries (all but LiquidPolicy) from the one
that does not. The budget is one step because `BudgetAccounting` implements
`AtomicBudget`; the counter wraps modulo `Word`.

### The policies

Every operation of a policy holds its mutex and is one step. `MCCachePolicies` puts the
policies side by side: the variable `policy` says which of them a behaviour exercises,
and the others rest. Entries have size 1, the default of the size function. The pointers
of the list are modelled once, in `DoublyLinkedList`; the policies use sequences, which
`IsSequence` justifies.

### The io_uring runtimes

A future stands for one task from its creation to its end; a completion is named after
the future whose operation it ends, so that `got` and `reply` tell whether a task was
given its own. `Kernel` finishes operations in any order.

- `SharedRing` (`IoMode::UringShared`): a poll is split at each access to the token queue,
  to a completion slot and to the mutex; while a drain holds the mutex its entries are
  moved one at a time, because other threads look at the slots and the queue meanwhile.
- `UringWorker` (`Uring`, `UringDirect`): the two loops of the worker thread, a turn per
  step. The pool lives in a static, so its shutdown does not occur.
- `LeasedRings` (`UringMultiAsync`, `UringBlocking`): a task leases a ring, which the pool
  gets back with the task's end. Dropping a pending async future closes its ring; a
  blocking wait may return early and give the ring back with the operation under way.

`MCIoRuntimes` exercises one of them per behaviour, as `IoMode` does.

What a task transfers is apart from how it is scheduled: `IoTasks` follows one file through
writes and reads of the back ends. `BuildRead` takes a buffer at an address of any
alignment and pads the range to whole blocks; `CompleteRead` and `CompleteWrite` take every
count that the kernel may report, since the code looks at the sign only. `short` records
that a count was less than it could have been.

### The Parquet scan

A stream goes through its row groups. `Plan` takes the part of the selection that falls
into the next row group, applies the limit and finds out which batches are missing;
`FillBatch` and `FillInsert` bring them in from the file, column by column, with
`CachedColumn::insert`'s test and insertion as two steps; `ReadNext`, `EvalPredicate` and
`Project` are the turns of the cached reader. Streams interleave at every step. A cached
array is a sequence of rows and a row stands for itself, so that a row in the wrong place
is seen. A predicate passes a set of rows; the queries (row groups, selection, limit,
projection, predicates) are what the opener derives from a plan.

The storage engine is the function `cached`: an entry that was inserted stays readable,
with its value, until a reset (`InsertedStays` and `ReadsLatest` of `LiquidCache`). Reset
follows its contract: "You should only call this when no one else is using the cache".
`Expected` is the reference: the selected rows, cut to the limit, that pass the
predicates.

### The encodings

Encoders, decoders, filters and predicates are operators on sequences; `EncodingLife` makes
them the steps of a batch: transcode, write, read back through the header, squeeze with the
bytes on disk, hydrate. The native types are scaled down to `Wide` bits and everything wraps
as it does there. A slot without validity holds a value, which the encoders read.
A predicate on a squeezed array answers from what is in memory, or from `file` when that
does not decide, and the properties compare both with Arrow's answer on the whole array.
A predicate has an operator, a literal and a *left side*: the column, `to_timestamp_seconds` of
it, or another function. The integers look at the left side: they decline what they do not
know, and convert a date in milliseconds (`Date64`) before they compare it. Floats and strings do
not look (`FloatPredicate`, `ByteEval`, `ByteViewExpression`). A dynamic filter is the
predicate that it holds when it is evaluated.

- Integers keep offsets from their minimum; squeezed they are clamped at a sentinel or put
  into buckets, half as many bits wide.
- Floats are numbers of units of `Base ^ -Digits`: a value with more digits than the chosen
  exponents keep, or NaN, is a patch. The choice of exponents by size, on a sample when the array
  is longer than `NumSamples`, is the code's.
- Of dates one component stays; the calendar arithmetic is the code's, the reference in
  `ComponentsExact` counts days from month lengths and leap years.
- Strings are sequences of numbers. FSST is external: a table of one symbol that shortens
  some strings, lengthens others, and restores them with the same table only.

`Columns` keeps to the types for which an encoding is used or lossless: delta and linear
arrays (used by benchmarks and tests only) are not lossless for every type, see below.

### Plans, hints and variants

`Lineage` builds a logical plan from its scans upwards, one action per kind of node, which
is the order in which `analyze_plan` returns from its inputs. `stack` holds the schema and
the lineage of the sub-plans as the analyzer computes them, and next to them the *term* that
each column stands for. `Finish` derives annotations and expressions. The property compares
the annotation of a scanned column with how the terms that the result depends on use it.
A join hands out both sides, one of them (semi and anti joins), or one with a mark; its output
columns are paired with the columns of the left input first, as `analyze_join` does.
`blind` marks plans with a use that the analyzer does not record, or records of another
column: the output of a plan without a projection at its root, `DISTINCT`, a union of
differently named columns, and a join that hands out its right side only.

`SqueezeHints` is the history of a column's expressions and its majority. `FileOpener` has
partitions look into the metadata cache, load under its write lock with a second look, prune
by range, statistics and bloom filter and apply the row filter; what pruning with statistics
may drop is external and as strict as it can be. `VariantColumns` takes a batch from its
insertion (`Insert` shreds it for the annotated paths) through squeezing to typed paths,
eviction and hydration of further paths; a document is a function from the paths of its
leaves to typed values.

### The service

`RemoteQuery`: each partition of an exec is a stream. The first to exchange
`plan_registered` sends the stores and the plan, the others sleep until it has. Then each
asks for its partition, and the server's `FinalStream` merges small batches. A call may fail
before or after the server has carried it out, a consumer may drop a stream, and the server
may restart without its maps; `MaxFaults` bounds them.

`ByteCache`: a reader notes which chunks of its range have no file, fetches them one after
the other, writes a temporary file and renames it, and then reads the range from the chunk
files. Readers interleave at every file operation, fail, and lose everything but the
directory in a crash.

## Runs

| Run | Shows |
|---|---|
| `Budget` | three callers of the budget: `UsageIsHeld`, and the retry loop implements the atomic budget |
| `OneClient` | one client, four kinds of entries, all operations: `BudgetExact`, `WithinBudget`, `MemoryIsEvictable`, `EntriesReadable` (files match their entries and reads decode), `ReadsLatest`, `DiskEntriesFit`, `InsertedStays`, `OperationsEnd` |
| `TwoClients` | two clients that share no entry but squeeze each other's: `ExclusiveInv` (ownership, fresh views, exact budget), `EntriesReadable`, `OperationsEnd` |
| `CachePolicies` | all policies and the list: `MeetsContract`, `EvictionOrder`, `SecondChance`, `StructuresAgree` (hand, sizes, ghosts and links), `IsSequence` |
| `IoRuntimes` | the four io_uring runtimes: `OwnCompletion`, `TokenOnce`, `IoEnds`, and `TransfersExact` of the tasks, with the exceptions that they name |
| `ParquetScan` | two scans through the cache: `RowsExact` (the reference's rows, once and in order), `NeverPanics`, `CacheHoldsItsRows`, `ScanEnds` |
| `Encodings` | every short array of eight kinds of columns through every sequence of encoding steps: `Lossless`, `HydratesSame`, `SelectedRowsExact`, `MasksExact`, `StringMasksExact`, `ComponentsExact` |
| `Service` | two queries of two partitions with a fault: `DeliveredExact`, `StreamsEnd`; two readers of the byte cache with a failure or crash: `ReadsItsObject` |
| `Plans` | all plans of up to four nodes: `HintsCoverUses`; all workloads of one column: `HintFollowsWorkload`; two partitions that open a file: `OpenedExactly`; a variant column: `VariantGetExact` |

Three runs expect a violation; each is a disagreement between the code and what the
repository says of it (`findings` in `PROJECT.json`):

| Run | Finding |
|---|---|
| `SharedWrap` | two replacements of one entry release its size twice; the counter wraps, and an insertion runs into `unreachable!` |
| `NotLike` | NOT LIKE on an array with fingerprints selects no row when no fingerprint admits the substring, where every row qualifies |
| `HintedOutput` | a column that the query returns, and also filters by EXTRACT, is annotated as used by EXTRACT only |

`SharedWrap` needs two threads at work on one entry. `CachedColumn::insert` tests
`is_cached` first, but the test and the insertion are two accesses, and readers always
share entries.

Observations without a run of their own. The storage engine and its policies:

- The policy may hear of a move to disk after it heard of the hydration that followed it:
  the entry in memory is then never advised again (`MemoryIsEvictable` is false with two
  clients).
- A read of a whole variant column returns the kept paths only; `ReadsLatest` speaks of the
  paths that a read asks for.
- With any policy but LiquidPolicy, inserting an entry larger than the budget loops for
  ever, because evicted entries are advised again (`OperationsEnd` is false with
  `TracksDisk = TRUE` and a "huge" entry).
- S3-FIFO links an entry twice when it is inserted twice after its eviction. `SizesMatch`
  holds nevertheless; `MeetsContract` is checked, and proved, for behaviours of S3-FIFO in which no entry
  is inserted again after it was advised.
- Two insertions of one entry may both find it absent and both reserve its size; the
  memory usage is then too high until `reset` (the first half of `SharedWrap`).
- `write_batch_to_disk` adds the length of a file each time it is rewritten, although the
  statistic is "Total disk usage of the cache" (`observer/stats.rs:146`).
- The builder's documentation names `NoHydration` as the default hydration policy
  (`src/storage/src/cache/builders.rs:91`) where the code sets `AlwaysHydrate` (line 56).
- The ghost queue of S3-FIFO is never trimmed.
- Two readers of an entry larger than the budget share its file: one has hydrated the
  entry, finds no room and rewrites the file while the other decodes it.

I/O and scans:

- `abandon_submission` of the shared ring looks for the completion and marks the token in
  two steps. A drain in between stores the completion first; the token is then marked and
  never returned (`SharedRing!Leaked`, the exception of `TokenOnce` and `IoEnds`).
- A blocking wait that returns early gives its ring back with the operation under way, and
  the next task on that ring is given the old completion (the exception of `OwnCompletion`).
- Dropping a pending future of the shared or a leased ring frees the task, and with it the
  buffer that the kernel was told to use.
- The registry's key is the path of the object in its own store (`opener.rs:134`), so two
  stores that hold an object under the same path share its entries
  (`LocationAssumption`).
- The counter of file ids survives a reset and is truncated to 16 bits, with a
  `debug_assert!` only.
- The limit is applied before the predicates (`plan_row_group`), so a limit together with a
  pushed-down filter may yield fewer rows than match; `Expected` states the code's order.
- The admin handler resets the cache without asking whether a scan is under way; the scan
  then panics with "item must be in cache".
- A future dropped while its operation is under way makes the only worker thread panic when
  the completion arrives, and every other task is lost with it (the exception of `IoEnds`).
- A short read or write counts as success (`tasks.rs:207`): the rest of the buffer is zero.
- `tokio::fs::File` is dropped without a flush after a write, so that the bytes may not be
  in the file yet when the write is reported.
- `build_row_filter` leaves out conjuncts that cannot be pushed down, and all of them after
  an error; the result is right only because the filter above the scan is kept.
- The registry of reader factories is keyed by the address of an `Arc` and never cleaned.

Encodings:

- `LiquidFloatArray` puts values into buckets relative to zero and compares bucket bounds
  relative to the reference (`float_array.rs:358`), so a predicate on a squeezed float array
  may decide wrongly unless the reference is a multiple of the bucket width; after a filter
  its patches keep the positions of the unfiltered array. `MasksExact` excepts both.
- Predicates on strings and squeezed floats are answered whatever their left side is
  (`operator.rs:153`, `byte_array.rs:238`, `float_array.rs:997`), and `build_row_filter` and
  `eval_predicate_internal` hand over any conjunct: `upper(s) = 'X'` gets the mask of `s = 'X'`,
  and `abs(f) > 5`, or a comparison of the `CAST` that the planner puts around a `Float32`
  column, that of `f > 5`. The trait says "Returns `None` if the predicate is not supported"
  (`liquid_array/mod.rs:192`). The constant `FunctionsOn` names the encodings whose predicates
  may be on a function: the run has the integers, which look at the left side; with "view" or
  "bytes" in it `StringMasksExact` is false, and with "float" `MasksExact`.
- `-0.0` decodes to `0.0`.
- A comparison by prefixes makes a vector of results as long as the filtered keys and looks
  it up with `get_unchecked` by the keys themselves (`comparisons.rs:354`): out of bounds
  when a key is larger. The model yields `OutOfBounds` there.
- LIKE with a pattern that is not a plain substring panics on a fingerprinted array.
- Fingerprints of an empty dictionary are read back as none.
- A column's compressor, once trained, is used for dictionaries unchecked.
- Delta arrays are lossless for signed types only and carry the type `Integer` in their
  header, linear arrays lose values when differences exceed the 64-bit arithmetic; only
  benchmarks and tests build them, as they do `LiquidByteArray`.

Plans and variants:

- Under an `ExtractDate32` hint a whole-column read returns the component as a date, and the
  plan above still applies EXTRACT to it.
- The output of a RIGHT SEMI, RIGHT ANTI or right mark join is paired with the columns of the left
  input (`lineage_opt.rs:375`): a column of the right side gets the usages of a column of the
  left one, so a date that the query returns may be annotated as used by EXTRACT only.
  `HintsCoverUses` excepts plans with such a join, and is false with them.
- Lineage of a union is by name and not by position; `DISTINCT` on whole rows records no
  use; a scan filter on a column outside the projection makes the analysis fail.
- Paths that are read without a type are left out of the hint, so a squeezed read loses
  them; a variant column that is passed through keeps its annotation.
- `contains_path` does not look at types: a query for another type of a kept path gets
  nulls. A path and a path below it, asked for together, hide one another. Both are
  exceptions of `VariantGetExact`.

Service:

- When the partition that registers a plan fails or is dropped, `plan_registered` stays
  `InProgress` and the other partitions poll for ever (`client_exec.rs:282`); `StreamsEnd`
  excepts them (`lost`). The client panics on an error of the flight stream.
- The server never forgets a plan, and forgets all of them in a restart, after which the
  client's partitions fail.
- Chunk files are named with `/` replaced by `_` (`byte_cache.rs:41`): objects "a/b" and
  "a_b" share chunks. `RequestsAssumption` rules out such pairs. Chunks of an object that is overwritten
  stay. The range of an empty object underflows (`byte_cache.rs:68`).
- `register_object_store` looks and then inserts; two calls may both build the store.

### Bounds

- `MaxOps` bounds the operations that begin (5 for one client, 4 for two). Operations
  themselves are not bounded; loops run until they end.
- `MaxBytes = 4` with entries of 1 to 3 units: two entries fit in some forms and not in
  others, so squeezing once, twice and to disk all happen. "swell" grows when it is
  transcoded, so a squeezed form may not fit; "huge" fits in no form; "variant" has two
  paths of which one is the squeeze hint.
- `VictimCount` is 2 or 1 (8 in the code), so that both less and more victims than asked
  for exist. `Word = 64` stands for 2^64.
- Two values per entry in `OneClient` so that a stale value is seen, two threads in
  `TwoClients`: ownership is about pairs. The theorems remove these bounds.
- The policies run with three entries and requests of up to three; `SmallShare = 3`
  (10 in the code) lets both queues of S3-FIFO be chosen with four entries.
- The runtimes run with three tasks and two tokens (256 in the code), so a task finds the
  tokens exhausted; rings suffice for one per task, and the pool begins with one ring, so
  that rings are both reused and built.
- The scans run over a file with row groups of 3 and 2 rows and batches of 2 rows, so that
  a group ends inside a batch, on its boundary, and after a full one, and over a file
  smaller than a batch. One stream takes all 32 selections of the five rows, with and
  without a limit and with a predicate on another column, and limits of 0, 1 and 3 with empty
  and full projections and none, one or two predicates; the other fills part of the same
  row groups, or reads the second file. `Field = 4` (2^16 in the code) holds every
  identifier that occurs.

- `IoTasks`: blocks of 3 bytes and files of up to 5, so that ranges and files begin and end
  on and off a block.
- `Encodings`: integers of 4 bits (64), chunks of 2 values (1024), squeezing from 3 bits (8),
  arrays of up to three numbers from the edges of the type, with nulls; seconds of 2
  milliseconds (1000); a sample of one value chooses the exponents of longer arrays
  (`NumSamples = 1`, 1024 in the code), so the others may need patches; fifteen and more
  days around the irregular places of the calendar, with the code's own constants; strings
  of up to five bytes with prefix keys of 2 (7) and capped lengths of 4 (255), so that
  strings differ within and beyond both.
- `Service`: batches of 0 to 3 rows with a target of 4, so that a batch arrives before, at
  and after the threshold; objects of 3 bytes in chunks of 2, ranges within, across and
  beyond them; one fault or crash anywhere.
- `Plans`: two tables with the same column names in different order, one date and one
  variant catalogue, four nodes, so that a join or union of two scans has a parent;
  `History = 4` (16 in the code) and workloads twice as long; a file of two row
  groups cut anywhere between two partitions; documents of numbers, strings and objects at
  one path, in files that shredded nothing, the path or one below it.

### Fairness

`FairSpec` assumes that a thread which has begun an operation and can take a step takes
one eventually (weak fairness of `Progress(t)`): an async runtime polls woken futures,
and the code blocks on nothing but file I/O, which completes. Nothing is assumed about
clients beginning operations, or about which victim a policy picks. With a
policy that advises entries on disk `OperationsEnd` is false under the same fairness.

`IoRuntimes` assumes that the kernel finishes operations, that the worker runs, and that a
future is polled again until it is ready, which each poll requests with `wake_by_ref`. For
the shared ring it also assumes that a thread which waits for the mutex (to submit, or to
mark a token) gets it although others take it again and again (strong fairness of `Submit`
and `MarkAbandoned`): futures without a token drain over and over, and the standard
library promises no fairness of its mutex, so this is an assumption on the scheduler.
Nobody has to drop a future.

`ParquetScan` assumes that an open stream is polled until it ends (`Polled`, weak fairness
of `Step(s)` with its enabling condition written out, because TLC evaluates `ENABLED` of
these actions very slowly). Nobody has to open a stream or reset the cache.

`Service` assumes that every partition's stream is polled and that timers fire (weak
fairness of `Step(t)`). The consumer may drop a stream at any time, and nothing makes a call
succeed. `Encodings` and `Plans` are about safety; `Plans` may stop, since a plan is
finished, a workload is over and files stay open, and so its run does not look for deadlocks.

## Theorems

Statements are for all values of the constants, under the named assumptions of the modules.

| Theorem | Statement |
|---|---|
| `LiquidCacheProofs!TypeCorrect` | `Spec => []TypeOK` |
| `LiquidCacheProofs!ExclusiveInvariant` | `Exclusive => (Spec => [](TypeOK /\ ExclusiveInv))` |
| `LiquidCacheProofs!BudgetIsExact`, `BudgetIsRespected`, `DiskAlwaysFits` | in that setting `BudgetExact`, `WithinBudget` and `DiskEntriesFit` always hold |
| `LiquidCacheProofs!InsertedEntriesStay` | `Spec => InsertedStays`, in every setting |
| `LiquidCacheProofs!DataInvariant` | `Exclusive => (Spec => []DataInv)` |
| `LiquidCacheProofs!EntriesAreReadable`, `ReadsAreLatest` | in that setting `EntriesReadable` and `ReadsLatest` always hold |
| `LiquidCacheProofs!MemoryStaysEvictable` | `OneThread => (Spec => []MemoryIsEvictable)` |
| `BudgetProofs!BudgetSafety` | the lock-free budget: `[](TypeOK /\ UsageIsHeld /\ UsageBounded)`; the bound follows from the rest |
| `BudgetProofs!BudgetIsAtomic` | `Spec => ImplementsAtomicBudget` |
| `PolicyProofs!ListIsWellLinked`, `ListIsSequence` | the intrusive list: `[]WellLinked`, and it implements `NodeList` |
| `PolicyProofs!QueuesMeetContract` | LRU, FIFO, FILO and LiquidPolicy implement `PolicyContract` |
| `PolicyProofs!QueuesEvictInOrder`, `QueuesTyped` | `QueueSpec => EvictionOrder` and `QueueSpec => []QueuesTypeOK` for them |
| `PolicyProofs!PoliciesMeetContract` | `Spec => MeetsContract` of `MCCachePolicies`: all policies implement `PolicyContract` |
| `PolicyProofs!HandsGiveSecondChances`, `StructuresStayInOrder` | `Spec => SecondChance` and `Spec => []StructuresAgree` of it |
| `IoProofs!TokensOnce`, `CompletionsAreOwn` | `[]TokenOnce` and `[]OwnCompletion` for all io_uring runtimes |
| `IoProofs!TransfersAreExact` | `[]TransfersExact` |
| `PlanProofs!FilesOpenExactly` | `OpenSpec => []OpenedExactly` |
| `PlanProofs!HintsFollowWorkload` | `HintSpec => []HintFollowsWorkload` |
| `PlanProofs!VariantReadsAreExact` | `VariantSpec => []VariantGetExact` |
| `ServiceProofs!ReadersGetTheirObject` | `CacheSpec => []ReadsItsObject` |
| `ServiceProofs!RowsAreDelivered` | `RemoteSpec => []DeliveredExact` |
| `StreamProofs!StreamInvariant` | `Spec => []Inv` of `LiquidStream` |
| `StreamProofs!ScansAreExact`, `StreamsNeverPanic`, `CacheIsRight` | `Spec => []RowsExact`, `[]NeverPanics` and `[]CacheHoldsItsRows` |

### The storage engine

`BudgetExact` is not inductive. The size that `try_insert` read may be stale at the
budget step unless nobody else changes the entry meanwhile. `ExclusiveInv` says who may:
an entry about to change has one *owner*, a frame that will still touch the budget or the
index for it (`OneOwner`); an entry the policy tracks is in memory and has no owner
(`TrackedIsFree`), so `find_victim` hands ownership over and `notify_insert` gives it
back; hence what an owner read is still there (`OldIsFresh`), and a budget step replaces
exactly the charge of the old entry. A frame that only has to report a disk entry is no
owner, and must not be: its late report may race with a hydration, which
harms eviction but not the accounting. `RefusedTakesMemory` gives `DiskAlwaysFits`: only
a batch that takes memory can be refused.

The setting `Exclusive` assumes clients that share no entry, LiquidPolicy, no concurrent
flush or reset, no variant entries, and a word larger than the budget plus any entry.
Each assumption is needed: without the first see `SharedWrap`; a reader of a squeezed
variant replaces the entry without having taken it from the policy, so it can race with
the squeezing of that entry even when clients are exclusive.

`EntriesReadable` and `ReadsLatest` need to know what every frame carries. `DataInv` adds to
the ownership: an entry has one format on disk in all its forms, so a file that was written
for an earlier form serves a later one; a batch on its way into the index has the latest
value and its bytes are in the file or with it; and a squeezing job writes no file that a
reader may be reading.
`InsertedEntriesStay` needs none of this: whatever a frame is about to put into the index is an
entry (`HoldsEntries`), so nothing but `reset` removes one.

`MemoryIsEvictable` is false as soon as a reader and a squeezing job of two threads overlap
(see the observations), so it is proved for one thread: a victim's frame exists only while
the thread waits for it, the report that it is about to make is about what the index
holds, and an entry in memory is tracked or in one of those frames (`OneThreadInv`).

`Total` is defined as a cardinality, so that the theorems on finite sets give the change
of a sum by one summand (`NumberTheorems`) without induction.

### The list and the queues

`LinkInv` says that there is a sequence of distinct nodes which the pointers spell: `head`
is its first, `tail` its last, `next` and `prev` lead from each node to its neighbours, and
exactly its nodes are owned. Each operation turns the spelled sequence into the one that
`NodeList` has; `push_back` is `push_front` of the *mirrored* list, so one proof serves
both. `Forward` follows the pointers with a recursive function; that it yields the spelled sequence is
shown by the least position at which they would differ.

For the queues, `recent` orders the entries by their last insertion (for the LRU, also
access). `QueueInv`: a queue has distinct entries, disjoint from the other queues, and
is sorted by `recent`, the youngest at the front for LRU and FILO and at the back for the
others. An insertion unlinks the entry, which keeps the others in order, and pushes it where
the youngest belongs. `find_victim` cuts a queue at one end: what it takes and what it leaves are
parts of a sorted list (`CutOff`). LiquidPolicy asks each queue for what the ones before could not
give, so a later queue gives a victim only when the earlier ones are exhausted; hence both the
number of victims and their order.

### Clock, Sieve and S3-FIFO

`find_victim` of these policies loops until it has its victims, so what a call does is the
result of a loop, and that the loop ends has to be shown. In the model a loop is a recursive
function over a number of turns that is enough; the code counts none. `LoopExists` and
`LoopStays` give such a function and what its turns keep, and the proofs show that the number
is enough (`SweepEnds`, `SmallEvicts`, `MainEvicts`, `EvictEnds`): the model stops where
the code does, with `cnt` victims or an empty list.

*Clock and Sieve.* A turn keeps the hand on a node of the list; victims and the nodes left make up
the list that the call found (`Swept`). Every turn clears a bit or unlinks a node, hence two
turns for each node (`TurnsLeft`). For `SecondChance` the loop remembers that the hand goes round:
as long as there is no victim, the neighbour of a node that was spared was spared too, or the hand is
on it (`Chance`). A victim that had its bit set was itself spared before, so the spared nodes
are closed under going to the neighbour, and these are all nodes (`RoundTrip`).

*S3-FIFO.* `S3Good`: the sizes are the lengths of the queues, the ghost set is the set of the
ghost queue, and an entry with a frequency is in small, in main or a ghost. This needs no
assumption on the calls and holds though entries may be linked twice. It is what ends the loop
of `find_victim`, which looks at the sizes and not at the queues: while the total is positive
a queue is not empty, and a round takes from main only when small holds less than its share, so main
is not empty then (`RoundKeeps`, with `SmallShare` at least 1). A turn of `evict_from_main` lowers the
sum of the frequencies or yields a victim. `S3Once` adds, as long as advised entries do
not come back, that each entry is in one queue, once, and has a frequency just while it is in one,
so victims are distinct.

`PolicyInv` joins these: the policy that a behaviour exercises is in order, the others rest.

### I/O

`RuntimeInv` gives every token of the shared ring one *place*: it is free, or one future holds
it, or it is abandoned and still has its operation or its completion; and an operation
belongs to the future that holds its token unless that was given up. The worker's tokens are
free with an empty slot, or stand for the one operation of the slot's task. A ring is in the
pool, unused, or held by one task, and carries that task's operation only, unless a
blocking wait returned early. A behaviour exercises one of the runtimes, so the invariants of the
three are proved apart and joined.

`TaskInv` for a read: the buffer has room for the padded range from its first aligned byte
on; between writes the file has the bytes that were written. The rest is arithmetic of
remainders modulo the block.

### Plans, hints and variants

- `OpenInv`: at most one partition holds the write lock, and then nothing is cached yet; an
  open partition hands out rows of groups that begin in its range, and of these all that
  satisfy the predicate. Disjoint ranges that cover the file share it (`OpenAssumption`).
- `HintInv`: the history is the end of the workload, at most `History` long. An expression that
  fills the later half is counted at least as often as any other, since two counts do not
  exceed the length, and a tie goes to the more recent one.
- `VariantInv`: the columns of a squeezed batch have what the documents say at their paths,
  whatever queries they were kept for; an array in memory, and the file, have the documents.

### The byte cache

`ByteCacheInv`: a chunk file under its final name has the block of the object its name stands
for, whoever renamed it; the chunks of a reader's range have files or are still to be
fetched; and what it has read is the object from the start of its range to the next chunk.
Names are injective on the locations in use (`RequestsAssumption`). A crash leaves only
temporary files, which no reader opens, and chunk files are never taken away.

### The streams of the service

`RemoteInv`, for each partition: the rows delivered, then those `FinalStream` holds, then
those the plan has yet to yield, are the rows of the partition (`Whole`), as long as the stream
runs; every batch delivered has more than three quarters of the target size, unless it was the
flush at the end, after which nothing is held or to come (`Large`). A restart
or a failure may take away what is held and what is to come, but not what was delivered, which
stays a prefix. `RemoteSpec` is the specification without its fairness.

### The scan

The first half of `StreamProofs` says what each algorithm on selections does to the
*bits* of a selection (one for each row, selected or not):

- `split_off` cuts the bits, and `RowSelection::from` keeps them; `limit_row_selection` keeps
  the first set bits; `take_next_batch` cuts the bits at the batch size;
- `collect_selection_batches` yields, in increasing order and once each, the batches that
  have a set bit, and `build_selection_for_batches` selects just the rows of its batches;
  hence a file read under that selection delivers those batches one by one, each of them
  complete (`Delivered`);
- `boolean_buffer_and_then` is the mask in which a row has passed both.

Filtering, joining and cutting are recursive or by position; the lemmas go by induction on
the length of a sequence. The library's induction theorems take an operator, so
`NumberInduction` and `AppendInduction` state induction for a *set* of numbers or of sequences:
the set of those that have the property is all of them. Together with `Iteration`, which
gives a recursively defined function, this puts them within the provers' reach.

The invariant `Inv` has a part for each thing that is shared or carried from step to step:

- the registry gives no identifier twice and none beyond its counter, and an entry in the
  cache is a batch of a registered file with its rows (`RegistryInv`, `CacheInv`);
- a stream knows its file under the identifier of the registry (`FileInv`), and its queue
  is about rows of the row group that are still ahead (`QueueInv`);
- while it fills, the batches before `done`, and the columns before `col`, are cached
  (`FillInv`). Every batch with a selected row ahead is cached or among the missing
  (`TouchInv`): this is what makes the plan, made from a cache that others change meanwhile,
  safe to follow, since entries only come and never go while a stream runs;
- the mask is about the current batch and its rows have passed the predicates so far
  (`MaskInv`), and the columns read have the rows under the mask (`ArrayInv`);
- what was handed out, then what is *left* (of the batch, of the row group, of the other
  row groups under the rest of the selection and of the limit), is what the query asks
  for (`OutInv`). Each step moves rows from one part of what is left to another or hands them out.

`RowsExact` follows from `OutInv`, since a stream that ended has nothing left; `NeverPanics`
because the states of `Inv` do not include the panic, `TouchInv` and `Delivered` being what the
steps that could panic need; `CacheHoldsItsRows` from `CacheInv`, since packed identifiers are
distinct when no part outgrows its field.

### What the proofs assume

`IoAssumption`: at least one ring. `OpenAssumption`: the splits are disjoint and cover the file,
as DataFusion makes them. `VariantAssumption`: the rows of a batch are a sequence.
`RequestsAssumption`: ranges are of numbers, and no two objects in use have the same chunk
directory. `LocationAssumption` is the analogue for the registry: no two stores have an object under
one path. `StreamAssumption`: no part of an identifier outgrows its field, which the code asserts in
debug builds only: fewer row groups than 2^16, at most 2^16 columns and batches in a row group, and no
more streams than files can be numbered. `QueryAssumption`: a query names row groups and columns
of its file, its selection is not longer than these row groups, and a predicate reads a
column; the opener makes them so. `PolicyAssumption`: the share of the small
queue is a positive number (1/10 in the code), `None` is no entry and there are finitely many
entries. The others say that numbers are numbers and sets are finite.

### Only model-checked

Liveness (`OperationsEnd`, `IoEnds`, `ScanEnds`, `StreamsEnd`) is outside the prover's reach. So is
`HintsCoverUses`: the analyzer of `Lineage` is written with RECURSIVE operators, which rule out the
SMT backend. What the encoders compute by recursion over an array (`Lossless`,
`HydratesSame`, `SelectedRowsExact`, `MasksExact`, `StringMasksExact`, `ComponentsExact`) is checked
and not proved.

## Not modelled, and the plan

Left to prove: of the encodings, that bit packing and the integer forms are lossless; of the
lineage analyzer, that hints cover the uses, with its descent through a plan written as a
recursive function in the way of `RowSelections`.

Left out:

- the client's pushdown rule (`src/client/src/optimizer.rs`), which wraps scans in an exec and
  changes no state, and the builders and the local mode, which wire the parts together;
- the SQL functions on variants (`variant_get`, `variant_pretty`, `variant_to_json`): they
  read a batch and keep nothing; `VariantGet` stands for the first of them;
- the registry of schema adapters by address: what it does depends on reused addresses;
- `BooleanSelection` and the offset of a scan, which no caller uses;
- Arrow kernels, FSST and the statistics of row groups: external libraries, modelled by what
  this code relies on;
- tracing, statistics, the observer and the HTTP handlers: no decision depends on them;
- benchmarks, studies and examples.
