---------------------------- MODULE LiquidStream ----------------------------
(***************************************************************************)
(* Scans of Parquet files through the cache (reader/runtime/               *)
(* liquid_stream.rs and liquid_cache_reader.rs).  For each row group a     *)
(* stream plans which batches are missing, fills them in from the file,    *)
(* and then reads every batch from the cache: predicates first, then the   *)
(* projection.  A step ends at an await or at an access to the shared      *)
(* cache.  A row stands for itself: an array is a sequence of rows.        *)
(***************************************************************************)
EXTENDS RowSelections

-----------------------------------------------------------------------------
(***************************************************************************)
(* The cache as the Parquet reader sees it (cache/mod.rs, cache/id.rs,     *)
(* cache/column.rs): a registry of files and, under packed identifiers,    *)
(* the rows of each cached batch.  The storage engine behind it keeps what *)
(* was inserted until it is reset (LiquidCacheProperties!InsertedStays).   *)
(***************************************************************************)
CONSTANTS Files,        \* objects of the object stores
          Location      \* [Files -> path within the object's own store]

\* The registry takes the path for the file, which is right as long as no two
\* stores hold an object under the same path.
ASSUME LocationAssumption ==
  \A f, g \in Files : Location[f] = Location[g] => f = g

VARIABLES files,        \* LiquidCacheParquet::files, by location
          nextFile,     \* current_file_id
          cached        \* the storage engine's index: rows by entry id

cacheVars == <<files, nextFile, cached>>

CacheInit == files = <<>> /\ nextFile = 0 /\ cached = <<>>

Extend(f, x, y) == [z \in DOMAIN f \cup {x} |-> IF z = x THEN y ELSE f[z]]

\* register_or_get_file, under the registry's mutex
FileIdOf(f) == IF Location[f] \in DOMAIN files THEN files[Location[f]] ELSE nextFile
RegisterOrGetFile(f) ==
  /\ files' = Extend(files, Location[f], FileIdOf(f))
  /\ nextFile' = IF Location[f] \in DOMAIN files THEN nextFile ELSE nextFile + 1

\* ParquetArrayID::new truncates each part to its field; then they are packed.
EntryId(file, rg, col, batch) ==
  (((file % Field) * Field + (rg % Field)) * Field + (col % Field)) * Field + (batch % Field)

IsCached(id) == id \in DOMAIN cached

\* LiquidCacheParquet::reset forgets the files but not the counter.
ResetCache == files' = <<>> /\ cached' = <<>> /\ UNCHANGED nextFile

-----------------------------------------------------------------------------
(* The reader and its stream.                                              *)

CONSTANTS Streams,
          NumRows,      \* [Files -> sequence of the row groups' lengths]
          NumColumns,   \* root columns of the files' schema
          BatchSize,    \* of the cache and of the session
          Queries,      \* [Streams -> set of queries]
          MaxResets     \* bound on resets

\* No part of an identifier outgrows its field (the debug_asserts of
\* ParquetArrayID::new): files, row groups, columns and batches of a row group.
ASSUME StreamAssumption ==
  /\ BatchSize \in Nat \ {0} /\ Field \in Nat \ {0} /\ NumColumns \in 0..Field
  /\ NumRows \in [Files -> Seq(Nat)]
  /\ \A f \in Files : Len(NumRows[f]) < Field
  /\ \A f \in Files : \A g \in DOMAIN NumRows[f] : NumRows[f][g] <= Field * BatchSize
  /\ IsFiniteSet(Streams) /\ Cardinality(Streams) <= Field

VARIABLES query,        \* what each stream is to read
          st,           \* the state machine of each stream
          out,          \* rows handed to the consumer
          resets

vars == <<files, nextFile, cached, query, st, out, resets>>

Init ==
  /\ CacheInit
  /\ query \in {q \in [Streams -> UNION {Queries[s] : s \in Streams}] :
                  \A s \in Streams : q[s] \in Queries[s]}
  /\ st = [s \in Streams |->
             [pc |-> "new", file |-> 0, groups |-> query[s].groups,
              selection |-> query[s].selection, limit |-> query[s].limit,
              group |-> 0, queue |-> <<>>, missing |-> <<>>, done |-> 0, col |-> 1,
              batch |-> 0, mask |-> <<>>, pred |-> 1, arrays |-> <<>>]]
  /\ out = [s \in Streams |-> <<>>]
  /\ resets = 0

-----------------------------------------------------------------------------
\* get_root_column_ids: the columns of the schema that are chosen, in its order
RootColumns(cols) ==
  FilterBy([i \in 1..NumColumns |-> i - 1], [i \in 1..NumColumns |-> i - 1 \in cols])
Projection(s) == RootColumns(query[s].projection)
CacheColumns(s) ==
  RootColumns(query[s].projection
                \cup UNION {query[s].predicates[i].cols : i \in DOMAIN query[s].predicates})

GroupRows(f, g) == [i \in 1..NumRows[f][g] |-> <<f, g, i>>]
RowsOf(f, groups) == FlattenSeq([i \in DOMAIN groups |-> GroupRows(f, groups[i])])
FileRows(f) == Len(RowsOf(f, [g \in DOMAIN NumRows[f] |-> g]))

\* A query names row groups and columns of its file; its selection is one of
\* their rows, and a predicate reads some column.
AnyRow == Files \X Nat \X Nat
AnySelection == Seq([skip : BOOLEAN, n : Nat])
ASSUME QueryAssumption ==
  /\ None \notin Nat /\ None \notin AnySelection
  /\ \A s \in Streams : \A q \in Queries[s] :
       /\ q.file \in Files /\ q.groups \in Seq(DOMAIN NumRows[q.file])
       /\ q.limit \in Nat \cup {None} /\ q.selection \in AnySelection \cup {None}
       /\ q.selection # None =>
            Len(RowSelectorToBooleanBuffer(q.selection)) <= Len(RowsOf(q.file, q.groups))
       /\ q.projection \subseteq 0..(NumColumns - 1)
       /\ q.predicates \in Seq([cols : (SUBSET (0..(NumColumns - 1))) \ {{}}, pass : SUBSET AnyRow])

\* LiquidStreamBuilder::build
StreamBatchSize(s) == Lesser(BatchSize, FileRows(query[s].file))

Entry(s, col, batch) == EntryId(st[s].file, st[s].group, col, batch)

\* compute_missing_batches
MissingBatches(s, group, batches) ==
  FilterBy(batches, [k \in DOMAIN batches |-> \E i \in DOMAIN CacheColumns(s) :
                       ~IsCached(EntryId(st[s].file, group, CacheColumns(s)[i], batches[k]))])

\* The Parquet reader returns the selected rows in batches, full but for the last.
ParquetBatches(s) ==
  LET rows == GroupRows(query[s].file, st[s].group)
      bits == RowSelectorToBooleanBuffer(
                BuildSelectionForBatches(st[s].missing, BatchSize, Len(rows)))
      selected == FilterBy(rows, bits)
  IN [k \in 1..((Len(selected) + BatchSize - 1) \div BatchSize) |->
        SubSeq(selected, (k - 1) * BatchSize + 1, Lesser(k * BatchSize, Len(selected)))]

\* Stream s goes on with the state t.
Become(s, t) == st' = [st EXCEPT ![s] = t]
Panic(s) == Become(s, [st[s] EXCEPT !.pc = "panic"])

-----------------------------------------------------------------------------
\* LiquidParquetOpener::open registers the file and builds the stream.
Open(s) ==
  /\ st[s].pc = "new"
  /\ RegisterOrGetFile(query[s].file)
  /\ Become(s, [st[s] EXCEPT !.pc = "init", !.file = FileIdOf(query[s].file)])
  /\ UNCHANGED <<cached, query, out, resets>>

\* The part of the selection that falls into the next row group, and the rest
SplitSelection(t, rows) ==
  IF t.selection = None THEN [first |-> <<Select(rows)>>, rest |-> None]
  ELSE SplitOff(t.selection, rows)
Limited(t, sel) == IF t.limit = None THEN sel ELSE LimitRowSelection(sel, t.limit)

\* poll_next in StreamState::Init, with plan_row_group
Plan(s) ==
  LET t == st[s]
      group == Head(t.groups)
      rows == NumRows[query[s].file][group]
      split == SplitSelection(t, rows)
      plan == Limited(t, split.first)
      missing == MissingBatches(s, group, CollectSelectionBatches(plan, BatchSize, rows))
      next == [t EXCEPT !.groups = Tail(@), !.selection = split.rest]
  IN
  /\ t.pc = "init"
  /\ IF t.groups = <<>> THEN Become(s, [t EXCEPT !.pc = "end"])
     ELSE IF RowCount(plan) = 0 THEN Become(s, next)
     ELSE Become(s, [next EXCEPT
            !.pc = IF missing = <<>> THEN "read" ELSE "fill",
            !.limit = IF @ = None THEN None ELSE @ - RowCount(plan),
            !.group = group, !.queue = plan, !.missing = missing,
            !.done = 0, !.col = 1, !.batch = 0])
  /\ UNCHANGED <<files, nextFile, cached, query, out, resets>>

-----------------------------------------------------------------------------
(* fill_cache_from_parquet: batch by batch, column by column               *)

\* Mistake: the batches that were inserted are not counted.
NextColumnForgets(s) ==
  IF st[s].col < Len(CacheColumns(s)) THEN [st[s] EXCEPT !.pc = "fill", !.col = @ + 1]
  ELSE [st[s] EXCEPT !.pc = "fill", !.col = 1]

NextColumn(s) ==
  IF st[s].col < Len(CacheColumns(s)) THEN [st[s] EXCEPT !.pc = "fill", !.col = @ + 1]
  ELSE [st[s] EXCEPT !.pc = "fill", !.col = 1, !.done = @ + 1]

\* the next batch of the file, and CachedColumn::insert's is_cached test
FillBatch(s) ==
  LET t == st[s] IN
  /\ t.pc = "fill"
  /\ IF t.done = Len(ParquetBatches(s))
     THEN IF t.done \in {0, Len(t.missing)} THEN Become(s, [t EXCEPT !.pc = "read"]) ELSE Panic(s)
     ELSE IF t.done >= Len(t.missing) THEN Panic(s)
     ELSE IF IsCached(Entry(s, CacheColumns(s)[t.col], t.missing[t.done + 1]))
     THEN Become(s, NextColumn(s))
     ELSE Become(s, [t EXCEPT !.pc = "insert"])
  /\ UNCHANGED <<files, nextFile, cached, query, out, resets>>

FillInsert(s) ==
  LET t == st[s] IN
  /\ t.pc = "insert"
  /\ cached' = Extend(cached, Entry(s, CacheColumns(s)[t.col], t.missing[t.done + 1]),
                      ParquetBatches(s)[t.done + 1])
  /\ Become(s, NextColumn(s))
  /\ UNCHANGED <<files, nextFile, query, out, resets>>

-----------------------------------------------------------------------------
(* LiquidCacheReader: a batch at a time                                    *)

\* take_next_batch, or the row group is finished
ReadNext(s) ==
  LET t == st[s]
      next == TakeNextBatch(t.queue, StreamBatchSize(s))
  IN
  /\ t.pc = "read"
  /\ IF RowsUpTo(next.batch, Len(next.batch)) = 0 THEN Become(s, [t EXCEPT !.pc = "init"])
     ELSE Become(s, [t EXCEPT !.pc = "filter", !.queue = next.rest, !.pred = 1,
                              !.mask = RowSelectorToBooleanBuffer(next.batch)])
  /\ UNCHANGED <<files, nextFile, cached, query, out, resets>>

\* A column of the current batch can be read under the mask.
Readable(s, col) ==
  LET id == Entry(s, col, st[s].batch) IN
  IsCached(id) /\ Len(st[s].mask) <= Len(cached[id])
ColumnRows(s, col) == FilterBy(cached[Entry(s, col, st[s].batch)], st[s].mask)

\* evaluate_selection_with_predicate: a bit for each row under the mask
EvaluateSelection(s, p) ==
  LET some == CHOOSE c \in p.cols : TRUE IN
  [k \in DOMAIN ColumnRows(s, some) |-> \A c \in p.cols : ColumnRows(s, c)[k] \in p.pass]

\* one turn of build_predicate_filter; "item must be in cache"
EvalPredicate(s) ==
  LET t == st[s]
      p == query[s].predicates[t.pred]
  IN
  /\ t.pc = "filter"
  /\ IF t.pred > Len(query[s].predicates) \/ SetBits(t.mask) = {}
     THEN Become(s, [t EXCEPT !.pc = "project", !.arrays = <<>>])
     ELSE IF \E c \in p.cols : ~Readable(s, c) THEN Panic(s)
     ELSE Become(s, [t EXCEPT !.pred = @ + 1,
                              !.mask = BooleanBufferAndThen(@, EvaluateSelection(s, p))])
  /\ UNCHANGED <<files, nextFile, cached, query, out, resets>>

\* read_from_cache, a column per step; then the batch is handed out
Project(s) ==
  LET t == st[s]
      cols == Projection(s)
      col == cols[Len(t.arrays) + 1]
      nextBatch == [t EXCEPT !.pc = "read", !.batch = @ + 1, !.arrays = <<>>]
  IN
  /\ t.pc = "project"
  /\ IF SetBits(t.mask) = {} THEN Become(s, nextBatch) /\ UNCHANGED out
     ELSE IF Len(t.arrays) = Len(cols)
     THEN /\ Become(s, nextBatch)
          /\ out' = [out EXCEPT ![s] = @ \o
               [k \in 1..Cardinality(SetBits(t.mask)) |->
                  [i \in DOMAIN cols |-> t.arrays[i][k]]]]
     ELSE /\ IF Readable(s, col)
             THEN Become(s, [t EXCEPT !.arrays = Append(@, ColumnRows(s, col))])
             ELSE Panic(s)
          /\ UNCHANGED out
  /\ UNCHANGED <<files, nextFile, cached, query, resets>>

-----------------------------------------------------------------------------
\* "You should only call this when no one else is using the cache."
Reset ==
  /\ resets < MaxResets
  /\ \A s \in Streams : st[s].pc \in {"new", "end"}
  /\ ResetCache
  /\ resets' = resets + 1
  /\ UNCHANGED <<query, st, out>>

Step(s) ==
  Plan(s) \/ FillBatch(s) \/ FillInsert(s) \/ ReadNext(s) \/ EvalPredicate(s) \/ Project(s)

Finished == \A s \in Streams : st[s].pc \in {"end", "panic"}
Next == Reset \/ (\E s \in Streams : Open(s) \/ Step(s)) \/ (Finished /\ UNCHANGED vars)

\* A stream that is open is polled until it ends: weak fairness of Step(s), which
\* is enabled just when the stream is running.
Running(s) == st[s].pc \notin {"new", "end", "panic"}
Polled(s) == []<>~Running(s) \/ []<><<Step(s)>>_vars
Spec == Init /\ [][Next]_vars /\ \A s \in Streams : Polled(s)

-----------------------------------------------------------------------------
\* What a query asks for: the rows of its row groups, in order, that are selected,
\* no more than the limit, and of these the ones that pass every predicate.
Expected(q) ==
  LET rows == RowsOf(q.file, q.groups)
      bits == RowSelectorToBooleanBuffer(q.selection)
      chosen == IF q.selection = None THEN rows ELSE FilterBy(rows, bits)
      limited == IF q.limit = None THEN chosen
                 ELSE SubSeq(chosen, 1, Lesser(q.limit, Len(chosen)))
      passed == FilterBy(limited, [k \in DOMAIN limited |->
                  \A i \in DOMAIN q.predicates : limited[k] \in q.predicates[i].pass])
  IN [k \in DOMAIN passed |-> [i \in DOMAIN RootColumns(q.projection) |-> passed[k]]]

\* LiquidStream::poll_next hands out the rows that the query asks for, each once, in order and
\* with its columns side by side, whatever the cache held when it was planned
\* and whoever fills it meanwhile.
RowsExact ==
  \A s \in Streams :
    /\ IsPrefix(out[s], Expected(query[s]))
    /\ st[s].pc = "end" => out[s] = Expected(query[s])

\* What a plan found cached is still there when it is read ("item must be in
\* cache"), and what it found missing is exactly what the file delivers
\* ("expected {} batches from parquet stream").
NeverPanics == \A s \in Streams : st[s].pc # "panic"

\* What fill_cache_from_parquet stores under an entry id are the rows of that
\* batch, complete and in order: the k-th batch that the file delivers for a
\* sparse selection is the k-th missing one, for any set of missing batches.
BatchRows(f, g, b) ==
  SubSeq(GroupRows(f, g), b * BatchSize + 1, Lesser((b + 1) * BatchSize, NumRows[f][g]))
CacheHoldsItsRows ==
  \A f \in Files : \A g \in DOMAIN NumRows[f] : \A c, b \in 0..(Field - 1) :
    LET id == EntryId(FileIdOf(f), g, c, b) IN
    Location[f] \in DOMAIN files /\ IsCached(id) => cached[id] = BatchRows(f, g, b)

\* Every scan that was opened comes to its end: poll_next answers Ready(None)
\* after finitely many turns of its two state machines.
ScanEnds == \A s \in Streams : st[s].pc # "new" ~> st[s].pc = "end"
=============================================================================
