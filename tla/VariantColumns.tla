--------------------------- MODULE VariantColumns ---------------------------
(***************************************************************************)
(* A cached batch of a variant column: shredded when it is inserted,       *)
(* squeezed to the typed values of the paths that queries ask for, and     *)
(* hydrated with further paths (parquet/src/cache/column.rs,               *)
(* storage/src/liquid_array/variant_array.rs, utils/variant_schema.rs,     *)
(* cache/policies/squeeze.rs and hydration.rs).                            *)
(*                                                                         *)
(* A path is a sequence of segments.  A document is a function from the    *)
(* paths of its leaves to typed values; a row may be null.  A schema is a  *)
(* function from the paths that were inserted to their types.  A request   *)
(* is a path with a type, as in variant_get(column, path, type).           *)
(***************************************************************************)
EXTENDS Integers, FiniteSets, SequencesExt

CONSTANTS VariantFiles,     \* the batches that a Parquet file may deliver
          RequestLists,     \* the requests of an expression
          Mappings          \* the paths that a query's annotation names

ASSUME VariantAssumption == \A array \in VariantFiles : DOMAIN array.rows = 1 .. Len(array.rows)

VARIABLES documents,        \* the rows that were inserted
          variant,          \* the cache entry
          backing           \* the Arrow array in the entry's file
variantVars == <<documents, variant, backing>>

Untyped == "untyped"
NullValue == [type |-> "null", val |-> 0]
Row(valid, doc) == [valid |-> valid, doc |-> doc]
Request(path, type) == [path |-> path, type |-> type]

\* The array is an object per row, of which the leaves in the schema `typed` have a
\* column of their own and the rest is in the column "value".
Shredded(rows, typed) == [rows |-> rows, typed |-> typed]
VariantGet(rows, r) ==
  [i \in DOMAIN rows |->
     IF rows[i].valid /\ r.path \in DOMAIN rows[i].doc /\ rows[i].doc[r.path].type = r.type
     THEN rows[i].doc[r.path] ELSE NullValue]

-----------------------------------------------------------------------------
\* A node with children ignores a type of its own.
IsInner(schema, p) == \E q \in DOMAIN schema : IsStrictPrefix(p, q)
HasNode(schema, p) == \E q \in DOMAIN schema : IsPrefix(p, q)
ShreddingType(schema) == [p \in {q \in DOMAIN schema : ~IsInner(schema, q)} |-> schema[p]]

\* A type that is inserted later replaces the earlier one.
InsertPaths(schema, requests) ==
  LET Newest(p) == {i \in DOMAIN requests : requests[i].path = p /\ \A j \in DOMAIN requests : j > i => requests[j].path # p}
      paths == {requests[i].path : i \in DOMAIN requests}
  IN  [p \in DOMAIN schema \union paths |->
         IF p \in paths THEN requests[CHOOSE i \in Newest(p) : TRUE].type ELSE schema[p]]

IsTyped(field) == field.type # Untyped
EnrichVariantFieldType(typed, mapping) == ShreddingType(InsertPaths(typed, SelectSeq(mapping, IsTyped)))

\* CachedColumn::insert shreds what the annotation of the query asks for and the
\* file has not shredded.
MaybeShred(array, mapping) ==
  LET IsMissing(spec) == ~HasNode(array.typed, spec.path)
      missing == SelectSeq(SelectSeq(mapping, IsTyped), IsMissing)
      schema == ShreddingType(InsertPaths(EnrichVariantFieldType(array.typed, mapping), missing))
  IN  IF missing = <<>> THEN array ELSE Shredded(array.rows, schema)

TypedValues(array, p) == VariantGet(array.rows, Request(p, array.typed[p]))

\* An inner node has no values to transcode: the squeeze is given up.
NoSqueeze == <<>>
TryVariantSqueeze(array, requests) ==
  LET shredded == Shredded(array.rows, ShreddingType(InsertPaths(array.typed, requests)))
      collected == {p \in {requests[i].path : i \in DOMAIN requests} : HasNode(shredded.typed, p)}
  IN  IF array.rows = <<>> \/ collected = {} \/ (\E p \in collected : IsInner(shredded.typed, p)) THEN NoSqueeze
      ELSE << [form |-> "squeezed",
               values |-> [p \in collected |-> [type |-> shredded.typed[p], column |-> TypedValues(shredded, p)]],
               nulls |-> {i \in DOMAIN array.rows : ~array.rows[i].valid},
               len |-> Len(array.rows)],
              shredded >>

\* VariantTreeNode: the tree of the kept paths, in which children hide a leaf.
BuildRootStruct(squeezed, paths) ==
  LET shown == {p \in paths : \A q \in paths : ~IsStrictPrefix(p, q)}
      Doc(i) == [p \in {q \in shown : squeezed.values[q].column[i] # NullValue} |-> squeezed.values[p].column[i]]
  IN  [i \in 1 .. squeezed.len |-> Row(i \notin squeezed.nulls, Doc(i))]

ContainsPath(squeezed, p) == p \in DOMAIN squeezed.values
ToArrowArrayWithPaths(squeezed, paths) ==
  LET kept == {p \in paths : ContainsPath(squeezed, p)}
  IN  BuildRootStruct(squeezed, IF kept = {} THEN DOMAIN squeezed.values ELSE kept)

-----------------------------------------------------------------------------
InMemory(array) == [form |-> "arrow", array |-> array]
OnDisk == [form |-> "disk"]
NotCached == [form |-> "none"]

AnyPathPresent(squeezed, requests) == \E i \in DOMAIN requests : ContainsPath(squeezed, requests[i].path)
AllPathsPresent(squeezed, requests) == \A i \in DOMAIN requests : ContainsPath(squeezed, requests[i].path)

\* What a read with these requests hands out.
ReadVariant(requests) ==
  CASE variant.form = "arrow" -> variant.array.rows
    [] variant.form = "squeezed" /\ AllPathsPresent(variant, requests) ->
         ToArrowArrayWithPaths(variant, {requests[i].path : i \in DOMAIN requests})
    [] OTHER -> backing.rows

Extended(kept, new) == [p \in DOMAIN kept \union DOMAIN new |-> IF p \in DOMAIN new THEN new[p] ELSE kept[p]]

\* hydrate_variant_paths: the missing paths join the kept ones.
HydrateVariantPaths(requests) ==
  LET IsMissing(r) == ~ContainsPath(variant, r.path)
      new == TryVariantSqueeze(backing, SelectSeq(requests, IsMissing))
  IN  IF new = NoSqueeze THEN InMemory(backing)
      ELSE [variant EXCEPT !.values = Extended(@, new[1].values)]
HydrateDisk(requests) ==
  LET new == TryVariantSqueeze(backing, requests)
  IN  IF new = NoSqueeze THEN InMemory(backing) ELSE new[1]

VariantInit ==
  /\ documents = <<>> /\ variant = NotCached
  /\ backing = Shredded(<<>>, <<>>)

InsertVariant(array, mapping) ==
  /\ variant = NotCached
  /\ documents' = array.rows
  /\ variant' = InMemory(MaybeShred(array, mapping))
  /\ UNCHANGED backing

SqueezeVariant(hint) ==
  /\ variant.form = "arrow"
  /\ LET new == TryVariantSqueeze(variant.array, hint)
     IN  IF new = NoSqueeze THEN variant' = OnDisk /\ backing' = variant.array
         ELSE variant' = new[1] /\ backing' = new[2]
  /\ UNCHANGED documents

EvictVariant ==
  /\ variant.form = "squeezed"
  /\ variant' = OnDisk
  /\ UNCHANGED <<documents, backing>>

HydrateVariant(requests) ==
  /\ \/ variant.form = "disk" /\ variant' = HydrateDisk(requests)
     \/ /\ variant.form = "squeezed" /\ ~AllPathsPresent(variant, requests)
        /\ variant' = HydrateVariantPaths(requests)
  /\ UNCHANGED <<documents, backing>>

VariantNext ==
  \/ \E array \in VariantFiles, mapping \in Mappings : InsertVariant(array, mapping)
  \/ \E requests \in RequestLists : SqueezeVariant(requests) \/ HydrateVariant(requests)
  \/ EvictVariant

VariantSpec == VariantInit /\ [][VariantNext]_variantVars

-----------------------------------------------------------------------------
\* The column is kept for another type of the path (contains_path does not look at
\* types), or the query also asks for a path below (the tree shows one of them).
Excepted(r, requests) ==
  \/ /\ variant.form = "squeezed" /\ ContainsPath(variant, r.path)
     /\ variant.values[r.path].type # r.type
  \/ \E i \in DOMAIN requests : IsStrictPrefix(r.path, requests[i].path)

\* A read that asks for variant paths answers each of them as the documents that were
\* inserted do, however the batch was shredded, squeezed for other queries' paths,
\* evicted and hydrated path by path (core.rs:646, hydration.rs:62).
VariantGetExact ==
  variant # NotCached =>
    \A requests \in RequestLists : \A i \in DOMAIN requests :
      ~Excepted(requests[i], requests) =>
        VariantGet(ReadVariant(requests), requests[i]) = VariantGet(documents, requests[i])
=============================================================================
