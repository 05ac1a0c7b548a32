---------------------------- MODULE FileOpener ----------------------------
(***************************************************************************)
(* The partitions of a scan open one Parquet file at the same time, each   *)
(* for its range of bytes: the metadata comes from the process-wide        *)
(* MetadataCache, row groups are pruned by range, statistics and bloom     *)
(* filters, and the conjuncts that the reader can evaluate become the row  *)
(* filter.                                                                 *)
(***************************************************************************)
EXTENDS Integers, FiniteSets

CONSTANTS Partitions,       \* a partition has a range of the file
          RowGroups,        \* the row groups of the file
          RowSets,          \* the rows that a row group may have: column, nested field
          Layouts,          \* offsets of the row groups' first pages
          Splits,           \* the ranges of the partitions; together the whole file
          Conjuncts         \* [column, value]; of column "a", "nested" or "none"

\* The column has numbers and so have the conjuncts on it; the ranges that the scan
\* is cut into do not overlap and leave out no row group.
ASSUME OpenAssumption ==
  /\ \A rows \in RowSets : \A row \in rows : row.a \in Int
  /\ \A c \in Conjuncts : c.value \in Int
  /\ Layouts \subseteq [RowGroups -> Nat]
  /\ Splits \subseteq [Partitions -> Nat \X Nat]
  /\ \A s \in Splits :
       /\ \A p, q \in Partitions : p # q => s[p][2] <= s[q][1] \/ s[q][2] <= s[p][1]
       /\ \A l \in Layouts : \A g \in RowGroups : \E p \in Partitions : s[p][1] <= l[g] /\ l[g] < s[p][2]

VARIABLES file,             \* the rows of each row group
          offset,           \* where its first dictionary or data page is
          range,            \* the range of each partition
          predicate,        \* the conjuncts of the scan
          cached,           \* META_CACHE has the metadata of the file
          writer,           \* the partitions that hold its write lock
          opening,          \* how far each partition is
          loads,            \* how often the metadata was read from the object store
          delivered         \* the rows that the streams hand out

openVars == <<file, offset, range, predicate, cached, writer, opening, loads, delivered>>

AllRows == UNION {{<<g, row>> : row \in file[g]} : g \in RowGroups}
Satisfies(row, c) == c.column = "none" \/ row[c.column] = c.value

OpenInit ==
  /\ file \in [RowGroups -> RowSets] /\ offset \in Layouts /\ range \in Splits
  /\ predicate \in {P \in SUBSET Conjuncts : Cardinality(P) <= 2}
  /\ cached = FALSE /\ writer = {} /\ loads = 0
  /\ opening = [p \in Partitions |-> "start"]
  /\ delivered = [p \in Partitions |-> {}]

Goto(p, state) == opening' = [opening EXCEPT ![p] = state]

\* get_metadata: first under the read lock ...
CheckCached(p) ==
  /\ opening[p] = "start" /\ writer = {}
  /\ Goto(p, IF cached THEN "prune" ELSE "upgrade")
  /\ UNCHANGED <<file, offset, range, predicate, cached, writer, loads, delivered>>

\* ... then under the write lock, which is held while the metadata is loaded.
LockAndCheck(p) ==
  /\ opening[p] = "upgrade" /\ writer = {}
  /\ Goto(p, IF cached THEN "prune" ELSE "loading")
  /\ writer' = IF cached THEN {} ELSE {p}
  /\ UNCHANGED <<file, offset, range, predicate, cached, loads, delivered>>

Load(p) ==
  /\ opening[p] = "loading"
  /\ Goto(p, "prune")
  /\ cached' = TRUE /\ writer' = {} /\ loads' = loads + 1
  /\ UNCHANGED <<file, offset, range, predicate, delivered>>

\* The object store fails, or the query is dropped: the lock goes with the future.
GiveUp(p) ==
  /\ opening[p] \in {"start", "upgrade", "loading", "prune"}
  /\ Goto(p, "failed")
  /\ writer' = writer \ {p}
  /\ UNCHANGED <<file, offset, range, predicate, cached, loads, delivered>>

-----------------------------------------------------------------------------
(* The row groups and rows of a partition                                  *)

\* FileRange::contains with both ends included.
PruneByRangeClosed(groups, r) == {g \in groups : r[1] <= offset[g] /\ offset[g] <= r[2]}
PruneByRange(groups, r) == {g \in groups : r[1] <= offset[g] /\ offset[g] < r[2]}

\* The statistics of a column say that no row of the group can satisfy a conjunct;
\* nested columns have none.
OutOfBounds(g, c) ==
  c.column = "a" /\ \/ \A row \in file[g] : row.a < c.value
                    \/ \A row \in file[g] : row.a > c.value
PruneByStatistics(groups) == {g \in groups : \A c \in predicate : ~OutOfBounds(g, c)}

\* A bloom filter may take a value for present that is not.
Absent(g, c) == c.column = "a" /\ \A row \in file[g] : row.a # c.value
PruneByBloomFilters(groups, exact) == {g \in groups : g \notin exact \/ \A c \in predicate : ~Absent(g, c)}

\* PushdownChecker: the columns that a conjunct needs, none of them nested.
PreventsPushdown(c) == c.column = "nested"
PushdownColumns(c) == {c.column} \ {"none"}
\* build: a conjunct that needs no column makes no candidate either.
Build(c) == ~PreventsPushdown(c) /\ PushdownColumns(c) # {}
\* build_row_filter leaves out what makes no candidate; an error leaves out everything.
BuildRowFilter(failed) == IF failed THEN {} ELSE {c \in predicate : Build(c)}

\* open, once the metadata is there: with or without statistics, with the bloom
\* filters that exist and are exact, with or without a row filter.
OpenStream(p, statistics, exact, failed) ==
  LET ranged == PruneByRange(RowGroups, range[p])
      bounded == IF statistics THEN PruneByStatistics(ranged) ELSE ranged
      groups == PruneByBloomFilters(bounded, exact)
  IN  /\ opening[p] = "prune"
      /\ Goto(p, "open")
      /\ delivered' = [delivered EXCEPT ![p] = {r \in AllRows : r[1] \in groups /\ \A c \in BuildRowFilter(failed) : Satisfies(r[2], c)}]
      /\ UNCHANGED <<file, offset, range, predicate, cached, writer, loads>>

OpenNext ==
  \E p \in Partitions :
    \/ CheckCached(p) \/ LockAndCheck(p) \/ Load(p) \/ GiveUp(p)
    \/ \E statistics, failed \in BOOLEAN : \E exact \in {{}, RowGroups} : OpenStream(p, statistics, exact, failed)

OpenSpec == OpenInit /\ [][OpenNext]_openVars

-----------------------------------------------------------------------------
Opened == {p \in Partitions : opening[p] = "open"}

\* The partitions of a file share its rows: none is handed out by two, whatever way
\* the file is cut, and once all are open every row that satisfies the predicate is
\* handed out, though groups were pruned by ranges, statistics and bloom filters and
\* some conjuncts are left to the filter above; and partitions that open the file
\* at the same time load its metadata once.
OpenedExactly ==
  /\ \A p, q \in Opened : p # q => delivered[p] \intersect delivered[q] = {}
  /\ Opened = Partitions =>
       {r \in AllRows : \A c \in predicate : Satisfies(r[2], c)} \subseteq UNION {delivered[p] : p \in Partitions}
  /\ loads <= 1
=============================================================================
