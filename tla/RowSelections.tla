--------------------------- MODULE RowSelections ---------------------------
(***************************************************************************)
(* The algorithms on row selections of the Parquet reader                  *)
(* (reader/runtime/utils.rs, reader/runtime/liquid_stream.rs, utils.rs).   *)
(* A selection is a sequence of runs of rows, selected or skipped.         *)
(***************************************************************************)
EXTENDS Naturals, FiniteSets, SequencesExt

CONSTANTS None,         \* Option::None
          Field         \* values of a field of an identifier (2^16 in the code)

Select(n) == [skip |-> FALSE, n |-> n]
Skip(n) == [skip |-> TRUE, n |-> n]

Lesser(a, b) == IF a < b THEN a ELSE b

-----------------------------------------------------------------------------
(* The selection as one bit per row, and back.                             *)

RowSelectorToBooleanBuffer(sel) ==
  FlattenSeq([i \in DOMAIN sel |-> [k \in 1..sel[i].n |-> ~sel[i].skip]])

SetBits(bits) == {i \in DOMAIN bits : bits[i]}

\* the rows of the first i runs, and the selected ones among them
RowsUpTo(sel, i) == Len(RowSelectorToBooleanBuffer(SubSeq(sel, 1, i)))
SelectedUpTo(sel, i) == Cardinality(SetBits(RowSelectorToBooleanBuffer(SubSeq(sel, 1, i))))
RowCount(sel) == SelectedUpTo(sel, Len(sel))

\* the first of some positions, or 0
FirstOf(S) == IF S = {} THEN 0 ELSE Min(S)

\* the elements at the set bits (arrow's filter)
FilterBy(s, bits) == FlattenSeq([i \in DOMAIN bits |-> IF bits[i] THEN <<s[i]>> ELSE <<>>])

\* the elements that differ from the one before
Changes(s) == FilterBy(s, [i \in DOMAIN s |-> i = 1 \/ s[i] # s[i - 1]])

\* RowSelection::from leaves out the empty runs and joins neighbours of a kind.
PushRun(runs, r) ==
  IF r.n = 0 THEN runs
  ELSE IF runs # <<>> /\ Last(runs).skip = r.skip
  THEN [runs EXCEPT ![Len(runs)].n = @ + r.n]
  ELSE Append(runs, r)
RowSelectionFrom(sel) ==
  LET joined[i \in 0..Len(sel)] == IF i = 0 THEN <<>> ELSE PushRun(joined[i - 1], sel[i]) IN
  joined[Len(sel)]
FromBits(bits) == RowSelectionFrom([i \in DOMAIN bits |-> [skip |-> ~bits[i], n |-> 1]])

\* RowSelection::split_off: the selection of the first rows, and the rest
SplitOff(sel, rows) ==
  LET bits == RowSelectorToBooleanBuffer(sel) IN
  [first |-> FromBits(SubSeq(bits, 1, Lesser(rows, Len(bits)))),
   rest |-> FromBits(SubSeq(bits, rows + 1, Len(bits)))]

\* boolean_buffer_and_then: a bit of right for each set bit of left
BooleanBufferAndThen(left, right) ==
  IF Len(left) = Len(right) THEN right
  ELSE [i \in DOMAIN left |->
          left[i] /\ right[Cardinality(SetBits(SubSeq(left, 1, i)))]]

-----------------------------------------------------------------------------
\* Mistake: a limit that ends with a run also lets the next run in.
LimitTooLate(sel, limit) ==
  IF limit = 0 THEN <<>>
  ELSE LET i == FirstOf({j \in DOMAIN sel : ~sel[j].skip /\ SelectedUpTo(sel, j) > limit}) IN
       RowSelectionFrom(
         IF i = 0 THEN sel
         ELSE Append(SubSeq(sel, 1, i - 1), Select(limit + 1 - SelectedUpTo(sel, i - 1))))

LimitRowSelection(sel, limit) ==
  IF limit = 0 THEN <<>>
  ELSE LET i == FirstOf({j \in DOMAIN sel : ~sel[j].skip /\ SelectedUpTo(sel, j) >= limit}) IN
       RowSelectionFrom(
         IF i = 0 THEN sel
         ELSE Append(SubSeq(sel, 1, i - 1), Select(limit - SelectedUpTo(sel, i - 1))))

\* take_next_batch: the runs of the next size rows (skipped ones count), cutting
\* the last one if need be
TakeNextBatch(sel, size) ==
  LET i == FirstOf({j \in DOMAIN sel : RowsUpTo(sel, j) > size})
      room == size - RowsUpTo(sel, i - 1)
  IN
  IF i = 0 THEN [batch |-> sel, rest |-> <<>>]
  ELSE [batch |-> SubSeq(sel, 1, i - 1)
                    \o (IF room > 0 THEN <<[sel[i] EXCEPT !.n = room]>> ELSE <<>>),
        rest |-> <<[sel[i] EXCEPT !.n = @ - room]>> \o SubSeq(sel, i + 1, Len(sel))]

-----------------------------------------------------------------------------
(* Which batches of a row group a selection touches, and back.             *)

\* Mistake: a run that crosses into the next batch touches only its first one.
CollectFirstOnly(sel, size, rows) ==
  LET start(i) == RowsUpTo(sel, i - 1)
      touched == FlattenSeq([i \in DOMAIN sel |->
                   IF sel[i].skip \/ start(i) >= rows THEN <<>>
                   ELSE <<(start(i) \div size) % Field>>])
  IN Changes(touched)

\* a batch next to itself is pushed once
CollectSelectionBatches(sel, size, rows) ==
  LET start(i) == RowsUpTo(sel, i - 1)
      end(i) == Lesser(RowsUpTo(sel, i), rows)
      first(i) == start(i) \div size
      touched == FlattenSeq([i \in DOMAIN sel |->
                   IF sel[i].skip \/ start(i) >= end(i) THEN <<>>
                   ELSE [k \in 1..((end(i) - 1) \div size + 1 - first(i)) |->
                           (first(i) + k - 1) % Field]])
  IN Changes(touched)

\* Mistake: the gap after a batch that is cached already is not skipped.
BuildWithoutGaps(batches, size, rows) ==
  RowSelectionFrom([i \in DOMAIN batches |->
    Select(Lesser((batches[i] + 1) * size, rows) - batches[i] * size)])

BuildSelectionForBatches(batches, size, rows) ==
  LET inside == FilterBy(batches, [i \in DOMAIN batches |-> batches[i] * size < rows])
      start(i) == inside[i] * size
      end(i) == IF i = 0 THEN 0 ELSE Lesser((inside[i] + 1) * size, rows)
  IN
  RowSelectionFrom(FlattenSeq(
    [i \in DOMAIN inside |->
       (IF start(i) > end(i - 1) THEN <<Skip(start(i) - end(i - 1))>> ELSE <<>>)
         \o <<Select(end(i) - start(i))>>]))
=============================================================================
