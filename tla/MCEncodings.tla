---------------------------- MODULE MCEncodings ----------------------------
(***************************************************************************)
(* Every short array of every kind of column, through every sequence of    *)
(* encoding steps.                                                         *)
(***************************************************************************)
EXTENDS EncodingLife

CONSTANTS MaxLen,       \* longest array of numbers
          MaxRows,      \* longest array of dates or strings
          Kinds,        \* the columns that a run looks at
          FunctionsOn   \* the encodings whose predicates may be on a function of the column

Column(encoding, type, calendar, policy) ==
  [encoding |-> encoding, type |-> type, calendar |-> calendar, policy |-> policy,
   layout |-> "plain", compressor |-> <<>>]
\* Strings of a column that has no compressor yet, and of one that has.
Strings(encoding, layouts) ==
  {[Column(encoding, "Utf8", "none", "Clamp") EXCEPT !.layout = layout, !.compressor = compressor] :
     layout \in layouts, compressor \in {<<>>, << <<2, 3>> >>}}

Policies == {"Clamp", "Quantize"}
Narrow == Type(TRUE, Wide - 1)
Plain(encoding, types) == {Column(encoding, t, "none", p) : t \in types, p \in Policies}

DateType == Type(TRUE, 21)
TimestampType == Type(TRUE, 23)

\* Delta arrays are lossless for signed types only, linear ones for types whose
\* differences fit the arithmetic in 64 bits.
Columns(kind) ==
  CASE kind = "integer" -> Plain("primitive", {I64, U64, Narrow, Date64})
    [] kind = "delta" -> {Column("delta", t, "none", "Clamp") : t \in {I64, Narrow}}
    [] kind = "linear" -> {Column("linear", t, "none", "Clamp") : t \in {Narrow, Unsigned(Narrow)}}
    [] kind = "float" -> {Column("float", SignedInt, "none", "Quantize")}
    [] kind = "date" -> {Column("primitive", DateType, "date", "Clamp"),
                         Column("primitive", TimestampType, "timestamp", "Clamp")}
    [] kind = "bytes" -> Strings("bytes", {"plain"})
    [] kind = "view" -> Strings("view", {"plain", "dictionary"})
    [] kind = "decimal" -> {Column("fixed", t, "none", "Clamp") : t \in {"Decimal128", "Decimal256"}}

-----------------------------------------------------------------------------
\* Days around the places where the calendar is irregular: the ends of an era, of
\* leap years and of centuries, the turn of the year, the epoch.
IrregularDays ==
  UNION {d - 1 .. d + 1 : d \in {-719468, -719162, -573372, -25509, 0, 10956, 11016, 19782, 20148}}

\* Strings that are empty, that start others, that differ within and beyond the
\* prefix key, at a zero byte and beyond the capped length.
Texts == {<<>>, <<2>>, <<2, 0>>, <<2, 3, 1>>, <<2, 3, 3>>, <<2, 3, 3, 1, 2>>, <<3, 2>>}
Needles == {<<>>, <<2>>, <<2, 3, 3>>, <<2, 3, 3, 1>>, <<3, 2>>}
Patterns == {<<Percent, 3, Percent>>, <<Percent, 2, 3, Percent>>, <<Percent, 1, Percent>>}

Edges(t) == {x \in Natives(t) : x \in {MinOf(t), MinOf(t) + 1, -1, 0, 1, 2, 5, MaxOf(t) - 1, MaxOf(t)}}
NumbersOf(c) ==
  CASE c.calendar = "date" -> IrregularDays
    [] c.calendar = "timestamp" -> {3 * d + r : d \in {-719468, -25509, 0, 11016}, r \in -1 .. 1}
    [] c.encoding = "float" -> {NaN} \union {Number(n) : n \in {-40, -30, 0, 4, 10, 20, 60, 100, 120}}
    [] c.encoding \in {"bytes", "view"} -> Texts
    [] c.encoding = "fixed" -> {-MaxDecimal(c.type) - 1, -1, 0, 1, MaxDecimal(c.type)}
    [] OTHER -> Edges(c.type)
Garbage(c) ==
  CASE c.encoding = "float" -> Number(7) [] c.encoding \in {"bytes", "view"} -> <<>>
    [] c.encoding = "fixed" -> 2 [] OTHER -> MinOf(c.type)
LengthsOf(c) == 0 .. (IF IsCalendar(c) \/ c.encoding \in {"bytes", "view"} THEN MaxRows ELSE MaxLen)

ArraysOf(c) ==
  LET slots == {Slot(TRUE, v) : v \in NumbersOf(c)} \union {Slot(FALSE, Garbage(c))}
  IN  UNION {[1 .. n -> slots] : n \in LengthsOf(c)}

Init ==
  /\ \E kind \in Kinds : column \in Columns(kind)
  /\ array \in ArraysOf(column)
  /\ form = "arrow" /\ held = <<>> /\ file = <<>>

Spec == Init /\ [][Next]_vars

-----------------------------------------------------------------------------
Selections == [DOMAIN array -> BOOLEAN]

\* In whatever form the batch is, it still decodes to the array that was given:
\* widths, wrapped offsets, sentinels, residuals and patches lose nothing.
Lossless ==
  LET now == CASE form = "arrow" -> array
               [] form = "liquid" -> ToArrowArray(held)
               [] form = "squeezed" -> SqueezedToArrow(held, file[1])
               [] form = "disk" -> ToArrowArray(ReadBack(column, array, file[1]))
  IN  Rows(now) = Rows(array)

\* Packed keys up to their width, which is not kept for arrays of nulls only.
Decoded(l) == IF l.kind \in {"bytes", "fixed"} THEN [l EXCEPT !.keys = ToPrimitive(l.keys)] ELSE l

\* "Hydrating the hybrid array from the stored bytes should yield the same
\* LiquidArray": what a squeeze or a write leaves on disk is the encoding of the
\* given array, whatever happened to the batch before.
HydratesSame ==
  form \in {"squeezed", "disk"} =>
    \E hint \in {"none", "substring"} :
      Decoded(ReadBack(column, array, file[1])) = Decoded(TranscodeLiquid(column, array, hint))

\* A squeezed array hands out exactly the selected rows, from memory or from disk.
SelectedRowsExact ==
  form = "squeezed" =>
    \A s \in Selections : Rows(SqueezedFilter(held, file[1], s)) = Rows(Filter(array, s))

\* What stands on the left side of a predicate: the column, the conversion that
\* integers know, which takes signed ones, or another function.
Lefts == {"column"} \union (IF column.encoding \in FunctionsOn THEN {"function"} ELSE {}) \union
         (IF column.encoding = "primitive" /\ column.type.signed THEN {"to_timestamp_seconds"} ELSE {})
Abs(n) == IF n < 0 THEN -n ELSE n
Upper(s) == [i \in DOMAIN s |-> IF s[i] = 2 THEN 3 ELSE s[i]]
FunctionOf(v) ==
  CASE column.encoding = "float" -> [v EXCEPT !.n = Abs(@)]
    [] column.encoding \in {"bytes", "view"} -> Upper(v)
    [] OTHER -> Abs(v)
LeftSide(lhs, a) ==
  LET Value(v) == CASE lhs = "column" -> v [] lhs = "function" -> FunctionOf(v)
                    [] lhs = "to_timestamp_seconds" -> Seconds(column.type, v)
  IN  MapValues(a, Value)

\* A predicate on squeezed numbers, for every comparison, literal and selection.
ExactMasks(Cmp(_, _, _), literals) ==
  \A lhs \in Lefts, op \in Operators, k \in literals, s \in Selections :
    LET answer == NumberPredicate(held, file[1], Predicate(lhs, op, k), s)
    IN  answer # NotSupported => answer = Mask(Cmp(op, LeftSide(lhs, Filter(array, s)), k))

\* The buckets of a squeezed float array are those of its values if the smallest
\* encoded value starts one; patches keep the positions of the whole array.
Aligned(q) == q.ref % 2 ^ q.shift = 0 /\ DOMAIN q.patches = {}

\* A predicate on a squeezed array of numbers has the answer that it has on the full
\* array: the sentinel and the buckets are only trusted where they decide, and
\* integers refuse a left side that they do not know.  Excepted are floats whose
\* buckets are not aligned, or that have patches, and functions of floats (FunctionsOn).
MasksExact ==
  form = "squeezed" =>
    /\ held.kind \in {"clamped", "quantized"} => ExactMasks(ApplyCmp, Natives(I64))
    /\ held.kind = "float quantized" /\ Aligned(held) =>
         ExactMasks(ApplyFloatCmp, {Number(n) : n \in {-20, 0, 20, 60}})

HasStrings == column.encoding \in {"bytes", "view"} /\ form \in {"liquid", "squeezed"}
BytesOnDisk == IF file = <<>> THEN <<>> ELSE file[1]
Answer(lhs, op, k, s) == StringPredicate(held, BytesOnDisk, Predicate(lhs, op, k), s)
Contains(a, pattern) ==
  [i \in DOMAIN a |-> IF a[i].valid THEN <<HasSubstring(a[i].v, SubstringPattern(pattern)[1])>> ELSE <<>>]

\* A predicate on a column of strings, in memory or squeezed, has the answer that it
\* has on the plain values: prefixes, lengths, compressed values and fingerprints are
\* only trusted where they decide.  Excepted are NOT LIKE (below), functions of the
\* column on the left side (FunctionsOn), and look-ups beyond the results.
StringMasksExact ==
  HasStrings =>
    \A s \in Selections, lhs \in Lefts :
      LET values == LeftSide(lhs, Filter(array, s))
      IN  /\ \A op \in Operators, k \in Needles :
               LET answer == Answer(lhs, op, k, s)
               IN  answer # OutOfBounds => answer = Mask(ApplyBytesCmp(op, values, k))
          /\ held.kind # "bytes" =>
               \A p \in Patterns :
                 LET answer == Answer(lhs, "Like", p, s)
                 IN  answer \notin {NotSupported, OutOfBounds} => answer = Mask(Contains(values, p))

\* NOT LIKE selects the rows that do "not contain a substring".
NotLikeExact ==
  HasStrings /\ held.kind # "bytes" =>
    \A s \in Selections, p \in Patterns :
      LET answer == Answer("column", "NotLike", p, s)
      IN  answer \notin {NotSupported, OutOfBounds} => answer = Mask(NotMask(Contains(Filter(array, s), p)))

\* The civil calendar by counting: leap years before a year, days before a month.
IsLeap(y) == y % 4 = 0 /\ (y % 100 # 0 \/ y % 400 = 0)
LeapsBefore(y) == (y - 1) \div 4 - (y - 1) \div 100 + (y - 1) \div 400
MonthLength(y, m) == IF m = 2 THEN (IF IsLeap(y) THEN 29 ELSE 28) ELSE IF m \in {4, 6, 9, 11} THEN 30 ELSE 31
DayNumber(ymd) ==
  365 * (ymd.y - 1970) + LeapsBefore(ymd.y) - LeapsBefore(1970)
    + MapThenSumSet(LAMBDA m : MonthLength(ymd.y, m), 1 .. ymd.m - 1) + ymd.d - 1

\* The component kept for a date is that of its day in the civil calendar, and
\* the date that is made up from it has the same component.
ComponentsExact ==
  form = "squeezed" /\ held.kind = "date" =>
    LET comps == ToComponentArray(held)
        DayOf(v) == IF column.calendar = "timestamp" THEN TimestampToDays(v) ELSE v
        OnDay(c, day) ==
          LET ymd == YmdFromEpochDays(day)
          IN  /\ ymd.m \in 1 .. 12 /\ ymd.d \in 1 .. MonthLength(ymd.y, ymd.m)
              /\ DayNumber(ymd) = day /\ YmdToEpochDays(ymd.y, ymd.m, ymd.d) = day
              /\ c = Component(held.field, day)
              /\ Component(held.field, LossyDate(held.field, c)) = c
    IN  /\ Valid(comps) = Valid(array)
        /\ \A i \in Valid(array) : OnDay(comps[i].v, DayOf(array[i].v))
=============================================================================
