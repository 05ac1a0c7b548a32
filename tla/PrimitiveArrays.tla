-------------------------- MODULE PrimitiveArrays ---------------------------
(***************************************************************************)
(* The encodings of integer columns: LiquidPrimitiveArray (offsets from    *)
(* the minimum), LiquidPrimitiveDeltaArray (zigzag of the differences) and *)
(* LiquidLinearArray (residuals of a fitted line), each with its bytes;    *)
(* and squeezed arrays (hybrid_primitive_array.rs), of which half of the   *)
(* bits stay in memory: clamped at a sentinel, or as numbers of buckets. A *)
(* predicate is answered from them when they decide it for every selected  *)
(* row, and from the bytes on disk otherwise.                              *)
(***************************************************************************)
EXTENDS Integers, Sequences, FiniteSetsExt

-----------------------------------------------------------------------------
(***************************************************************************)
(* Arrow arrays of numbers as the encodings see them: a sequence of slots, *)
(* each with a validity bit and a value (a slot without validity still     *)
(* holds some value, and the encoders do read it); and BitPackedArray      *)
(* (liquid_array/raw/bit_pack_array.rs), the low bits of every value,      *)
(* packed in chunks of a fixed number of values. The native types are      *)
(* scaled down: Wide stands for 64, the width of the widest integers and   *)
(* of the arithmetic in i64 and u64.                                       *)
(***************************************************************************)
CONSTANT Wide           \* bits of i64 and u64

ASSUME WideAssumption == Wide \in Nat /\ Wide >= 2

Type(signed, bits) == [signed |-> signed, bits |-> bits]
I64 == Type(TRUE, Wide)
U64 == Type(FALSE, Wide)
Date64 == [signed |-> TRUE, bits |-> Wide, unit |-> "ms"]
Unsigned(t) == Type(FALSE, t.bits)                      \* UnSignedType

MinOf(t) == IF t.signed THEN -(2 ^ (t.bits - 1)) ELSE 0
MaxOf(t) == IF t.signed THEN 2 ^ (t.bits - 1) - 1 ELSE 2 ^ t.bits - 1
Natives(t) == MinOf(t) .. MaxOf(t)

\* The value that type t holds when x is stored in it (add_wrapping, as).
Wrap(t, x) == ((x - MinOf(t)) % (2 ^ t.bits)) + MinOf(t)
\* saturating_add and saturating_sub
Saturate(t, x) == Max({MinOf(t), Min({MaxOf(t), x})})

-----------------------------------------------------------------------------
Slot(valid, v) == [valid |-> valid, v |-> v]
Valid(a) == {i \in DOMAIN a : a[i].valid}
ValidValues(a) == {a[i].v : i \in Valid(a)}
AllNull(a) == Valid(a) = {}

\* What an array means: values behind null slots are not part of it.
Rows(a) == [i \in DOMAIN a |-> IF a[i].valid THEN <<a[i].v>> ELSE <<>>]
\* arrow's unary kernel, which also maps the values behind null slots.
MapValues(a, F(_)) == [i \in DOMAIN a |-> Slot(a[i].valid, F(a[i].v))]

\* arrow's filter kernel: the slots at which the selection is set.
Filter(a, selection) ==
  LET at == [i \in DOMAIN a |-> Cardinality({j \in 1 .. i : selection[j]})]
  IN  [n \in 1 .. Cardinality({i \in DOMAIN a : selection[i]}) |->
         a[CHOOSE i \in DOMAIN a : selection[i] /\ at[i] = n]]

\* A comparison of the engine; masks keep the nulls of their input.
Operators == {"Eq", "NotEq", "Lt", "LtEq", "Gt", "GtEq"}
Compare(op, v, k) ==
  CASE op = "Eq" -> v = k [] op = "NotEq" -> v # k [] op = "Lt" -> v < k
    [] op = "LtEq" -> v <= k [] op = "Gt" -> v > k [] op = "GtEq" -> v >= k
ApplyCmp(op, a, k) == [i \in DOMAIN a |-> IF a[i].valid THEN <<Compare(op, a[i].v, k)>> ELSE <<>>]

\* A predicate of the engine: what stands on its left side ("column" or a function
\* of the column), the operator and the literal.  A dynamic filter is the predicate
\* that it currently holds (unwrap_dynamic_filter).
Predicate(lhs, op, literal) == [lhs |-> lhs, op |-> op, literal |-> literal]

\* The answers of try_eval_predicate.
Mask(m) == [is |-> "mask", mask |-> m]
NotSupported == [is |-> "unsupported", mask |-> <<>>]   \* None
NeedsBacking == [is |-> "needs backing", mask |-> <<>>] \* Err(NeedsBacking)

-----------------------------------------------------------------------------

CONSTANT Chunk          \* values packed together (1024)

ASSUME ChunkAssumption == Chunk \in Nat \ {0}

\* get_bit_width: at least one bit.
GetBitWidth(max) == IF max = 0 THEN 1 ELSE CHOOSE w \in 1 .. 31 : 2 ^ (w - 1) <= max /\ max < 2 ^ w

NoWidth == 0            \* bit_width = None
NewNullArray(len) ==
  [width |-> NoWidth, len |-> len, packed |-> [i \in 1 .. len |-> 0],
   nulls |-> <<[i \in 1 .. len |-> FALSE]>>]

\* nulls is <<>> when the array has no null buffer, and holds the buffer otherwise.
NullsOf(a) == IF Valid(a) = DOMAIN a THEN <<>> ELSE <<[i \in DOMAIN a |-> a[i].valid]>>

RoundUp(n, unit) == ((n + unit - 1) \div unit) * unit
FromPrimitive(a, width) ==
  [width |-> width, len |-> Len(a), nulls |-> NullsOf(a),
   packed |-> [i \in 1 .. RoundUp(Len(a), Chunk) |-> IF i <= Len(a) THEN a[i].v % (2 ^ width) ELSE 0]]

IsValid(b, i) == b.nulls = <<>> \/ b.nulls[1][i]
ToPrimitive(b) ==
  IF b.width = NoWidth THEN [i \in 1 .. b.len |-> Slot(FALSE, 0)]
  ELSE [i \in 1 .. b.len |-> Slot(IsValid(b, i), b.packed[i])]

-----------------------------------------------------------------------------
\* The bytes: a header with the lengths, the null buffer if there is one, the
\* packed values.
ToBytes(b) ==
  [len |-> b.len, bitWidth |-> b.width, hasNulls |-> b.nulls # <<>>, nulls |-> b.nulls,
   values |-> b.packed]

FromBytes(bytes) ==
  LET allNull == bytes.hasNulls /\ \A i \in 1 .. bytes.len : ~bytes.nulls[1][i]
  IN  IF bytes.values = <<>> \/ allNull THEN NewNullArray(bytes.len)
      ELSE [width |-> bytes.bitWidth, len |-> bytes.len, nulls |-> bytes.nulls,
            packed |-> bytes.values]

-----------------------------------------------------------------------------
(* Integer arrays.                                                         *)

Integer == "Integer"                    \* LiquidDataType of the header
LinearInteger == "LinearInteger"
\* LiquidIPCHeader; magic and version are the same in every file.
Header(logical, physical) == [logical |-> logical, physical |-> physical]

\* An encoder that takes the width of the signed difference, without the detour
\* through the unsigned type that the comment asks for.
PrimitiveFromArrowSignedWidth(t, a) ==
  IF AllNull(a)
  THEN [kind |-> "primitive", type |-> t, ref |-> 0, packed |-> NewNullArray(Len(a))]
  ELSE LET min == Min(ValidValues(a))
           max == Max(ValidValues(a))
           width == GetBitWidth(Max({0, Wrap(t, max - min)}))
           Offset(v) == Wrap(Unsigned(t), v - min)
       IN  [kind |-> "primitive", type |-> t, ref |-> min,
            packed |-> FromPrimitive(MapValues(a, Offset), width)]

\* LiquidPrimitiveArray::from_arrow_array: the values of null slots are
\* subtracted and packed like the others.
PrimitiveFromArrow(t, a) ==
  IF AllNull(a)
  THEN [kind |-> "primitive", type |-> t, ref |-> 0, packed |-> NewNullArray(Len(a))]
  ELSE LET min == Min(ValidValues(a))
           max == Max(ValidValues(a))
           width == GetBitWidth(Wrap(Unsigned(t), max - min))
           Offset(v) == Wrap(Unsigned(t), v - min)
       IN  [kind |-> "primitive", type |-> t, ref |-> min,
            packed |-> FromPrimitive(MapValues(a, Offset), width)]

PrimitiveToArrow(l) ==
  LET Restore(u) == Wrap(l.type, u + l.ref) IN MapValues(ToPrimitive(l.packed), Restore)

PrimitiveToBytes(l) ==
  [header |-> Header(Integer, l.type), ref |-> l.ref, packed |-> ToBytes(l.packed)]
PrimitiveFromBytes(bytes) ==
  [kind |-> "primitive", type |-> bytes.header.physical, ref |-> bytes.ref, packed |-> FromBytes(bytes.packed)]

-----------------------------------------------------------------------------
\* LiquidPrimitiveDeltaArray.  The difference is taken in the native type and
\* widened to i64 before the zigzag, whose result is cut to the native width.
ZigZag(d) == IF d >= 0 THEN 2 * d ELSE -2 * d - 1
UnZigZag(z) == IF z % 2 = 0 THEN z \div 2 ELSE -((z + 1) \div 2)

First(a) == Min(Valid(a))
Previous(a, i) == Max({j \in Valid(a) : j < i})
Delta(t, a, i) ==
  IF ~a[i].valid \/ i = First(a) THEN 0
  ELSE Wrap(Unsigned(t), ZigZag(Wrap(I64, Wrap(t, a[i].v - a[Previous(a, i)].v))))

DeltaFromArrow(t, a) ==
  IF AllNull(a)
  THEN [kind |-> "delta", type |-> t, ref |-> 0, packed |-> NewNullArray(Len(a))]
  ELSE LET deltas == [i \in DOMAIN a |-> Slot(a[i].valid, Delta(t, a, i))]
       IN  [kind |-> "delta", type |-> t, ref |-> a[First(a)].v,
            packed |-> FromPrimitive(deltas, GetBitWidth(Max({deltas[i].v : i \in DOMAIN deltas})))]

\* A delta that is not a value of the type (from_i64(..).unwrap()) ends the read.
DeltaToArrow(l) ==
  LET p == ToPrimitive(l.packed)
      D(i) == UnZigZag(p[i].v)
      sum[i \in 0 .. Len(p)] ==
        IF i = 0 THEN l.ref ELSE IF p[i].valid THEN Wrap(l.type, sum[i - 1] + D(i)) ELSE sum[i - 1]
  IN  IF \A i \in Valid(p) : D(i) \in Natives(l.type)
      THEN [i \in DOMAIN p |-> Slot(p[i].valid, IF p[i].valid THEN sum[i] ELSE 0)]
      ELSE <<>>

\* Deltas are told apart from offsets by nothing in the bytes: the identifier
\* that is written is that of Integer.
DeltaToBytes(l) == [header |-> Header(Integer, l.type), ref |-> l.ref, packed |-> ToBytes(l.packed)]
DeltaFromBytes(bytes) ==
  [kind |-> "delta", type |-> bytes.header.physical, ref |-> bytes.ref, packed |-> FromBytes(bytes.packed)]

-----------------------------------------------------------------------------
\* LiquidLinearArray.  Slopes and intercepts are exact fractions over Scale,
\* which suits the lengths that are checked.
CONSTANT Iterations     \* MAX_ITERS of the bisection (8)

Scale == 6 * 2 ^ (Iterations + 2)
Position(i) == i - 1                    \* indexes start at 0

\* range_stats: the first positions at which the values least and most exceed m.
Excess(a, i, m) == a[i].v * Scale - m * Position(i)
Extremes(a, m) ==
  LET s == {Excess(a, i, m) : i \in Valid(a)}
  IN  [min |-> Min(s), max |-> Max(s),
       atMin |-> Min({i \in Valid(a) : Excess(a, i, m) = Min(s)}),
       atMax |-> Min({i \in Valid(a) : Excess(a, i, m) = Max(s)})]

\* fit_linf: bisection on the slope between the extreme neighbouring slopes.
\* The padding of equal ends is symmetric and is left out.
FitLinf(a) ==
  LET slopes == {((a[i].v - a[Previous(a, i)].v) * Scale) \div (i - Previous(a, i)) :
                   i \in Valid(a) \ {First(a)}}
      Narrow(r) ==
        LET m == (r.lo + r.hi) \div 2
            e == Extremes(a, m)
        IN  CASE r.lo = r.hi -> r
              [] e.atMin > e.atMax -> [lo |-> r.lo, hi |-> m]
              [] e.atMin < e.atMax -> [lo |-> m, hi |-> r.hi]
              [] OTHER -> [lo |-> m, hi |-> m]
      range[n \in 0 .. Iterations] ==
        IF n = 0 THEN [lo |-> Min(slopes), hi |-> Max(slopes)] ELSE Narrow(range[n - 1])
      slope == (range[Iterations].lo + range[Iterations].hi) \div 2
      e == Extremes(a, slope)
  IN  IF slopes = {} THEN [intercept |-> 2 * Scale * a[First(a)].v, slope |-> 0]
      ELSE [intercept |-> e.max + e.min, slope |-> 2 * slope]         \* over 2 * Scale

\* predict_i64_saturated, predict_u64_saturated: rounded half away from zero.
RoundOver(x, d) == IF x >= 0 THEN (2 * x + d) \div (2 * d) ELSE -((d - 2 * x) \div (2 * d))
Predict(t, line, i) == Saturate(t, RoundOver(line.slope * Position(i) + line.intercept, 2 * Scale))
ZeroLine == [intercept |-> 0, slope |-> 0]

\* Unsigned residuals keep 63 bits of the distance, signed ones wrap in i64.
Residual(t, v, p) ==
  IF t.signed THEN Wrap(I64, v - p)
  ELSE IF v >= p THEN (v - p) % (2 ^ (Wide - 1)) ELSE -((p - v) % (2 ^ (Wide - 1)))
Residuals(t, a, line) ==
  [i \in DOMAIN a |-> Slot(a[i].valid, IF a[i].valid THEN Residual(t, a[i].v, Predict(t, line, i)) ELSE 0)]
Spread(a) == Max(ValidValues(a)) - Min(ValidValues(a))

LinearFromArrow(t, a) ==
  LET line == IF AllNull(a) THEN ZeroLine ELSE FitLinf(a)
      kept == IF AllNull(a) \/ Spread(Residuals(t, a, line)) >= Spread(a) THEN ZeroLine ELSE line
  IN  [kind |-> "linear", type |-> t, line |-> kept,
       residuals |-> PrimitiveFromArrow(I64, Residuals(t, a, kept))]

LinearToArrow(l) ==
  LET r == PrimitiveToArrow(l.residuals)
      Restored(i) == Saturate(IF l.type.signed THEN I64 ELSE U64, Predict(l.type, l.line, i) + r[i].v)
  IN  [i \in DOMAIN r |-> Slot(r[i].valid, Restored(i))]

LinearToBytes(l) ==
  [header |-> Header(LinearInteger, l.type), line |-> l.line,
   residuals |-> PrimitiveToBytes(l.residuals)]
LinearFromBytes(bytes) ==
  [kind |-> "linear", type |-> bytes.header.physical, line |-> bytes.line,
   residuals |-> PrimitiveFromBytes(bytes.residuals)]

-----------------------------------------------------------------------------

CONSTANT SqueezeBits    \* narrower arrays are not squeezed (8)

ASSUME SqueezeAssumption == SqueezeBits \in Nat \ {0}

CanSqueeze(l) == l.packed.width # NoWidth /\ l.packed.width >= SqueezeBits
SqueezedWidth(l) == Max({l.packed.width \div 2, 1})
SentinelOf(width) == 2 ^ width - 1

SqueezeClamp(l) ==
  LET w == SqueezedWidth(l)
      Clamped(v) == Min({v, SentinelOf(w)})
  IN  [kind |-> "clamped", type |-> l.type, ref |-> l.ref,
       packed |-> FromPrimitive(MapValues(ToPrimitive(l.packed), Clamped), w)]

\* Bucket width: the least one for which the number of buckets suffices.
DivCeil(x, y) == (x + y - 1) \div y
SqueezeQuantize(l) ==
  LET w == SqueezedWidth(l)
      offsets == ToPrimitive(l.packed)
      maxOffset == Max({offsets[i].v : i \in DOMAIN offsets} \union {0})
      rangeSize == Min({maxOffset + 1, MaxOf(U64)})            \* saturating_add
      bucket == Max({DivCeil(rangeSize, 2 ^ w), 1})
      Bucket(v) == Min({v \div bucket, 2 ^ w - 1})
  IN  [kind |-> "quantized", type |-> l.type, ref |-> l.ref, bucket |-> bucket,
       packed |-> FromPrimitive(MapValues(offsets, Bucket), w)]

FilterInner(q, selection) ==
  [q EXCEPT !.packed = FromPrimitive(Filter(ToPrimitive(q.packed), selection), q.packed.width)]

-----------------------------------------------------------------------------
\* Clamped arrays.
KnownOnly(q) == \A i \in Valid(ToPrimitive(q.packed)) : q.packed.packed[i] # SentinelOf(q.packed.width)
ToArrowKnownOnly(q) == LET Restore(u) == Wrap(q.type, u + q.ref) IN MapValues(ToPrimitive(q.packed), Restore)

\* The sum of reference and sentinel is taken in i64 or u64.
SentAbs(q) == Wrap(IF q.type.signed THEN I64 ELSE U64, q.ref + SentinelOf(q.packed.width))
\* A clamp that treats Lt and GtEq like the others, one too generous for both.
ResolvesOnSentinelLoose(q, op, k) == k <= SentAbs(q)

ResolvesOnSentinel(q, op, k) ==
  IF op \in {"Lt", "GtEq"} THEN k <= SentAbs(q) ELSE k < SentAbs(q)
OnSentinel(op) == op \in {"NotEq", "Gt", "GtEq"}

ClampedEval(q, op, k) ==
  LET u == ToPrimitive(q.packed)
      Sentinel(i) == u[i].v = SentinelOf(q.packed.width)
      Answer(i) == IF Sentinel(i) THEN OnSentinel(op) ELSE Compare(op, Wrap(q.type, u[i].v + q.ref), k)
  IN  IF k \notin Natives(q.type) THEN NotSupported
      ELSE IF (\E i \in Valid(u) : Sentinel(i)) /\ ~ResolvesOnSentinel(q, op, k) THEN NeedsBacking
      ELSE Mask([i \in DOMAIN u |-> IF u[i].valid THEN <<Answer(i)>> ELSE <<>>])

-----------------------------------------------------------------------------
\* Quantized arrays: the bucket of the literal divides the others; in that
\* bucket only the ends decide.
BelowRef(op) == op \in {"NotEq", "Gt", "GtEq"}
LessSide(op) == op \in {"NotEq", "Lt", "LtEq"}
GreaterSide(op) == op \in {"NotEq", "Gt", "GtEq"}
DecidesInBucket(op, r, bucket) ==
  CASE op \in {"Eq", "NotEq"} -> FALSE
    [] op \in {"Lt", "GtEq"} -> r = 0
    [] OTHER -> r + 1 = bucket
InBucket(op) == op \in {"LtEq", "GtEq"}

QuantizedEval(q, op, k) ==
  LET b == ToPrimitive(q.packed)
      rel == Wrap(U64, k - q.ref)
      target == rel \div q.bucket
      Answer(i) ==
        CASE k < q.ref -> BelowRef(op)
          [] b[i].v < target -> LessSide(op)
          [] b[i].v > target -> GreaterSide(op)
          [] OTHER -> InBucket(op)
  IN  IF k \notin Natives(q.type) THEN NotSupported
      ELSE IF /\ k >= q.ref
              /\ \E i \in Valid(b) : b[i].v = target
              /\ ~DecidesInBucket(op, rel % q.bucket, q.bucket) THEN NeedsBacking
      ELSE Mask([i \in DOMAIN b |-> IF b[i].valid THEN <<Answer(i)>> ELSE <<>>])

-----------------------------------------------------------------------------
(***************************************************************************)
(* SqueezedDate32Array (squeezed_date32_array.rs): of a date or timestamp  *)
(* column only one calendar component stays in memory.  The calendar is    *)
(* computed from the number of days since 1970-01-01 without tables.       *)
(***************************************************************************)
CONSTANT TicksPerDay    \* ticks of the timestamp unit (86 400 and more)

Fields == {"Year", "Month", "Day", "DayOfWeek"}

\* The correction for the last day of an era left out.
YmdNoEraEnd(days) ==
  LET z == days + 719468
      era == z \div 146097
      doe == z - era * 146097
      yoe == (doe - doe \div 1460 + doe \div 36524) \div 365
      doy == doe - (365 * yoe + yoe \div 4 - yoe \div 100)
      mp == (5 * doy + 2) \div 153
      m == IF mp < 10 THEN mp + 3 ELSE mp - 9
  IN  [y |-> yoe + era * 400 + (IF m <= 2 THEN 1 ELSE 0), m |-> m,
       d |-> doy - (153 * mp + 2) \div 5 + 1]

\* ymd_from_epoch_days: years start in March, eras have 400 years.  \div rounds
\* down, as the code's two branches for the era do.
YmdFromEpochDays(days) ==
  LET z == days + 719468
      era == z \div 146097
      doe == z - era * 146097
      yoe == (doe - doe \div 1460 + doe \div 36524 - doe \div 146096) \div 365
      doy == doe - (365 * yoe + yoe \div 4 - yoe \div 100)
      mp == (5 * doy + 2) \div 153
      m == IF mp < 10 THEN mp + 3 ELSE mp - 9
  IN  [y |-> yoe + era * 400 + (IF m <= 2 THEN 1 ELSE 0), m |-> m,
       d |-> doy - (153 * mp + 2) \div 5 + 1]

YmdToEpochDays(year, month, day) ==
  LET y == IF month <= 2 THEN year - 1 ELSE year
      era == y \div 400
      yoe == y - era * 400
      mp == IF month > 2 THEN month - 3 ELSE month + 9
      doy == (153 * mp + 2) \div 5 + day - 1
  IN  era * 146097 + yoe * 365 + yoe \div 4 - yoe \div 100 + doy - 719468

DayOfWeek(days) == (days + 4) % 7                       \* rem_euclid; Sunday = 0
Component(field, days) ==
  LET ymd == YmdFromEpochDays(days)
  IN  CASE field = "Year" -> ymd.y [] field = "Month" -> ymd.m [] field = "Day" -> ymd.d
        [] field = "DayOfWeek" -> DayOfWeek(days)

\* timestamp_to_days_since_epoch: div_euclid, so that times before 1970 belong
\* to the day they fall on.
TimestampToDays(ticks) == ticks \div TicksPerDay

\* from_liquid_date32 and from_liquid_timestamp: placeholders behind nulls.
SqueezeDate(l, isTimestamp, field) ==
  LET a == PrimitiveToArrow(l)
      comp == [i \in Valid(a) |->
                 Component(field, IF isTimestamp THEN TimestampToDays(a[i].v) ELSE a[i].v)]
      min == Min({comp[i] : i \in Valid(a)})
      max == Max({comp[i] : i \in Valid(a)})
      offsets == [i \in DOMAIN a |-> Slot(a[i].valid, IF a[i].valid THEN comp[i] - min ELSE 0)]
  IN  IF AllNull(a) THEN [kind |-> "date", field |-> field, ref |-> 0, packed |-> NewNullArray(Len(a))]
      ELSE [kind |-> "date", field |-> field, ref |-> min,
            packed |-> FromPrimitive(offsets, GetBitWidth(max - min))]

\* to_component_date32, to_component_timestamp
ToComponentArray(q) == LET Restore(u) == u + q.ref IN MapValues(ToPrimitive(q.packed), Restore)

\* to_arrow_date32_lossy: some date with the component.
LossyDate(field, c) ==
  CASE field = "Year" -> YmdToEpochDays(c, 1, 1)
    [] field = "Month" -> YmdToEpochDays(1970, c, 1)
    [] field = "Day" -> YmdToEpochDays(1970, 1, c)
    [] field = "DayOfWeek" -> YmdToEpochDays(1970, 1, 4) + c
=============================================================================
