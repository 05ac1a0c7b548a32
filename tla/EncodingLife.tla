---------------------------- MODULE EncodingLife ----------------------------
(***************************************************************************)
(* The life of one column batch through its encodings: transcoded from     *)
(* Arrow, written to disk and read back through the IPC header, squeezed   *)
(* with its bytes on disk, and hydrated again.                             *)
(***************************************************************************)
EXTENDS FloatArrays, ByteArrays

CONSTANT MillisPerSecond        \* the unit of Date64 (1000)

VARIABLES column,       \* the type and encoding of the column, and the squeeze policy
          array,        \* the Arrow array that was given
          form,         \* "arrow", "liquid", "squeezed" or "disk"
          held,         \* what is in memory
          file          \* the bytes on disk, <<>> or <<bytes>>

vars == <<column, array, form, held, file>>

\* with_fsst_compressor_or_train: the first batch of a column trains its
\* compressor, from decimals with the values of null slots.
CompressorOf(c, a) ==
  IF c.compressor # <<>> THEN c.compressor[1]
  ELSE IF c.encoding = "fixed" THEN Train({ToLeBytes(WidthOf(c.type), a[i].v) : i \in DOMAIN a})
  ELSE Train(ValidValues(a))

\* A dictionary array that repeats values and has one that no row uses.
GivenDict(a) ==
  [keys |-> [i \in DOMAIN a |-> Slot(a[i].valid, IF a[i].valid THEN i ELSE 0)],
   values |-> [n \in 1 .. Len(a) + 1 |-> IF n > 1 /\ a[n - 1].valid THEN a[n - 1].v ELSE <<1>>]]

\* A known compressor takes a dictionary as it is (from_unique_dict_array), a
\* training run makes its values unique first (new_checked).
DictFor(c, a) == IF c.layout = "dictionary" /\ c.compressor # <<>> THEN GivenDict(a) ELSE DictOf(a)

\* transcode_liquid_inner_with_hint, by type; delta and linear arrays and
\* LiquidByteArrays are built by callers of the library.
TranscodeNumbers(c, a) ==
  CASE c.encoding = "primitive" -> PrimitiveFromArrow(c.type, a)
    [] c.encoding = "delta" -> DeltaFromArrow(c.type, a)
    [] c.encoding = "linear" -> LinearFromArrow(c.type, a)
    [] c.encoding = "float" -> FloatFromArrow(a)
    [] c.encoding = "fixed" -> FixedFromArrow(c.type, a, CompressorOf(c, a))
TranscodeLiquid(c, a, hint) ==
  CASE c.encoding = "view" -> ViewFromDict(DictFor(c, a), c.type, CompressorOf(c, a), hint = "substring")
    [] c.encoding = "bytes" -> ByteFromDict(DictOf(a), c.type, CompressorOf(c, a))
    [] OTHER -> TranscodeNumbers(c, a)

ToArrowArray(l) ==
  CASE l.kind = "primitive" -> PrimitiveToArrow(l) [] l.kind = "delta" -> DeltaToArrow(l)
    [] l.kind = "linear" -> LinearToArrow(l) [] l.kind = "float" -> FloatToArrow(l)
    [] l.kind = "bytes" -> ByteToArrow(l) [] l.kind = "fixed" -> FixedToArrow(l)
    [] l.kind = "view" -> ViewToArrow(l)

BytesOf(l) ==
  CASE l.kind = "primitive" -> PrimitiveToBytes(l) [] l.kind = "delta" -> DeltaToBytes(l)
    [] l.kind = "linear" -> LinearToBytes(l) [] l.kind = "float" -> FloatToBytes(l)
    [] l.kind = "bytes" -> ByteToBytes(l) [] l.kind = "fixed" -> FixedToBytes(l)
    [] l.kind = "view" -> ViewToBytes(l)

\* ipc::read_from_bytes: the logical type of the header chooses the decoder, and
\* the compressor comes from the column.
ReadFromBytes(bytes, compressor) ==
  CASE bytes.header.logical = Integer -> PrimitiveFromBytes(bytes)
    [] bytes.header.logical = LinearInteger -> LinearFromBytes(bytes)
    [] bytes.header.logical = "Float" -> FloatFromBytes(bytes)
    [] bytes.header.logical = "ByteArray" -> ByteFromBytes(bytes, compressor)
    [] bytes.header.logical = "FixedLenByteArray" -> FixedFromBytes(bytes, compressor)
    [] bytes.header.logical = "ByteViewArray" -> ViewFromBytes(bytes, compressor)

\* A delta array is read by its own from_bytes.
ReadBack(c, a, bytes) ==
  IF c.encoding = "delta" THEN DeltaFromBytes(bytes) ELSE ReadFromBytes(bytes, CompressorOf(c, a))

-----------------------------------------------------------------------------
\* LiquidArray::squeeze: <<>> or <<squeezed>>.  Integers need some hint; dates and
\* timestamps one that names a component.
IsCalendar(c) == c.calendar # "none"
SqueezeOf(c, l, hint) ==
  CASE l.kind \in {"delta", "linear", "bytes", "fixed"} -> <<>>
    [] l.kind = "view" -> IF hint = "none" THEN <<>> ELSE <<SqueezeView(l, hint)>>
    [] l.kind = "float" -> IF CanSqueeze(l) THEN <<SqueezeFloat(l)>> ELSE <<>>
    [] l.kind = "primitive" /\ IsCalendar(c) ->
         IF hint \in Fields THEN <<SqueezeDate(l, c.calendar = "timestamp", hint)>> ELSE <<>>
    [] OTHER ->
         IF hint = "none" \/ ~CanSqueeze(l) THEN <<>>
         ELSE IF c.policy = "Clamp" THEN <<SqueezeClamp(l)>> ELSE <<SqueezeQuantize(l)>>

\* hydrate_full_arrow
CompressorIn(q) == IF q.kind = "disk view" THEN q.values.compressor ELSE <<>>
Hydrated(q, bytes) == ToArrowArray(ReadFromBytes(bytes, CompressorIn(q)))

SqueezedToArrow(q, bytes) ==
  IF q.kind = "clamped" /\ KnownOnly(q) THEN ToArrowKnownOnly(q) ELSE Hydrated(q, bytes)

\* A filter that looks for sentinels in the whole array, and reads only the
\* selected rows when it finds none.
SqueezedFilterUnchecked(q, bytes, selection) ==
  IF \A i \in DOMAIN selection : ~selection[i] THEN <<>>
  ELSE IF q.kind = "clamped" THEN ToArrowKnownOnly(FilterInner(q, selection))
  ELSE Filter(Hydrated(q, bytes), selection)

SqueezedFilter(q, bytes, selection) ==
  IF \A i \in DOMAIN selection : ~selection[i] THEN <<>>
  ELSE IF q.kind = "clamped" /\ KnownOnly(FilterInner(q, selection))
  THEN ToArrowKnownOnly(FilterInner(q, selection))
  ELSE IF q.kind = "disk view"
  THEN DecodedRows(FilterKeys(q, selection).keys, ValuesOf(q, bytes))
  ELSE Filter(Hydrated(q, bytes), selection)

\* The seconds of a date in milliseconds, rounded towards zero by arrow's cast;
\* integers are seconds already.
Seconds(t, v) ==
  IF t # Date64 THEN v ELSE IF v < 0 THEN -(-v \div MillisPerSecond) ELSE v \div MillisPerSecond

\* predicate_lhs_kind, can_eval_to_timestamp_seconds_direct
PredicateLhsKinds == {"column", "to_timestamp_seconds"}
CanEvalWithoutCast(q, p) == p.lhs = "column" \/ q.type # Date64
CastLhs(q, p, a) ==
  LET Cast(v) == IF p.lhs = "column" THEN v ELSE Seconds(q.type, v) IN MapValues(a, Cast)

\* try_eval_predicate: on the squeezed rows if they decide, else on the hydrated.
\* Integers look at the left side, and refuse what they do not know.
FullRows(q, bytes, selection) == Filter(Hydrated(q, bytes), selection)
OrFull(inner, full) == IF inner = NeedsBacking THEN full ELSE inner
IntegerPredicate(q, bytes, p, selection) ==
  LET rows == FilterInner(q, selection)
      inner == IF q.kind = "clamped" THEN ClampedEval(rows, p.op, p.literal) ELSE QuantizedEval(rows, p.op, p.literal)
      full == Mask(ApplyCmp(p.op, CastLhs(q, p, FullRows(q, bytes, selection)), p.literal))
  IN  CASE p.lhs \notin PredicateLhsKinds -> NotSupported
        [] CanEvalWithoutCast(q, p) -> OrFull(inner, full)
        [] OTHER -> full
\* Floats take any left side for the column.
FloatPredicate(q, bytes, p, selection) ==
  OrFull(FloatEval(FilterInner(q, selection), p.op, p.literal),
         Mask(ApplyFloatCmp(p.op, FullRows(q, bytes, selection), p.literal)))
NumberPredicate(q, bytes, p, selection) ==
  CASE q.kind \in {"clamped", "quantized"} -> IntegerPredicate(q, bytes, p, selection)
    [] q.kind = "float quantized" -> FloatPredicate(q, bytes, p, selection)
    [] q.kind = "date" -> NotSupported

StringPredicate(l, bytes, p, selection) ==
  IF l.kind = "bytes" THEN ByteEval(ByteFilter(l, selection), p)
  ELSE ViewEval(FilterKeys(l, selection), bytes, p)

-----------------------------------------------------------------------------
Become(f, h, d) == form' = f /\ held' = h /\ file' = d /\ UNCHANGED <<column, array>>

Transcode(hint) == form = "arrow" /\ Become("liquid", TranscodeLiquid(column, array, hint), file)
WriteOut == form = "liquid" /\ Become("disk", <<>>, <<BytesOf(held)>>)
ReadIn == form \in {"disk", "squeezed"} /\ Become("liquid", ReadBack(column, array, file[1]), file)
Squeeze(hint) ==
  /\ form = "liquid"
  /\ SqueezeOf(column, held, hint) # <<>>
  /\ Become("squeezed", SqueezeOf(column, held, hint)[1], <<BytesOf(held)>>)
Evict == form = "squeezed" /\ Become("disk", <<>>, file)

Hints == Fields \union {"none", "predicate", "substring"}
Next == WriteOut \/ ReadIn \/ Evict \/ \E hint \in Hints : Transcode(hint) \/ Squeeze(hint)
=============================================================================
