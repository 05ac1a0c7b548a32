----------------------------- MODULE ByteArrays -----------------------------
(***************************************************************************)
(* Byte strings in a dictionary: the distinct values of an array           *)
(* (utils/mod.rs), compressed with FSST one after the other, and the       *)
(* offsets of the values as residuals of a fitted line                     *)
(* (raw/fsst_buffer.rs); LiquidByteArray (byte_array.rs), strings as bit-  *)
(* packed keys into such a dictionary, and LiquidFixedLenByteArray         *)
(* (fix_len_byte_array.rs), decimals in the same way; and                  *)
(* LiquidByteViewArray.  A byte string is a sequence of numbers.           *)
(***************************************************************************)
EXTENDS PrimitiveArrays

CONSTANTS SmallResidual, MidResidual    \* bits of i8 and i16

\* The symbol table of the FSST library, as far as this code relies on it: bytes
\* of the plain text are escaped unless they start a symbol, so that compressed
\* lengths vary, and the text is restored by the same table only.
Escape == 9
SymbolCode == 8
Train(sample) ==
  LET long == {s \in sample : Len(s) >= 2}
  IN  IF long = {} THEN <<>> ELSE LET s == CHOOSE s \in long : TRUE IN <<s[1], s[2]>>
Compress(compressor, s) ==
  LET rest[i \in 1 .. Len(s) + 1] ==
        IF i > Len(s) THEN <<>>
        ELSE IF compressor # <<>> /\ i < Len(s) /\ SubSeq(s, i, i + 1) = compressor
        THEN <<SymbolCode>> \o rest[i + 2]
        ELSE <<Escape, s[i]>> \o rest[i + 1]
  IN  rest[1]
Decompress(compressor, codes) ==
  LET rest[i \in 1 .. Len(codes) + 1] ==
        IF i > Len(codes) THEN <<>>
        ELSE IF codes[i] = SymbolCode THEN compressor \o rest[i + 1]
        ELSE <<codes[i + 1]>> \o rest[i + 2]
  IN  rest[1]

-----------------------------------------------------------------------------
\* fit_line: least squares in exact arithmetic, rounded half away from zero.
FitLine(offsets) ==
  LET n == Len(offsets)
      X == 1 .. n
      sumX == (n * (n - 1)) \div 2
      sumY == MapThenSumSet(LAMBDA i : offsets[i], X)
      sumXY == MapThenSumSet(LAMBDA i : Position(i) * offsets[i], X)
      sumXX == (n * (n - 1) * (2 * n - 1)) \div 6
      num == n * sumXY - sumX * sumY
      den == n * sumXX - sumX * sumX
  IN  IF n <= 1 THEN [slope |-> 0, intercept |-> IF n = 0 THEN 0 ELSE offsets[1]]
      ELSE [slope |-> RoundOver(num, den), intercept |-> RoundOver(sumY * den - num * sumX, n * den)]

Residuals4(line, offsets) ==
  [i \in DOMAIN offsets |-> offsets[i] - (line.slope * Position(i) + line.intercept)]
FitsIn(bits, residuals) == \A i \in DOMAIN residuals : residuals[i] \in Natives(Type(TRUE, bits))

OffsetBytes(residuals) ==
  IF FitsIn(SmallResidual, residuals) THEN 1 ELSE IF FitsIn(MidResidual, residuals) THEN 2 ELSE 4

\* CompactOffsets::from_offsets: residuals are cast to the width that was chosen.
CompactOffsets(offsets) ==
  LET line == FitLine(offsets)
      r == Residuals4(line, offsets)
      bytes == OffsetBytes(r)
      Cast(x) == CASE bytes = 1 -> Wrap(Type(TRUE, SmallResidual), x)
                   [] bytes = 2 -> Wrap(Type(TRUE, MidResidual), x) [] OTHER -> x
  IN  [line |-> line, bytes |-> bytes, residuals |-> [i \in DOMAIN r |-> Cast(r[i])]]
GetOffset(compact, index) ==            \* indexes start at 0
  compact.line.slope * index + compact.line.intercept + compact.residuals[index + 1]

-----------------------------------------------------------------------------
\* RawFsstBuffer::from_byte_slices and FsstArray::from_byte_offsets
FsstFromSlices(strings, compressor) ==
  LET codes == [i \in DOMAIN strings |-> Compress(compressor, strings[i])]
      ends[i \in 0 .. Len(strings)] == IF i = 0 THEN 0 ELSE ends[i - 1] + Len(codes[i])
      values[i \in 0 .. Len(strings)] == IF i = 0 THEN <<>> ELSE values[i - 1] \o codes[i]
  IN  [compressor |-> compressor, values |-> values[Len(strings)],
       uncompressed |-> MapThenSumSet(LAMBDA i : Len(strings[i]), DOMAIN strings),
       offsets |-> CompactOffsets([i \in 1 .. Len(strings) + 1 |-> ends[i - 1]])]

FsstLen(f) == Len(f.offsets.residuals) - 1
GetCompressedSlice(f, index) ==
  SubSeq(f.values, GetOffset(f.offsets, index) + 1, GetOffset(f.offsets, index + 1))
ToUncompressedSelected(f, selected) ==
  [n \in DOMAIN selected |-> Decompress(f.compressor, GetCompressedSlice(f, selected[n]))]
ToUncompressed(f) == ToUncompressedSelected(f, [n \in 1 .. FsstLen(f) |-> n - 1])

\* The bytes do not carry the compressor: the reader supplies the column's.
FsstToBytes(f) == [uncompressed |-> f.uncompressed, values |-> f.values, offsets |-> f.offsets]
FsstFromBytes(bytes, compressor) ==
  [compressor |-> compressor, values |-> bytes.values, uncompressed |-> bytes.uncompressed,
   offsets |-> bytes.offsets]

-----------------------------------------------------------------------------
\* byte_array_to_dict_array, decimal_array_to_dict_array: distinct values in the
\* order in which they appear; a null has the key 0.
DictOf(a) ==
  LET firsts == {i \in Valid(a) : \A j \in Valid(a) : a[j].v = a[i].v => i <= j}
      KeyOf(v) == LET at == CHOOSE i \in firsts : a[i].v = v IN Cardinality({i \in firsts : i < at})
      distinct == Filter(a, [i \in DOMAIN a |-> i \in firsts])
  IN  [keys |-> [i \in DOMAIN a |-> Slot(a[i].valid, IF a[i].valid THEN KeyOf(a[i].v) ELSE 0)],
       values |-> [n \in DOMAIN distinct |-> distinct[n].v]]

\* The rows that keys into a sequence of values stand for.
DictRows(keys, values) ==
  [i \in DOMAIN keys |-> Slot(keys[i].valid, IF keys[i].valid THEN values[keys[i].v + 1] ELSE <<>>)]

\* build_dict_selection: the values that are used, and the keys among them.
BuildDictSelection(keys, dictLen) ==
  LET hit == {k \in 0 .. dictLen - 1 : \E i \in Valid(keys) : keys[i].v = k}
      all == [n \in 1 .. dictLen |-> Slot(TRUE, n - 1)]
      used == Filter(all, [n \in 1 .. dictLen |-> n - 1 \in hit])
  IN  [selected |-> [n \in DOMAIN used |-> used[n].v],
       keys |-> [i \in DOMAIN keys |->
                   Slot(keys[i].valid, IF keys[i].valid THEN Cardinality({k \in hit : k < keys[i].v}) ELSE 0)]]

-----------------------------------------------------------------------------

CONSTANTS KeyedBelow,   \* rows from which the whole dictionary is decompressed (2048)
          ByteBase,     \* values of a byte (256)
          DecimalWidth  \* bytes of the short decimal (16); the long one has one more here (32)

\* Only the values that are used are decompressed when rows are few.
DecompressKeyed(rows, dictLen) == rows < KeyedBelow \/ rows < dictLen
\* to_dict_arrow_decompress_keyed, to_dict_arrow_decompress_all
DecodedRows(keys, fsst) ==
  LET chosen == BuildDictSelection(keys, FsstLen(fsst))
  IN  IF DecompressKeyed(Len(keys), FsstLen(fsst))
      THEN DictRows(chosen.keys, ToUncompressedSelected(fsst, chosen.selected))
      ELSE DictRows(keys, ToUncompressed(fsst))

ByteFromDict(dict, type, compressor) ==
  [kind |-> "bytes", type |-> type, values |-> FsstFromSlices(dict.values, compressor),
   keys |-> FromPrimitive(dict.keys, GetBitWidth(Len(dict.values)))]
ByteToArrow(l) == DecodedRows(ToPrimitive(l.keys), l.values)
ByteToBytes(l) ==
  [header |-> Header("ByteArray", l.type), keys |-> ToBytes(l.keys), values |-> FsstToBytes(l.values)]
ByteFromBytes(bytes, compressor) ==
  [kind |-> "bytes", type |-> bytes.header.physical, values |-> FsstFromBytes(bytes.values, compressor),
   keys |-> FromBytes(bytes.keys)]

\* filter_inner: the dictionary is kept, the keys are packed again.
ByteFilter(l, selection) ==
  LET keys == Filter(ToPrimitive(l.keys), selection)
  IN  [l EXCEPT !.keys = IF l.keys.width = NoWidth THEN NewNullArray(Len(keys))
                         ELSE FromPrimitive(keys, l.keys.width)]

-----------------------------------------------------------------------------
\* Byte strings are ordered like slices in Rust.
Before(s, t) ==
  \/ Len(s) < Len(t) /\ SubSeq(t, 1, Len(s)) = s
  \/ \E i \in 1 .. Min({Len(s), Len(t)}) :
       SubSeq(s, 1, i - 1) = SubSeq(t, 1, i - 1) /\ s[i] < t[i]
CompareBytes(op, s, t) ==
  CASE op = "Eq" -> s = t [] op = "NotEq" -> s # t
    [] op = "Lt" -> Before(s, t) [] op = "LtEq" -> s = t \/ Before(s, t)
    [] op = "Gt" -> Before(t, s) [] op = "GtEq" -> s = t \/ Before(t, s)
ApplyBytesCmp(op, a, k) ==
  [i \in DOMAIN a |-> IF a[i].valid THEN <<CompareBytes(op, a[i].v, k)>> ELSE <<>>]

\* try_eval_predicate_inner of a LiquidByteArray: equality looks the needle up
\* among the compressed values, the rest is Arrow's.  The predicate's left side is
\* taken for the column.
ByteCompareEquals(l, needle) ==
  LET keys == ToPrimitive(l.keys)
      at == {i \in 0 .. FsstLen(l.values) - 1 :
               GetCompressedSlice(l.values, i) = Compress(l.values.compressor, needle)}
  IN  [i \in DOMAIN keys |->
         IF keys[i].valid THEN <<at # {} /\ keys[i].v = Min(at)>> ELSE <<>>]
NotMask(m) == [i \in DOMAIN m |-> IF m[i] = <<>> THEN <<>> ELSE <<~m[i][1]>>]
ByteEval(l, p) ==
  Mask(CASE p.op = "Eq" -> ByteCompareEquals(l, p.literal)
         [] p.op = "NotEq" -> NotMask(ByteCompareEquals(l, p.literal))
         [] OTHER -> ApplyBytesCmp(p.op, ByteToArrow(l), p.literal))

-----------------------------------------------------------------------------
\* Decimals: little-endian two's complement of a fixed width.
ToLeBytes(width, v) ==
  LET u == v % (ByteBase ^ width) IN [i \in 1 .. width |-> (u \div (ByteBase ^ (i - 1))) % ByteBase]
FromLeBytes(s) ==
  LET u == MapThenSumSet(LAMBDA i : s[i] * (ByteBase ^ (i - 1)), DOMAIN s)
  IN  IF 2 * u >= ByteBase ^ Len(s) THEN u - ByteBase ^ Len(s) ELSE u
WidthOf(type) == IF type = "Decimal128" THEN DecimalWidth ELSE DecimalWidth + 1
MaxDecimal(type) == ByteBase ^ WidthOf(type) \div 2 - 1

FixedFromArrow(type, a, compressor) ==
  LET dict == DictOf(a)
      slices == [n \in DOMAIN dict.values |-> ToLeBytes(WidthOf(type), dict.values[n])]
  IN  [kind |-> "fixed", type |-> type, values |-> FsstFromSlices(slices, compressor),
       keys |-> FromPrimitive(dict.keys, GetBitWidth(Len(dict.values)))]
FixedToArrow(l) ==
  LET rows == DecodedRows(ToPrimitive(l.keys), l.values)
  IN  [i \in DOMAIN rows |-> Slot(rows[i].valid, IF rows[i].valid THEN FromLeBytes(rows[i].v) ELSE 0)]
FixedToBytes(l) ==
  [header |-> Header("FixedLenByteArray", l.type), keys |-> ToBytes(l.keys),
   values |-> FsstToBytes(l.values)]
FixedFromBytes(bytes, compressor) ==
  [kind |-> "fixed", type |-> bytes.header.physical, values |-> FsstFromBytes(bytes.values, compressor),
   keys |-> FromBytes(bytes.keys)]
-----------------------------------------------------------------------------
(***************************************************************************)
(* LiquidByteViewArray (liquid_array/byte_view_array/): strings as keys    *)
(* into a compressed dictionary, with the prefix that all values share,    *)
(* the first bytes and the length of the rest of each value, and optional  *)
(* fingerprints of its bytes.  Squeezed, only the compressed values go to  *)
(* disk, and predicates are answered from what is left where it decides.   *)
(***************************************************************************)
CONSTANTS PrefixLen,    \* bytes of a prefix key (7)
          LenCap,       \* length that stands for itself and all greater ones (255)
          Buckets       \* bits of a fingerprint (32)

Percent == 6
Underscore == 7

Minimum(m, n) == Min({m, n})
Take(s, n) == SubSeq(s, 1, n)
Drop(s, n) == SubSeq(s, n + 1, Len(s))

\* PrefixKey::new: the first bytes, padded with zeros, and the capped length.
PrefixKey(suffix) ==
  [prefix |-> [i \in 1 .. PrefixLen |-> IF i <= Len(suffix) THEN suffix[i] ELSE 0],
   len |-> Minimum(LenCap, Len(suffix))]
SharedPrefix(values) ==
  IF values = <<>> THEN <<>>
  ELSE Take(values[1], Max({n \in 0 .. Len(values[1]) :
         \A i \in DOMAIN values : n <= Len(values[i]) /\ Take(values[i], n) = Take(values[1], n)}))

\* StringFingerprint::from_bytes
Fingerprint(s) == {s[i] % Buckets : i \in DOMAIN s}
Fingerprints(values) == [n \in DOMAIN values |-> Fingerprint(values[n])]

\* from_dict_array_inner
ViewFromDict(dict, type, compressor, withFingerprints) ==
  LET shared == SharedPrefix(dict.values)
  IN  [kind |-> "view", type |-> type, keys |-> dict.keys, shared |-> shared,
       prefixKeys |-> [n \in DOMAIN dict.values |-> PrefixKey(Drop(dict.values[n], Len(shared)))],
       values |-> FsstFromSlices(dict.values, compressor),
       fingerprints |-> IF withFingerprints THEN <<Fingerprints(dict.values)>> ELSE <<>>]

ViewToArrow(l) == DecodedRows(l.keys, l.values)

\* Keys are packed with 16 bits; fingerprints of size zero read back as none.
ViewToBytes(l) ==
  [header |-> Header("ByteViewArray", l.type), keys |-> ToBytes(FromPrimitive(l.keys, 16)),
   values |-> FsstToBytes(l.values), prefixKeys |-> l.prefixKeys, shared |-> l.shared,
   fingerprints |-> IF l.fingerprints = <<>> THEN <<>> ELSE l.fingerprints[1]]
ViewFromBytes(bytes, compressor) ==
  [kind |-> "view", type |-> bytes.header.physical, keys |-> ToPrimitive(FromBytes(bytes.keys)),
   shared |-> bytes.shared, prefixKeys |-> bytes.prefixKeys,
   values |-> FsstFromBytes(bytes.values, compressor),
   fingerprints |-> IF bytes.fingerprints = <<>> THEN <<>> ELSE <<bytes.fingerprints>>]

\* squeeze: a disk buffer, which keeps the compressor, takes the place of the values.
SqueezeView(l, hint) ==
  [l EXCEPT !.kind = "disk view", !.values = [compressor |-> l.values.compressor],
            !.fingerprints = IF hint # "substring" THEN <<>>
                             ELSE IF l.fingerprints # <<>> THEN l.fingerprints
                             ELSE <<Fingerprints(ToUncompressed(l.values))>>]

FilterKeys(l, selection) == [l EXCEPT !.keys = Filter(l.keys, selection)]
\* The compressed values, in memory or read through the disk buffer.
ValuesOf(l, bytes) ==
  IF l.kind = "view" THEN l.values ELSE ViewFromBytes(bytes, l.values.compressor).values

-----------------------------------------------------------------------------
\* A step of a comparison decides some dictionary entries and leaves others to
\* their full values: results has one Boolean for each entry, ambiguous is the
\* set of the undecided ones.
Outcome(results, ambiguous) == [results |-> results, ambiguous |-> ambiguous]
Entries(l) == DOMAIN l.prefixKeys
AllEntries(l, answer) == [n \in Entries(l) |-> answer]

\* An equality without the length: a value that only starts with the needle matches.
EqualsWithPrefixNoLength(l, needle) ==
  LET suffix == Drop(needle, Len(l.shared))
      m == Minimum(PrefixLen, Len(suffix))
      matching == {n \in Entries(l) : Take(l.prefixKeys[n].prefix, m) = Take(suffix, m)}
      short == {n \in matching : Len(suffix) <= PrefixLen}
  IN  IF Len(needle) < Len(l.shared) \/ Take(needle, Len(l.shared)) # l.shared
      THEN Outcome(AllEntries(l, FALSE), {})
      ELSE Outcome([n \in Entries(l) |-> n \in short], matching \ short)

\* compare_equals_with_prefix (and, in memory, compare_equals): the length must
\* agree, a short value is compared by its prefix, a long one is left open.
EqualsWithPrefix(l, needle) ==
  LET shared == Len(l.shared)
      suffix == Drop(needle, shared)
      SameLength(n) == IF l.prefixKeys[n].len = LenCap THEN Len(suffix) >= LenCap
                       ELSE l.prefixKeys[n].len = Len(suffix)
      SamePrefix(n) == LET m == Minimum(PrefixLen, Len(suffix))
                       IN  Take(l.prefixKeys[n].prefix, m) = Take(suffix, m)
      matching == {n \in Entries(l) : SameLength(n) /\ SamePrefix(n)}
      short == {n \in matching : l.prefixKeys[n].len <= PrefixLen}
  IN  IF Len(needle) < shared \/ Take(needle, shared) # l.shared
      THEN Outcome(AllEntries(l, FALSE), {})
      ELSE Outcome([n \in Entries(l) |-> n \in short], matching \ short)

\* compare_with_shared_prefix: <<>> when the shared prefix decides nothing.
SharedPrefixDecides(l, op, needle) ==
  LET m == Minimum(Len(needle), Len(l.shared))
      mine == Take(l.shared, m)
      other == Take(needle, m)
      less == op \in {"Lt", "LtEq"}
  IN  CASE Before(mine, other) -> <<less>>
        [] Before(other, mine) -> <<~less>>
        [] OTHER -> IF Len(needle) < Len(l.shared) THEN <<~less>> ELSE <<>>

\* compare_with_prefix.  When the shared prefix decides, the answer is repeated
\* for each row, not for each entry.
OrderWithPrefix(l, op, needle) ==
  LET suffix == Drop(needle, Len(l.shared))
      m == Minimum(Len(suffix), PrefixLen)
      decision == SharedPrefixDecides(l, op, needle)
      Empty(n) == l.prefixKeys[n].len = 0
      OfEmptyNeedle(n) ==
        CASE op = "Lt" -> FALSE [] op = "LtEq" -> Empty(n) [] op = "Gt" -> ~Empty(n) [] op = "GtEq" -> TRUE
      Prefix(n) == Take(l.prefixKeys[n].prefix, m)
  IN  CASE decision # <<>> -> Outcome([n \in DOMAIN l.keys |-> decision[1]], {})
        [] decision = <<>> /\ m = 0 -> Outcome([n \in Entries(l) |-> OfEmptyNeedle(n)], {})
        [] OTHER ->
             Outcome([n \in Entries(l) |->
                        IF op \in {"Lt", "LtEq"} THEN Before(Prefix(n), Take(suffix, m))
                        ELSE Before(Take(suffix, m), Prefix(n))],
                     {n \in Entries(l) : Prefix(n) = Take(suffix, m)})

-----------------------------------------------------------------------------
\* substring_pattern_bytes: what is between two percent signs, without wildcards.
SubstringPattern(pattern) ==
  LET inner == SubSeq(pattern, 2, Len(pattern) - 1)
  IN  IF /\ Len(pattern) > 2 /\ pattern[1] = Percent /\ pattern[Len(pattern)] = Percent
         /\ \A i \in DOMAIN inner : inner[i] \notin {Percent, Underscore}
      THEN <<inner>> ELSE <<>>

HasSubstring(s, t) == \E i \in 1 .. Len(s) - Len(t) + 1 : SubSeq(s, i, i + Len(t) - 1) = t

\* compute_fingerprint_candidates
FingerprintCandidates(l, needle) ==
  {n \in DOMAIN l.fingerprints[1] : Fingerprint(needle) \subseteq l.fingerprints[1][n]}

\* compare_like_substring and apply_like_match_on_candidates: the negation is
\* applied together with the matches of the candidates.
LikeSubstring(l, values, op, needle) ==
  LET candidates == FingerprintCandidates(l, needle)
      Matches(n) == HasSubstring(ToUncompressed(values)[n], needle)
      found == {n \in candidates : Matches(n)}
  IN  IF candidates = {} THEN AllEntries(l, FALSE)
      ELSE [n \in Entries(l) |-> IF op = "Like" THEN n \in found ELSE n \notin found]

-----------------------------------------------------------------------------
OutOfBounds == [is |-> "out of bounds", mask |-> <<>>]  \* get_unchecked beyond the results
Panic == [is |-> "panic", mask |-> <<>>]                \* Invalid substring pattern

\* map_dictionary_results_to_array_results: null rows look up their key as well.
MapResults(l, results) ==
  IF \E i \in DOMAIN l.keys : l.keys[i].v >= Len(results) THEN OutOfBounds
  ELSE Mask([i \in DOMAIN l.keys |->
               IF l.keys[i].valid THEN <<results[l.keys[i].v + 1]>> ELSE <<>>])

\* The undecided entries, by their compressed values for equality (a needle is
\* compressed with the same symbols), by their text for an order.
ResolveEquals(d, values, needle) ==
  [n \in DOMAIN d.results |->
     \/ d.results[n]
     \/ n \in d.ambiguous /\ GetCompressedSlice(values, n - 1) = Compress(values.compressor, needle)]
ResolveOrder(d, values, op, needle) ==
  [n \in DOMAIN d.results |->
     IF n \in d.ambiguous THEN CompareBytes(op, ToUncompressedSelected(values, <<n - 1>>)[1], needle)
     ELSE d.results[n]]

NotAnswer(answer) == IF answer.is = "mask" THEN Mask(NotMask(answer.mask)) ELSE answer

\* compare_with, in memory and on disk.
CompareWith(l, bytes, op, needle) ==
  LET values == ValuesOf(l, bytes)
      equal == MapResults(l, ResolveEquals(EqualsWithPrefix(l, needle), values, needle))
      pattern == SubstringPattern(needle)
  IN  CASE op = "Eq" -> equal
        [] op = "NotEq" -> NotAnswer(equal)
        [] op \in {"Like", "NotLike"} ->
             IF pattern = <<>> THEN Panic ELSE MapResults(l, LikeSubstring(l, values, op, pattern[1]))
        [] OTHER -> MapResults(l, ResolveOrder(OrderWithPrefix(l, op, needle), values, op, needle))

\* ByteViewExpression::try_from keeps the operator and the literal of a comparison
\* or LIKE, and drops the left side.
ByteViewExpression(p) == [op |-> p.op, literal |-> p.literal]

\* try_eval_predicate_in_memory, try_eval_predicate_on_disk
ViewEval(l, bytes, p) ==
  LET expr == ByteViewExpression(p)
  IN  CASE expr.op \in {"True", "False"} ->
             Mask([i \in DOMAIN l.keys |-> IF l.keys[i].valid THEN <<expr.op = "True">> ELSE <<>>])
        [] expr.op \in {"Like", "NotLike"} /\ l.fingerprints = <<>> -> NotSupported
        [] OTHER -> CompareWith(l, bytes, expr.op, expr.literal)
=============================================================================
