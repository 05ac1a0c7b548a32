---------------------------- MODULE FloatArrays ----------------------------
(***************************************************************************)
(* LiquidFloatArray (float_array.rs): floats as decimal integers with an   *)
(* exponent, exceptions kept aside as patches, and the squeezed form that  *)
(* keeps the high bits of the integers.                                    *)
(*                                                                         *)
(* A float is a number of units of Base ^ -Digits, or NaN; products with   *)
(* powers of ten are exact at this size, so that a value is an exception   *)
(* if it has digits that the exponents drop, or is NaN.                    *)
(***************************************************************************)
EXTENDS PrimitiveArrays

CONSTANTS Base,         \* of the decimal exponents (10)
          Digits,       \* digits after the point of the values that are checked
          MaxExponent,  \* MAX_EXPONENT (10 or 18)
          NumSamples,   \* rows that the choice of exponents looks at (1024)
          FloatBits     \* bits of the integers, more than a mantissa has (32 or 64)

SignedInt == Type(TRUE, FloatBits)      \* SignedIntType
Number(n) == [nan |-> FALSE, n |-> n]
NaN == [nan |-> TRUE, n |-> 0]

\* Comparison of natives (IEEE) and of arrow's kernels (total order, NaN last).
CompareNative(op, x, y) == IF x.nan \/ y.nan THEN op = "NotEq" ELSE Compare(op, x.n, y.n)
CompareTotal(op, x, y) ==
  IF x.nan \/ y.nan THEN Compare(op, IF x.nan THEN 1 ELSE 0, IF y.nan THEN 1 ELSE 0)
  ELSE Compare(op, x.n, y.n)
ApplyFloatCmp(op, a, k) ==
  [i \in DOMAIN a |-> IF a[i].valid THEN <<CompareTotal(op, a[i].v, k)>> ELSE <<>>]

\* encode_single_unchecked and decode_single; the cast to an integer
\* saturates, and turns NaN into 0.
Unit(exp) == Base ^ (Digits - (exp.e - exp.f))
HalfEven(x, d) ==
  LET q == x \div d
      r == x % d
  IN  IF 2 * r > d \/ (2 * r = d /\ q % 2 = 1) THEN q + 1 ELSE q
EncodeSingle(v, exp) == IF v.nan THEN 0 ELSE Saturate(SignedInt, HalfEven(v.n, Unit(exp)))
DecodeSingle(n, exp) == Number(n * Unit(exp))

NoExponents == [e |-> 0, f |-> 0]

\* encode_arrow_array: null slots are encoded, and patched, like the others.
EncodeArray(a, exp) ==
  LET encoded == [i \in DOMAIN a |-> EncodeSingle(a[i].v, exp)]
      patched == {i \in DOMAIN a : DecodeSingle(encoded[i], exp) # a[i].v}
      plain == DOMAIN a \ patched
      filled == [i \in DOMAIN a |-> IF i \in patched /\ plain # {} THEN encoded[Min(plain)] ELSE encoded[i]]
      min == Min({filled[i] : i \in DOMAIN a})
      max == Max({filled[i] : i \in DOMAIN a})
      width == GetBitWidth(Wrap(Unsigned(SignedInt), max - min))
  IN  IF AllNull(a)
      THEN [kind |-> "float", exp |-> NoExponents, ref |-> 0, patches |-> <<>>,
            packed |-> NewNullArray(Len(a))]
      ELSE [kind |-> "float", exp |-> exp, ref |-> min,
            patches |-> [i \in patched |-> a[i].v],
            packed |-> FromPrimitive([i \in DOMAIN a |-> Slot(a[i].valid, Wrap(Unsigned(SignedInt), filled[i] - min))], width)]

\* get_array_memory_size, in bits, up to what is the same for all exponents.
EncodedSize(l) ==
  LET n == Cardinality(DOMAIN l.patches)
  IN  Len(l.packed.packed) * l.packed.width + (IF n = 0 THEN 0 ELSE 2 * FloatBits * (n + 1))

\* Of a long array about every (len / NUM_SAMPLES)th row, if it is not null.
SampleOf(a) ==
  LET step == Len(a) \div NumSamples
  IN  IF Len(a) <= NumSamples THEN a
      ELSE Filter(a, [i \in DOMAIN a |-> (i - 1) % step = 0 /\ a[i].valid])

\* get_best_exponents: the first of the smallest.
GetBestExponents(a) ==
  LET all == {[e |-> e, f |-> f] : e \in 0 .. MaxExponent - 1, f \in 0 .. MaxExponent - 1}
      tried == {exp \in all : exp.f < exp.e}
      size == [exp \in tried |-> EncodedSize(EncodeArray(SampleOf(a), exp))]
      least == {exp \in tried : \A x \in tried : size[exp] <= size[x]}
  IN  IF tried = {} THEN NoExponents
      ELSE CHOOSE exp \in least : \A x \in least : exp.e < x.e \/ (exp.e = x.e /\ exp.f <= x.f)

FloatFromArrow(a) == EncodeArray(a, GetBestExponents(a))

FloatToArrow(l) ==
  LET p == ToPrimitive(l.packed)
      Value(i) == IF i \in DOMAIN l.patches THEN l.patches[i]
                  ELSE DecodeSingle(Wrap(SignedInt, p[i].v + l.ref), l.exp)
  IN  [i \in DOMAIN p |-> Slot(p[i].valid, Value(i))]

FloatToBytes(l) ==
  [header |-> Header("Float", "Float64"), ref |-> l.ref, exp |-> l.exp, patches |-> l.patches,
   packed |-> ToBytes(l.packed)]
\* A decoder that forgets the patches of the file.
FloatFromBytesUnpatched(bytes) ==
  [kind |-> "float", exp |-> bytes.exp, ref |-> bytes.ref, patches |-> <<>>,
   packed |-> FromBytes(bytes.packed)]

FloatFromBytes(bytes) ==
  [kind |-> "float", exp |-> bytes.exp, ref |-> bytes.ref, patches |-> bytes.patches,
   packed |-> FromBytes(bytes.packed)]

-----------------------------------------------------------------------------
\* squeeze: the integers shifted right, less the shifted reference.
SqueezeFloat(l) ==
  LET w == l.packed.width \div 2
      shift == l.packed.width - w
      Shifted(v) == Wrap(SignedInt, l.ref + v) \div 2 ^ shift - l.ref \div 2 ^ shift
  IN  [kind |-> "float quantized", exp |-> l.exp, ref |-> l.ref, shift |-> shift,
       patches |-> l.patches,
       packed |-> FromPrimitive(MapValues(ToPrimitive(l.packed), Shifted), w)]

\* handle_eq .. handle_gteq: what the ends of a bucket decide.
Decides(op, lo, hi, k) ==
  CASE op \in {"Eq", "NotEq"} -> CompareNative("Lt", k, lo) \/ CompareNative("Gt", k, hi)
    [] op \in {"Lt", "GtEq"} -> CompareNative("LtEq", k, lo) \/ CompareNative("Lt", hi, k)
    [] OTHER -> CompareNative("Lt", k, lo) \/ CompareNative("LtEq", hi, k)
Decided(op, lo, hi, k) ==
  CASE op = "Eq" -> FALSE [] op = "NotEq" -> TRUE
    [] op = "Lt" -> ~CompareNative("LtEq", k, lo) [] op = "GtEq" -> CompareNative("LtEq", k, lo)
    [] op = "LtEq" -> ~CompareNative("Lt", k, lo) [] op = "Gt" -> CompareNative("Lt", k, lo)

\* try_eval_predicate_inner.  Patches keep the positions of the unfiltered array.
\* A patch at a null row is not passed, and hides the later ones from the loop.
Panics == [is |-> "panics", mask |-> <<>>]
FloatEval(q, op, k) ==
  LET b == ToPrimitive(q.packed)
      AtPatch(i) == i \in DOMAIN q.patches /\ \A j \in DOMAIN q.patches : j < i => b[j].valid
      Lo(i) == DecodeSingle(Wrap(SignedInt, b[i].v * 2 ^ q.shift + q.ref), q.exp)
      Hi(i) == DecodeSingle(Wrap(SignedInt, (b[i].v + 1) * 2 ^ q.shift + q.ref), q.exp)
      Answer(i) == IF i \in DOMAIN q.patches THEN CompareNative(op, q.patches[i], k)
                   ELSE Decided(op, Lo(i), Hi(i), k)
  IN  IF \E i \in Valid(b) : ~AtPatch(i) /\ ~Decides(op, Lo(i), Hi(i), k) THEN NeedsBacking
      ELSE IF \E j \in DOMAIN q.patches : j > Len(b) THEN Panics
      ELSE Mask([i \in DOMAIN b |-> IF b[i].valid THEN <<Answer(i)>> ELSE <<>>])
=============================================================================
