SPECIFICATION Spec
CONSTANTS
  Wide = 4
  Chunk = 2
  Iterations = 8
  SqueezeBits = 3
  Base = 10
  Digits = 2
  MaxExponent = 3
  FloatBits = 9
  NumSamples = 1
  MillisPerSecond = 2
  TicksPerDay = 3
  MaxLen = 3
  MaxRows = 2
  SmallResidual = 2
  MidResidual = 3
  KeyedBelow = 2
  ByteBase = 4
  DecimalWidth = 2
  PrefixLen = 2
  LenCap = 4
  Buckets = 3
  Kinds = {"view"}
  FunctionsOn = {"primitive"}
INVARIANTS NotLikeExact
