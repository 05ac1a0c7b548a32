SPECIFICATION FairSpec
CONSTANTS
  Kind <- MCKind
  Squeezable <- MCSqueezable
  SqueezeHint <- MCHint
  ArrowSize <- MCArrowSize
  LiquidSize <- MCLiquidSize
  SqueezedSize <- MCSqueezedSize
  Main = "main"
  Word = 64
  Threads = {"t1", "t2"}
  Entries = {"plain", "swell", "opaque", "huge"}
  Values = {1}
  Paths = {}
  SqueezePolicy = "TranscodeSqueezeEvict"
  HydrationPolicy = "AlwaysHydrate"
  MaxBytes = 4
  VictimCount = 1
  TracksDisk = FALSE
  Ops = {"insert", "read"}
  ExclusiveClients = TRUE
  MaxOps = 4
INVARIANT EntriesReadable
INVARIANT ExclusiveInv
PROPERTY OperationsEnd
