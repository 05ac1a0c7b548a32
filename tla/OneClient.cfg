SPECIFICATION FairSpec
CONSTANTS
  Kind <- MCKind
  Squeezable <- MCSqueezable
  SqueezeHint <- MCHint
  ArrowSize <- MCArrowSize
  LiquidSize <- MCLiquidSize
  SqueezedSize <- MCSqueezedSize
  Main = "main"
  Word = 64
  Threads = {"t1"}
  Entries = {"plain", "swell", "variant", "huge"}
  Values = {1, 2}
  Paths = {"x", "y"}
  SqueezePolicy = "TranscodeSqueezeEvict"
  HydrationPolicy = "AlwaysHydrate"
  MaxBytes = 4
  VictimCount = 2
  TracksDisk = FALSE
  Ops = {"insert", "read", "flush", "reset"}
  ExclusiveClients = FALSE
  MaxOps = 5
INVARIANT TypeOK
INVARIANT BudgetExact
INVARIANT WithinBudget
INVARIANT MemoryIsEvictable
INVARIANT EntriesReadable
INVARIANT ReadsLatest
INVARIANT DiskEntriesFit
PROPERTY InsertedStays
PROPERTY OperationsEnd
