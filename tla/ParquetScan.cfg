SPECIFICATION Spec
CONSTANTS
  None = none
  Files <- MCFiles
  Location <- MCLocation
  NumRows <- MCNumRows
  Queries <- MCQueries
  Streams = {"s1", "s2"}
  NumColumns = 3
  BatchSize = 2
  Field = 4
  MaxResets = 1
INVARIANT RowsExact
INVARIANT NeverPanics
INVARIANT CacheHoldsItsRows
PROPERTY ScanEnds
