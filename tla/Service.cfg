SPECIFICATION Spec
CONSTANTS
  Queries = {q1, q2}
  Partitions = {"p1", "p2"}
  Stores <- MCStores
  Batches <- MCBatches
  TargetBatchSize = 4
  MaxFaults = 1
  Locations <- MCLocations
  FileSize = 3
  CacheBlockSize = 2
  Readers = {r1, r2}
  Requests <- MCRequests
  MaxBadEvents = 1
  Exercised = {"remote", "bytes"}
INVARIANT DeliveredExact
INVARIANT ReadsItsObject
PROPERTY StreamsEnd
