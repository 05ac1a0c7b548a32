SPECIFICATION Spec
CONSTANTS
  Entries = {a, b, c}
  None = none
  SmallShare = 3
  MaxCount = 3
  MaxQueue = 4
  Exercised = {"Lru", "Fifo", "Filo", "Liquid", "Clock", "Sieve", "S3", "S3Once", "List"}
INVARIANT StructuresAgree
PROPERTY MeetsContract
PROPERTY EvictionOrder
PROPERTY SecondChance
PROPERTY IsSequence
