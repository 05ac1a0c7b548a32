SPECIFICATION Spec
CONSTANTS
  Futures = {f1, f2, f3}
  Tokens = {k1, k2}
  Rings = {r1, r2, r3}
  None = none
  Exercised = {"shared", "pool", "async", "blocking", "task"}
  BlockAlign = 3
  MaxLength = 5
INVARIANT OwnCompletion
INVARIANT TokenOnce
INVARIANT TransfersExact
PROPERTY IoEnds
