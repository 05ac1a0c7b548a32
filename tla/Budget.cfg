SPECIFICATION Spec
CONSTANTS
  Threads = {t1, t2, t3}
  MaxBytes = 3
  Sizes = {1, 2}
INVARIANT UsageIsHeld
PROPERTY ImplementsAtomicBudget
