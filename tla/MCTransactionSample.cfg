SPECIFICATION Spec
CONSTANTS
  k1 = k1
  k2 = k2
  k3 = k3
  budget = budget
  Key = {k1, k2, k3, budget}
  BadKey = BadKey
  ComputeBudget = budget
  None = None
  Micro = 6
  MaxCuLimit = 4
  MaxU64 = 13
  MaxBlocks = 2
  Blocks <- MCBlocks
INVARIANTS TypeOK Accounted OneScale ZeroOnlyIfUnpaid RecordedForWritable
\* No more blocks may come.
CHECK_DEADLOCK FALSE
