\* One key, two overlapping requests, clocks up to half a second apart.
\* The model stops with its time.
SPECIFICATION Spec
SYMMETRY Symmetry
CONSTANTS
  Key = {k1}
  Request = {r1, r2}
  Second = 2
  Capacity = 2
  RefillRate = 1
  CleanupInterval = 3
  Limit = 3
  Window = 4
  Skew = {0, 1}
  MaxTime = 18
  MaxBuckets = 2
  None = None
INVARIANTS
  TypeOK
  KeysWithinRate
  ReplicasWithinRate
PROPERTIES
  RetryAfterHonoured
CHECK_DEADLOCK FALSE
