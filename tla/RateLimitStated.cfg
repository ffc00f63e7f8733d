\* One key, one request at a time, one clock: two requests per window of two
\* seconds, and a token a second.
SPECIFICATION Spec
CONSTANTS
  Key = {k1}
  Request = {r1}
  Second = 2
  Capacity = 2
  RefillRate = 1
  CleanupInterval = 3
  Limit = 2
  Window = 2
  Skew = {0}
  MaxTime = 8
  MaxBuckets = 1
  None = None
INVARIANTS
  StatedRate
CHECK_DEADLOCK FALSE
