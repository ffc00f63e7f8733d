\* Two tasks and two goroutines, one with a clock a second ahead; the queue
\* holds one; two faults.
\* The model stops when every task is settled or lost.
SPECIFICATION Spec
CONSTANTS
  Task = {1, 2}
  p1 = p1
  p2 = p2
  Process = {p1, p2}
  Priority <- MCPriorities
  MaxSize = 1
  MaxRetries = 2
  Ahead <- MCAhead
  Timeout <- MCTimeout
  Horizon = 2
  None = None
  MaxFaults = 2
INVARIANTS
  TypeOK
  NothingLost
  OneWorkerInTime
  SizeBounded
CHECK_DEADLOCK FALSE
