\* One request, one replica, no fault.
SPECIFICATION Spec
CONSTANTS
  Submission = {s1}
  Worker = {w1}
  Monitor = {m1}
  None = None
  Quota = 1
  MaxRetryCount = 1
  MaxFaults = 0
PROPERTIES
  FailureIsRecorded
