\* Two replicas; a handler may outlive the key, as a 5 minute match does.
SPECIFICATION Spec
SYMMETRY Symmetry
CONSTANTS
  Instance = {i1, i2}
  Nobody = Nobody
  TTL = 2
  MaxRetries = 3
  HandlerTime = 4
  InboxSize = 1
INVARIANTS
  AtMostOneMatcher
