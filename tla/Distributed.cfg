\* Two replicas; a round may outlive its key, so that two of them overlap; one
\* fault.
SPECIFICATION SystemSpec
CONSTANTS
  a1 = a1
  a2 = a2
  NoOne = NoOne
  Nobody = Nobody
  Agent <- MCAgents
  Rating <- MCRatings
  Instance = {i1, i2}
  Handler = {}
  EloRange = 1
  RangeStep = 1
  MaxEloRange = 2
  Cooldown = 0
  DailyLimit = 1
  Ready = {a1, a2}
  Aging = {}
  MaxFaults = 1
  TTL = 2
  MaxRetries = 2
  HandlerTime = 2
  InboxSize = 1
INVARIANTS
  TypeOK
  NoLostWakeup
  OneMatchAtATime
PROPERTIES
  OneMatcherSpec
  EnqueuedIsSeen
  RoundEnds
