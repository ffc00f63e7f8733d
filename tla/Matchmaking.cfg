\* Two replicas that found no Redis, so that their rounds overlap; one user, two
\* faults; a3 is not ready, and its row may expire.
SPECIFICATION Spec
SYMMETRY Symmetry
CONSTRAINT TwoAtOnce
CONSTANTS
  a1 = a1
  a2 = a2
  a3 = a3
  NoOne = NoOne
  Agent <- MCThree
  Rating <- MCNearRatings
  Instance = {i1, i2}
  Distributed = FALSE
  Handler = {h1}
  EloRange = 1
  RangeStep = 1
  MaxEloRange = 1
  Cooldown = 0
  DailyLimit = 1
  Ready = {a1, a2}
  Aging = {a3}
  MaxFaults = 2
INVARIANTS
  TypeOK
  LockedOutOnlyByMatch
  MatchedOncePerRound
