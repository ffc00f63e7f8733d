\* One replica in the distributed mode, nobody else, no fault.
SPECIFICATION Spec
CONSTANTS
  a1 = a1
  a2 = a2
  a3 = a3
  NoOne = NoOne
  Agent <- MCThree
  Rating <- MCThreeRatings
  Instance = {i1}
  Distributed = TRUE
  Handler = {}
  EloRange = 1
  RangeStep = 1
  MaxEloRange = 2
  Cooldown = 1
  DailyLimit = 2
  Ready = {a1, a2, a3}
  Aging = {a1}
  MaxFaults = 0
PROPERTIES
  SearcherWithinLimits
  PlayersReturn
  NobodyStarves
