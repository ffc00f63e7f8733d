\* Two workers (a replica's matchmaking loop and one HTTP handler), three
\* agents, two matches and one fault.
SPECIFICATION Spec
SYMMETRY Symmetry
CONSTANTS
  a1 = a1
  a2 = a2
  a3 = a3
  NoOne = NoOne
  Agent <- MCAgents
  Worker = {w1, w2}
  MatchId = {m1, m2}
  EnvironmentOf <- MCEnvironmentOf
  InitialElo = 1000
  MaxFaults = 1
  Scale <- MCScale
  Span <- MCSpan
  Expected <- MCExpected
INVARIANTS
  TypeOK
  CountersMatchHistory
  RatingIsLedger
  CountNeverAhead
  MatchHasOneOwner
  WinnerGains
  QueueRatingWasReal
\* The model runs out of match ids.
CHECK_DEADLOCK FALSE
