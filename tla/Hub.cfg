\* Two users, three connections, one sender; channels with room for one.
\* The model stops when connections and messages are used up.
SPECIFICATION Spec
CONSTANTS
  u1 = u1
  u2 = u2
  c1 = c1
  c2 = c2
  c3 = c3
  User = {u1, u2}
  Agent = {g1}
  Client = {c1, c2, c3}
  UserOf <- MCUserOf
  Caller = {k1}
  BroadcastSize = 1
  SendSize = 1
  MaxSends = 2
  NoClient = NoClient
  NoMessage = NoMessage
  Everyone = Everyone
INVARIANTS
  TypeOK
  OpenIffRegistered
  PanicsOnlyAfterReplacement
PROPERTIES
  HubAnswers
  GoneIsForgotten
  ClosedIsDisconnected
CHECK_DEADLOCK FALSE
