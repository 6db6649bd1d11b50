SPECIFICATION PresenceSpec
CONSTANTS
  a1 = a1
  a2 = a2
  h1 = h1
  h2 = h2
  t1 = t1
  t2 = t2
  Address = {a1, a2}
  Token = {t1, t2}
  Handler = {h1, h2}
  MaxSessions = 2
  MaxCalls = 4
SYMMETRY Symmetry
INVARIANTS
  TypeOK
  PostAuthReleased
  ClientsTracked
  OwnEntry
  PresenceKnown
  GoneIsRevoked
  BusInOrder
CHECK_DEADLOCK FALSE
