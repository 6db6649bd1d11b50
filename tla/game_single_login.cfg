SPECIFICATION OrderlySpec
CONSTANTS
  a1 = a1
  a2 = a2
  h1 = h1
  h2 = h2
  c1 = c1
  c2 = c2
  x1 = x1
  x2 = x2
  Address = {a1, a2}
  Handler = {h1, h2}
  Character = {c1, c2}
  Cell = {x1, x2}
  MaxSessions = 3
  MaxZoneIns = 3
  Replacing = TRUE
  LateAnswers = TRUE
  Relogin = FALSE
SYMMETRY Symmetry
INVARIANTS
  TypeOK
  LiveIffMapped
  IndexExact
  PlayingIsRegistered
  GoneWhenGone
  OwnIdentityInOrder
CHECK_DEADLOCK FALSE
