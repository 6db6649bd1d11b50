SPECIFICATION OrderlySpec
CONSTANTS
  a1 = a1
  a2 = a2
  h1 = h1
  h2 = h2
  c1 = c1
  c2 = c2
  x1 = x1
  x2 = x2
  Address = {a1, a2}
  Handler = {h1, h2}
  Character = {c1, c2}
  Cell = {x1, x2}
  MaxSessions = 3
  MaxZoneIns = 3
  Replacing = FALSE
  LateAnswers = FALSE
  Relogin = TRUE
SYMMETRY Symmetry
INVARIANTS
  IndexExact
CHECK_DEADLOCK FALSE
