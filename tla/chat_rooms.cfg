SPECIFICATION AgreementSpec
CONSTANTS
  s1 = s1
  s2 = s2
  p1 = p1
  p2 = p2
  p3 = p3
  NoRoom = NoRoom
  Server = {s1, s2}
  Player = {p1, p2, p3}
  MaxMembers = 2
  MaxCalls = 4
  MaxCrashes = 1
SYMMETRY Symmetry
CONSTRAINT OneRoom
INVARIANTS
  TypeOK
  AgreeAtRest
  BansSurvive
  HearersBelong
CHECK_DEADLOCK FALSE
