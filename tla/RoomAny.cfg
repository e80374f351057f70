SPECIFICATION MCSpec
CONSTANTS
  r1 = r1
  a1 = a1
  a2 = a2
  s1 = s1
  s2 = s2
  c1 = c1
  c2 = c2
  Rooms = {r1}
  Agents = {a1, a2}
  Sessions = {s1, s2}
  Clients = {c1, c2}
  NoMember = NoMember
  NoRoom = NoRoom
  MaxJoins = 2
  MaxCrashes = 1
INVARIANTS
  IndexInStep
  OnlyLateJoinsStay
  DivergenceHasCause
  DeleteIsDurable
PROPERTIES
  ImplementsMemberships
SYMMETRY Symmetry
CHECK_DEADLOCK FALSE
