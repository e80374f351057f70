SPECIFICATION Spec
CONSTANTS
  r1 = r1
  a1 = a1
  a2 = a2
  s1 = s1
  s2 = s2
  c1 = c1
  c2 = c2
  Rooms = {r1}
  Agents = {a1, a2}
  Sessions = {s1, s2}
  Clients = {c1, c2}
  NoMember = NoMember
  NoRoom = NoRoom
  MaxJoins = 3
  MaxCrashes = 0
INVARIANTS
  StoreAgrees
CHECK_DEADLOCK FALSE
