SPECIFICATION Spec
CONSTANTS
  m1 = m1
  m2 = m2
  Daemons = {m1, m2}
  Nobody = Nobody
  TTL = 11
  Interval = 2
  Lag = 1
  Skew = 1
  MayShutDown = TRUE
  MaxFaults = 1
INVARIANTS
  SingleLeader
