SPECIFICATION FairSpec
CONSTANTS
  m1 = m1
  m2 = m2
  Daemons = {m1, m2}
  Nobody = Nobody
  TTL = 10
  Interval = 1
  Lag = 1
  Skew = 1
  MayShutDown = TRUE
  MaxFaults = 3
INVARIANTS
  OverlapOnlyAtShutdown
PROPERTIES
  EventuallyLed
