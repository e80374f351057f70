SPECIFICATION FairSpec
CONSTANTS
  m1 = m1  m2 = m2  m3 = m3  g1 = g1  g2 = g2
  Msgs = {m1, m2}
  Actors = {coder}
  Caller = caller
  Goroutines = {g1, g2}
  Outcomes = {"ok"}
  Directives = {"resume"}
  LeaseTicks = 2
  NackTicks = 1
  Buffer = 1
  MaxRestarts = 1
  MaxMishaps = 0
PROPERTY
  BusyActorPolls
