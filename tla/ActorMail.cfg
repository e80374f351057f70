SPECIFICATION FairSpec
CONSTANTS
  m1 = m1  m2 = m2  m3 = m3  g1 = g1  g2 = g2
  Msgs = {m1, m2}
  Actors = {coder}
  Caller = caller
  Goroutines = {g1, g2}
  Outcomes = {"ok", "error"}
  Directives = {"resume", "restart", "stop"}
  LeaseTicks = 1
  NackTicks = 1
  Buffer = 1
  MaxRestarts = 1
  MaxMishaps = 1
INVARIANTS
  OneAtATime
  NoActorWedged
  NoNeedlessReply
PROPERTIES
  ImplementsDelivery
  QuietIsHandled
