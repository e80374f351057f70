SPECIFICATION DaemonFairSpec
CONSTANTS
  Msgs = {m1, m2}
  Mortal = {m2}
  Daemons = {d1, d2}
  MaxPoll = 2
  LeaseTicks = 1
  Backoffs <- MCBackoffs
  MaxAttempts = 2
  MaxSetbacks = 1
INVARIANTS
  RepeatsHaveCauses
PROPERTIES
  DaemonDelivers
  StoppedAgentsEnd
  NothingLeftLying
CHECK_DEADLOCK FALSE
