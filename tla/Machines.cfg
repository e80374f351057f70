SPECIFICATION MachinesSpec
CONSTANTS
  n1 = n1
  n2 = n2
  Callers = {c1, c2, c3}
  MaxFailures = 2
  MaxHalfOpenRequests = 1
  SuccessThreshold = 2
  AutoReset = TRUE
  MaxPeriods = 2
  Namespaces = {n1, n2}
  Weights <- MCWeights
  Unit = 2
  Cost <- MCCost
  WorkRoom = 1
  MaxJobs = 5
  NumCommands = 3
  Dedupers = {2, 3}
  MaxFaults = 2
  Clients = {c1, c2}
  MaxRuns = 3
  Viewers = {v1, v2}
  MaxChunks = 2
  Room = 1
  MaxSeq = 3
INVARIANTS
  BreakerSafe
  SchedulerSafe
  JobsSafe
  RefreshSafe
  LogSafe
PROPERTIES
  QueueDrains
  EndsStand
  WaitersComeBack
  JoinersReturn
CHECK_DEADLOCK FALSE
