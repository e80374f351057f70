SPECIFICATION BothSpec
CONSTANTS
  s1 = s1
  s2 = s2
  c1 = c1
  c2 = c2
  router = router
  Sessions = {s1}
  Producers = {c1, c2, router}
  TTLs = {1, 2}
  Preempting = FALSE
  NoLease = NoLease
  MaxLeases = 3
  Router = router
  Policies = {"immediate", "safe-prompt-only", "interrupt"}
  RouterTTL = 2
  QueueTimeout = 1
  Patient = TRUE
  Enduring = FALSE
  NumIssues = 2
  Handled = {1}
  MaxAttempts = 1
  MaxDispatches = 2
  MaxEvents = 8
  MaxSetbacks = 1
INVARIANTS
  SubmissionsIntact
  RouterHoldsItsLease
  StraysHaveCauses
PROPERTIES
  RunsEnd
