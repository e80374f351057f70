SPECIFICATION FairSpec
CONSTANTS
  s1 = s1
  s2 = s2
  c1 = c1
  c2 = c2
  router = router
  Sessions = {s1}
  Producers = {c1, router}
  TTLs = {1, 2}
  Preempting = TRUE
  NoLease = NoLease
  MaxLeases = 2
  Router = router
  Policies = {"immediate", "safe-prompt-only", "queue", "interrupt"}
  RouterTTL = 2
  QueueTimeout = 1
  Patient = FALSE
  Enduring = FALSE
INVARIANTS
  MapsAgree
PROPERTIES
  ImplementsTerms
  EveryLeaseEnds
  EverySendReturns
