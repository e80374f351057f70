SPECIFICATION Spec
CONSTANTS
  s1 = s1
  s2 = s2
  c1 = c1
  c2 = c2
  router = router
  Sessions = {s1}
  Producers = {c1, router}
  TTLs = {1, 2}
  Preempting = FALSE
  NoLease = NoLease
  MaxLeases = 3
  Router = router
  Policies = {"queue"}
  RouterTTL = 2
  QueueTimeout = 3
  Patient = TRUE
  Enduring = TRUE
INVARIANTS
  RouterHoldsItsLease
