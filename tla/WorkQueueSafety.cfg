SPECIFICATION Spec
CONSTANTS
  k1 = k1
  k2 = k2
  w1 = w1
  w2 = w2
  Keys = {k1, k2}
  Workers = {w1, w2}
  Scopes <- MCScopes
  Priorities = {50}
  Limits = {2}
  Backoff <- MCBackoff
  StaleAfter = 1
  KeepFor = 0
  Punctual = FALSE
  NoJob = NoJob
  MaxBatches = 2
  MaxClaims = 3
  MaxCrashes = 0
INVARIANTS
  AttemptIdentifiesClaim
PROPERTIES
  ImplementsLifecycle
SYMMETRY MCSymmetry
