SPECIFICATION FairSpec
CONSTANTS
  k1 = k1
  k2 = k2
  w1 = w1
  w2 = w2
  Keys = {k1, k2}
  Workers = {w1, w2}
  Scopes <- MCWhole
  Priorities = {50, 100}
  Limits = {2}
  Backoff <- MCBackoff
  StaleAfter = 1
  KeepFor = 0
  Punctual = TRUE
  NoJob = NoJob
  MaxBatches = 1
  MaxClaims = 4
  MaxCrashes = 1
INVARIANTS
  LiveJobNotStolen
  ExtraAttemptsAreCrashes
PROPERTIES
  EveryJobFinishes
  RecoveredJobsFinish
