SPECIFICATION FairSpec
CONSTANTS
  d1 = d1
  d2 = d2
  Dispatches = {d1, d2}
  Named = {d1, d2}
  Generated = Generated
  NoProcess = NoProcess
  Capacity = 9
  StoreMayFail = FALSE
  MaxTalk = 1
  MaxSignals = 0
  MaxRestarts = 0
INVARIANTS
  EndRecorded
PROPERTIES
  EndsAreRecorded
CHECK_DEADLOCK FALSE
