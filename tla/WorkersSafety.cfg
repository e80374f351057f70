SPECIFICATION Spec
CONSTANTS
  d1 = d1
  d2 = d2
  Dispatches = {d1, d2}
  Named = {d1, d2}
  Generated = Generated
  NoProcess = NoProcess
  Capacity = 2
  StoreMayFail = TRUE
  MaxTalk = 1
  MaxSignals = 1
  MaxRestarts = 1
PROPERTIES
  ImplementsWorkerRecords
SYMMETRY Symmetry
CHECK_DEADLOCK FALSE
