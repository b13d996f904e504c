SPECIFICATION UpdatesSpec
CONSTANTS
  a = a
  b = b
  Total = 3
  Window = 2
  MaxRetries = 1
  MaxRuns = 2
  MaxEnds = 2
  MaxFrames = 2
  MaxFaults = 1
  MaxCycles = 1
  Jobs <- TwoNodes
  Lines = 6
  StoreWindow = 3
  AckEvery = 2
  RxLines = 6
  Resends = 2
  Resets = 1
  Clicks = 3
  Mishaps = 2
INVARIANTS UpdateSound BootedAsReported
PROPERTIES EveryUpdateEnds
CHECK_DEADLOCK FALSE
