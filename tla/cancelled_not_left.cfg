SPECIFICATION Spec
CONSTANTS
  Calls = {c1}
  Workers = 1
  MaxPieces = 1
  MaxFaults = 1
  MaxCancels = 0
  Settings <- ClosedScan
INVARIANT CancelledMeansLeft
CHECK_DEADLOCK FALSE
