SPECIFICATION Spec
CONSTANTS
  Calls = {c1}
  Workers = 1
  MaxPieces = 1
  MaxFaults = 1
  MaxCancels = 1
  Settings <- ClosedScan
INVARIANT CompletionDone
CHECK_DEADLOCK FALSE
