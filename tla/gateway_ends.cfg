SPECIFICATION LiveSpec
CONSTANTS
  Calls = {c1}
  Workers = 1
  MaxPieces = 2
  MaxFaults = 2
  MaxCancels = 1
  Settings <- AllSettings
INVARIANTS CompletionIsTrue UpstreamReleased
PROPERTIES EveryCallEnds EveryResponseRecorded
CHECK_DEADLOCK FALSE
