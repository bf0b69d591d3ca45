SPECIFICATION LiveSpec
CONSTANTS
  Calls = {c1, c2}
  Sessions = {s1}
  Limit = 1
  IpMultiplier = 2
  Settings <- TwoSettings
  MaxFaults = 1
PROPERTY WindowEnds
CHECK_DEADLOCK FALSE
