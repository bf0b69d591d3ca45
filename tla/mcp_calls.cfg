SPECIFICATION Spec
CONSTANTS
  Calls = {c1, c2}
  Sessions = {s1, s2, "ip"}
  Limit = 1
  IpMultiplier = 1
  Settings <- TwoSettings
  MaxFaults = 1
INVARIANTS ActsOnlyRecorded AnswerIsCounted LimitHolds
CHECK_DEADLOCK FALSE
