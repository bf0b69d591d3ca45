SPECIFICATION LiveSpec
CONSTANTS
  Replicas = {r1, r2}
  Destinations = {d1}
  Calls = {c1, c2}
  TTL = 2
  MaxClock = 3
  MaxRestarts = 1
INVARIANTS QuarantineHolds LiftHolds
PROPERTIES Converges
CHECK_DEADLOCK FALSE
