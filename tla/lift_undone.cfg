SPECIFICATION Spec
CONSTANTS
  Replicas = {r1}
  Destinations = {d1}
  Calls = {c1, c2}
  TTL = 2
  MaxClock = 3
  MaxRestarts = 0
INVARIANTS RenewNeverCreates
CHECK_DEADLOCK FALSE
