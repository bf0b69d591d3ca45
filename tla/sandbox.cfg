SPECIFICATION LiveSpec
CONSTANTS
  Proxies = {p1, p2}
  Calls = {c1, c2}
  MaxConcurrent = 1
  LongCommands = TRUE
  MaxStops = 1
INVARIANTS SlotsExact CommandKnown
PROPERTIES SweepSpares OrphansGo
CHECK_DEADLOCK FALSE
