CONSTANTS
    Hours = {1, 2}
    KeyModes = {TRUE}
    FailModes = {"open"}
    FaultKinds = {"late"}
    MaxRecords = 2
    MaxFaults = 1
    MaxStops = 1
SPECIFICATION Spec
CHECK_DEADLOCK FALSE
INVARIANTS
    NotWrittenNeverCounted
