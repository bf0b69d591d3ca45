CONSTANTS
    Hours = {1, 2}
    KeyModes = {TRUE}
    FailModes = {"open"}
    FaultKinds = {"read"}
    MaxRecords = 3
    MaxFaults = 1
    MaxStops = 2
SPECIFICATION Spec
CHECK_DEADLOCK FALSE
INVARIANTS
    RebuildVisibleUntilAcknowledged
