CONSTANTS
    Hours = {1, 2}
    KeyModes = {TRUE, FALSE}
    FailModes = {"open", "closed"}
    FaultKinds = {"write"}
    MaxRecords = 4
    MaxFaults = 2
    MaxStops = 3
SPECIFICATION Spec
CHECK_DEADLOCK FALSE
INVARIANTS
    OpenStoreVerifies InvalidNeedsCause
