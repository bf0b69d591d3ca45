CONSTANTS
    Hours = {1, 2}
    KeyModes = {TRUE, FALSE}
    FailModes = {"open", "closed"}
    FaultKinds = {"write", "late", "read"}
    MaxRecords = 4
    MaxFaults = 2
    MaxStops = 2
SPECIFICATION Spec
CHECK_DEADLOCK FALSE
INVARIANTS
    AckedKept LinksKept AcceptingIsSaved RebuildRemembered
PROPERTIES
    ClosedModeAcksSaved InvalidWritesNothing ImplementsAuditLog
