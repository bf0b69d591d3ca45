CONSTANTS
    Callers = {b1, b2}
    Feeds = {f1, f2}
    Events = {e1}
    Interval = 2
    Timeout = 1
    TTL = 2
    MaxChecks = 3
    MaxClock = 4
SPECIFICATION Spec
SYMMETRY WatchSymmetry
CONSTRAINT OneAtATime
INVARIANTS ProbeIsTrue FeedEndsWithSession
CHECK_DEADLOCK FALSE
