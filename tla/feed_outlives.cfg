CONSTANTS
    Callers = {b1}
    Feeds = {f1}
    Events = {e1}
    Interval = 2
    Timeout = 1
    TTL = 1
    MaxChecks = 1
    MaxClock = 3
SPECIFICATION Spec
CONSTRAINT OneAtATime
INVARIANTS SessionBoundsFeed
CHECK_DEADLOCK FALSE
