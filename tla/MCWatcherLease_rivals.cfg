SPECIFICATION Spec
CONSTANTS
    Threads = {p1, p2}
    Watchers = {w1, w2}
    Duration = 2
    PollPeriod = 1
    LastInstant = 4
    MaxClock = 4
    MaxSessions = 2
INVARIANTS
    SilentOnceReleased
PROPERTIES
    FlagComesBack
CHECK_DEADLOCK FALSE
