SPECIFICATION Spec
CONSTANTS
    Threads = {p1, p2}
    Watchers = {w1}
    Duration = 2
    PollPeriod = 1
    LastInstant = 6
    MaxClock = 6
    MaxSessions = 2
INVARIANTS
    TypeOK
    PublishedUnderLease
    HeldOpen
PROPERTIES
    FlagComesDown
CHECK_DEADLOCK FALSE
