SPECIFICATION Spec
CONSTANTS
    Threads = {p1, p2}
    Interval = 2
    MaxStall = 1
    Watching = TRUE
    MaxClock = 5
SYMMETRY ThreadSymmetry
INVARIANTS
    TypeOK
    ThrottledIsFresh
    ReadFresh
    RateLimited
PROPERTY TimestampAdvances
