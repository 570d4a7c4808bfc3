SPECIFICATION Spec
CONSTANTS
    Capacity = 4
    Window = 4
    MinimumObservation = 3
    PollDelay = 1
    MaxClock = 6
    MaxRss = 3
    MaxEvents = 3
INVARIANTS
    TypeOK
    TrendIsWindow
    LeakReported
    PlateauClears
    CpuNotInflated
PROPERTY CpuBetweenObservations
