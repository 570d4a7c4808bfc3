SPECIFICATION Spec
CONSTANTS
    MaxProcesses = 2
    MaxObjects = 1
    MaxAttempts = 2
PROPERTY
    WatchEnds
CHECK_DEADLOCK FALSE
