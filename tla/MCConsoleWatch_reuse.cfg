SPECIFICATION Spec
CONSTANTS
    MaxProcesses = 2
    MaxObjects = 2
    MaxAttempts = 2
INVARIANTS
    TypeOK
    AvailableIsLinked
    OrphanIsClosed
    RightProcess
    ReplacedIsExited
    FinalLifecycle
    LeavesOnlyOnExit
CHECK_DEADLOCK FALSE
