SPECIFICATION Spec
CONSTANTS
    Capacity = 3
    Payload = 2
    Writers = {w1}
    Readers = {r1}
    MaxTickets = 8
    ProgramOrder = TRUE
    None = None
INVARIANT SlotClosedWhileStoring
PROPERTIES
    ImplementsLog
    SnapshotTerminates
