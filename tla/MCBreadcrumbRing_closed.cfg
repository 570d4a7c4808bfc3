SPECIFICATION Spec
CONSTANTS
    Capacity = 2
    Payload = 1
    Writers = {w1, w2}
    Readers = {}
    MaxTickets = 3
    None = None
    ProgramOrder = TRUE
INVARIANT SlotClosedWhileStoring
CHECK_DEADLOCK FALSE
