SPECIFICATION Spec
CONSTANTS
    Capacity = 1
    Payload = 1
    Writers = {w1}
    Readers = {r1}
    MaxTickets = 2
    None = None
    ProgramOrder = FALSE
INVARIANT IntactUnlessOverlapped
