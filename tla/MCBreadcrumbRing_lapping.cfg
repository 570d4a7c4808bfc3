SPECIFICATION Spec
CONSTANTS
    Capacity = 2
    Payload = 2
    Writers = {w1, w2}
    Readers = {r1}
    MaxTickets = 5
    None = None
    ProgramOrder = TRUE
INVARIANTS
    TypeOK
    IntactUnlessOverlapped
    SettledReported
