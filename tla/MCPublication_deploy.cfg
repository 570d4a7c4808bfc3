SPECIFICATION Spec
CONSTANTS
    Deploys = {d1, d2}
    MaxCommits = 2
    MaxUpsets = 1
INVARIANTS
    TypeOK
    PublishedIsVerified
    SettledIsPublished
PROPERTIES
    NoRollback
    ConclusionsAreCoherent
CHECK_DEADLOCK FALSE
SYMMETRY MCSymmetry
