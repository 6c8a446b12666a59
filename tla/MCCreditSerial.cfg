\* The same three jobs, one after the other.
SPECIFICATION Spec
CONSTANTS
    Jobs = {j1, j2, j3}
    Slots = 1
    OpeningFree = 2
    OpeningPaid = 2
    MaxWanted = 3
    FreeCap = 2
    PaidCap = 3
    HasAddon = FALSE
PROPERTIES
    ImplementsAccount
CHECK_DEADLOCK FALSE
