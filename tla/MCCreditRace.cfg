\* Jobs that overlap.
SPECIFICATION Spec
CONSTANTS
    Jobs = {j1, j2, j3}
    Slots = 2
    OpeningFree = 2
    OpeningPaid = 2
    MaxWanted = 3
    FreeCap = 2
    PaidCap = 3
    HasAddon = FALSE
INVARIANTS
    DeductionsAddUp
CHECK_DEADLOCK FALSE
