\* Three jobs of a paying user that may all run at once.
SPECIFICATION Spec
CONSTANTS
    Jobs = {j1, j2, j3}
    Slots = 3
    OpeningFree = 2
    OpeningPaid = 2
    MaxWanted = 3
    FreeCap = 2
    PaidCap = 3
    HasAddon = FALSE
INVARIANTS
    TypeOK
    NeverOvercharged
    UsageNeverExceeds
PROPERTY ExactWhenAlone
CHECK_DEADLOCK FALSE
