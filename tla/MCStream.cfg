\* Two addresses, one lost publish, failed commits, two dropped sockets, a page reload and
\* two calls of resumeJob.
SPECIFICATION Spec
CONSTANTS
    MaxFound = 2
    FetchLimit = 1
    MaxDrops = 2
    MaxReloads = 1
    MaxAuths = 2
    MaxLost = 1
    MayDie = TRUE
    MayFail = TRUE
INVARIANTS
    TypeOK
    ShownBounded
    AtMostOneMissed
    PhantomBounded
CHECK_DEADLOCK FALSE
