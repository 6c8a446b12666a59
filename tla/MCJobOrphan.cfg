\* A worker crashes, then the API restarts.
SPECIFICATION FairSpec
CONSTANTS
    Jobs = {j1}
    u1 = u1
    Users <- MCUsers
    Owner <- MCOwner
    Limit <- FreeLimit
    Workers = {w1}
    ApiProcs = {a1}
    MaxJobs = 1
    MaxTries = 1
    Budget <- CrashAndRestart
PROPERTY OrphanIsRecovered
CHECK_DEADLOCK FALSE
