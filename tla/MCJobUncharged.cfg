\* One stop request, no fault at all.
SPECIFICATION Spec
CONSTANTS
    Jobs = {j1}
    u1 = u1
    Users <- MCUsers
    Owner <- MCOwner
    Limit <- FreeLimit
    Workers = {w1}
    ApiProcs = {a1}
    MaxJobs = 1
    MaxTries = 1
    Budget <- JustStop
PROPERTY DeductedAtEnd
CHECK_DEADLOCK FALSE
