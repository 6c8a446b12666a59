\* One job, two workers, every fault once but no API restart.
SPECIFICATION FairSpec
CONSTANTS
    Jobs = {j1}
    u1 = u1
    Users <- MCUsers
    Owner <- MCOwner
    Limit <- FreeLimit
    Workers = {w1, w2}
    ApiProcs = {a1}
    MaxJobs = 1
    MaxTries = 1
    Budget <- NoRestart
INVARIANT StopAnsweredIsHalted
PROPERTIES
    StopIsAnswered
    RunningSettles
    JobSettles
    PaidUnlessDisturbed
CHECK_DEADLOCK FALSE
