\* One job, two workers, two API processes; every fault but a timeout once, restarts twice.
SPECIFICATION Spec
CONSTANTS
    Jobs = {j1}
    u1 = u1
    Users <- MCUsers
    Owner <- MCOwner
    Limit <- FreeLimit
    Workers = {w1, w2}
    ApiProcs = {a1, a2}
    MaxJobs = 1
    MaxTries = 1
    Budget <- FaultsAndRestarts
SYMMETRY Symmetry
INVARIANTS
    TypeOK
    OneExecution
PROPERTIES
    ImplementsExecution
CHECK_DEADLOCK FALSE
