SPECIFICATION FairSpec
CONSTANTS
    Cleaners = {c1, c2, c3}
    MaxSlow = 1
    MaxFailures = 1
    Ids <- MCIds
    Emails <- MCEmails
    EmailOf <- MCEmailOf
    Callers = {"u"}
    MaxRevived = 1
    Requests = {r1, r2}
    Jobs = {j1, j2}
    FreeLimit = 1
    PaidLimit = 2
    Deployments <- MCDeployments
    c1 = c1
    c2 = c2
    c3 = c3
    r1 = r1
    r2 = r2
    Initial <- MCInitial
INVARIANTS TypeOK OverlapBounded JobLimit FailsOnlyIfTaken
PROPERTIES ExpiredAreDeleted NotLockedOut
