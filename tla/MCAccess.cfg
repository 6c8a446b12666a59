SPECIFICATION FairSpec
CONSTANTS
    Proxies = {p1, p2}
    MaxFailures = 2
    Searches = {s1, s2}
    Visits = {v1, v2}
    MaxCalls = 2
    SearchSlots = 2
    VisitSlots = 1
    Tries = 2
    MorePages = 1
    SearchFailLimit = 2
    BrowseFailLimit = 2
INVARIANTS TypeOK FailuresBounded
PROPERTIES OffForGood Drains
