\* Two workers of one job and one of another in the same process.
SPECIFICATION FairSpec
CONSTANTS
    j1 = j1
    j2 = j2
    w1 = w1
    w2 = w2
    w3 = w3
    link = link
    Addresses <- MCAddresses
    Form <- MCForm
    Links = {link}
    Platforms = {"website"}
    PlatformOf <- MCPlatformOf
    KnownTlds = {"own", "free", "dead", "bad"}
    BadDomains = {"bad"}
    FreeProviders = {"free"}
    MinSubs = 2009
    MaxSubs = 4019
    Jobs = {j1, j2}
    Workers = {w1, w2, w3}
    JobOf <- MCJobOf
    Channels <- MCChannels
    PageOf <- MCPageOf
    Domains = {"own", "free", "dead", "bad"}
    HasMail = {"own", "free"}
    MaxEmails = 2
    Supplies <- MCSupplies
    MaxFailures = 1
INVARIANTS TypeOK RowsVerified LostOnlyToFailure QueriesBounded
PROPERTIES VerdictIsFinal ChannelsEnd
CHECK_DEADLOCK FALSE
