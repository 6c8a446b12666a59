\* Two workers, a short queue and a target that is reached half-way.
SPECIFICATION FairSpec
CONSTANTS
    Channels <- MCChannels
    Emails <- MCEmails
    EmailsOf <- MCEmailsOf
    Fetchers = {w1, w2}
    MaxEmails = 2
    QueueSize = 2
    HighWater = 1
    BatchSize = 2
    MaxBatches = 2
    MayBeCut = TRUE
INVARIANTS
    TypeOK
    LostInFlight
PROPERTIES
    ImplementsCollector
    StopsAtTarget
    FeedGoesOn
CHECK_DEADLOCK FALSE
