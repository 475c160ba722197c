SPECIFICATION FairSpec
CONSTANTS
    NoWorker = NoWorker
    Workers = {w1}
    MaxRuns = 2
    MaxPushes = 2
    MaxDeliveries = 2
    MaxAttempts = 2
    MaxDeaths = 1
    MaxLostAcks = 0
    Operator = FALSE
    ReadsRefused = FALSE
    Page = 1
CHECK_DEADLOCK FALSE
INVARIANTS
    FlagsAreTrue
    OneReviewPerHead
    StaleWorkIsRetired
PROPERTIES
    HeadIsReviewed
    RunsAreJobs
