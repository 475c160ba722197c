SPECIFICATION FairSpec
CONSTANTS
    NoWorker = NoWorker
    Workers = {w1, w2}
    MaxRuns = 1
    MaxPushes = 1
    MaxDeliveries = 1
    MaxAttempts = 2
    MaxDeaths = 1
    MaxLostAcks = 1
    Operator = FALSE
    ReadsRefused = TRUE
    Page = 3
CHECK_DEADLOCK FALSE
PROPERTIES
    EveryRunSettles
