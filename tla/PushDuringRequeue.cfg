SPECIFICATION Spec
CONSTANTS
    NoWorker = NoWorker
    Workers = {w1}
    MaxRuns = 2
    MaxPushes = 2
    MaxDeliveries = 2
    MaxAttempts = 2
    MaxDeaths = 0
    MaxLostAcks = 0
    Operator = FALSE
    ReadsRefused = FALSE
    Page = 3
CHECK_DEADLOCK FALSE
INVARIANTS
    StaleWorkIsAlwaysRetired
