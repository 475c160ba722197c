SPECIFICATION Spec
CONSTANTS
    NoWorker = NoWorker
    Workers = {w1, w2}
    MaxRuns = 1
    MaxPushes = 1
    MaxDeliveries = 1
    MaxAttempts = 3
    MaxDeaths = 1
    MaxLostAcks = 1
    Operator = TRUE
    ReadsRefused = TRUE
    Page = 3
SYMMETRY Interchangeable
INVARIANTS
    TypeOK
    FenceMeansNewestClaim
    PublishedIsOnGitHub
    FlagsAreTrue
    DegradationSurvives
PROPERTIES
    ResultsComeFromTheNewestClaim
    SettledStays
    RunsAreJobs
CHECK_DEADLOCK FALSE
