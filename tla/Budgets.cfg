SPECIFICATION Spec
CONSTANTS
    Calls = {c1, c2}
    Cap <- SmallCap
    RecursionLimit = 12
    MaxAttempts = 2
    MaxCost = 1
SYMMETRY Interchangeable
CHECK_DEADLOCK FALSE
INVARIANTS
    TypeOK
    WithinRecursionLimit
    BreachIsEarned
    StatusIsHonest
    DuplicatesWereAnswered
PROPERTIES
    NothingRunsAfterABreach
