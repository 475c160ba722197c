SPECIFICATION Spec
CONSTANTS
    Runs = {r1, r2}
    s1 = s1
    s2 = s2
    s3 = s3
    k1 = k1
    k2 = k2
    Shas <- Commits
    None = None
    Keys <- Defects
    InDiff <- OneInDiff
    Large <- TooLarge
    MaxPushes = 2
    MaxFindings = 1
    MaxAttempts = 2
    Page = 1
    Margin = 5
    Lifetime = 6
SYMMETRY Interchangeable
CHECK_DEADLOCK FALSE
INVARIANTS
    TypeOK
    FlaggedFindingsAreVisible
    PublishedFindingsAreVisible
    ReviewsAreOfOneHead
    RepeatedFindingsWereUnseen
    TokenOutlivesItsUse
