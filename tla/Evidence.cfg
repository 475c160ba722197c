SPECIFICATION Spec
CONSTANTS
    Context = 1
    MaxRead = 32
    MarkerBudget = 2
    Marker = 2
    short = short
    long = long
    gone = gone
    blank = blank
    words = words
    header = header
    Line <- Code
    Blank = blank
    Words = words
    Header = header
    Size <- SizeOf
    MinEvidence = 8
    MaxHits = 2
    Requests <- PullRequests
    RawDiff <- DiffOf
    Patterns <- Searches
    MaxCalls = 2
    Quotes <- Evidences
CHECK_DEADLOCK FALSE
INVARIANTS
    TypeOK
    GroundedQuotesSource
    CommentsQuoteTheirLine
    ReadsAreBoundedAndComplete
    ContextGoesFirst
    SharesAreFair
