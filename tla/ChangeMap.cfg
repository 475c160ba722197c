SPECIFICATION Spec
CONSTANTS
    Names <- Parts
    Repositories <- Checkouts
    MaxFilesScanned = 7
    MaxSymbols = 2
    MaxRefs = 2
    MaxImporters = 2
    MaxTests = 1
CHECK_DEADLOCK FALSE
INVARIANTS
    TypeOK
    ImportersAreFound
    NoReferencesMeansNone
    ChangedLinesAreNamed
    SymbolsAreApart
    TestsAreReported
