SPECIFICATION Spec
CONSTANTS
    Keys = {"s", "l"}
    NoKey = NoKey
    KeyCells <- MCKeyCells
    ValCells <- MCValCells
    Openers = {"scan", "index"}
    MayOverwrite = TRUE
    TornValueReads = FALSE
    MaxRecords = 3
    MaxOpens = 4
INVARIANTS
    TypeOK
    KnownSurvive
    SealedReadsBack
PROPERTY
    IsAppendLog
CHECK_DEADLOCK FALSE
