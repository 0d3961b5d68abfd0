SPECIFICATION Spec
CONSTANTS
    Keys = {"s", "l"}
    NoKey = NoKey
    KeyCells <- MCKeyCells
    ValCells <- MCValCells
    Openers = {"scan"}
    MayOverwrite = FALSE
    TornValueReads = FALSE
    MaxRecords = 3
    MaxOpens = 3
INVARIANT
    ReopenNeverPanics
CHECK_DEADLOCK FALSE
