SPECIFICATION Spec
CONSTANTS
    Keys = {"s", "l"}
    NoKey = NoKey
    KeyCells <- MCKeyCells
    ValCells <- MCValCells
    Openers = {"scan"}
    MayOverwrite = FALSE
    TornValueReads = TRUE
    MaxRecords = 2
    MaxOpens = 2
INVARIANT
    AcknowledgedKept
CHECK_DEADLOCK FALSE
