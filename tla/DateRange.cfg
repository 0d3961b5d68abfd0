SPECIFICATION FairSpec
CONSTANTS
    Uint32 = 16
    Day = 4
    SamplesPerChunk = 2
    Threads = {t1, t2}
    Files = {"a", "b", "c", "n"}
    Matching = {"a", "b", "c"}
    Blank = ""
    Inputs <- MCInputs
    NoFile = NoFile
    MaxInt64 = 1000
INVARIANTS
    TypeOK
    PointsKept
    DaysApart
    RangeIsExact
PROPERTY
    RangeEnds
CHECK_DEADLOCK FALSE
