SPECIFICATION FairSpec
CONSTANTS
    Calls = {"a", "b", "c", "d"}
    Rank <- MCRank
    Symbols <- MCSymbols
    Inputs <- MCInputs
    MinBlockTime = 2
    MaxBlockTime = 8
    SamplesPerChunk = 2
    MaxInt64 = 1000
    SymbolsBatchSize = 2
INVARIANTS
    TypeOK
    OwnChunks
    MetaIsExact
    SameAsCreateBlock
PROPERTIES
    IsBlockSpec
    BlockEnds
CHECK_DEADLOCK FALSE
