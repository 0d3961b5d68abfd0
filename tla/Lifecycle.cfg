SPECIFICATION FairSpec
CONSTANTS
    HTTPRequests = {"h1", "h2"}
    GRPCRequests = {"g1"}
    MaxFailures = 2
INVARIANTS
    TypeOK
    CutOnlyByTimeout
    ShutdownOrder
    CleanOnlyBySignal
PROPERTIES
    Stops
    NoSenderLeft
CHECK_DEADLOCK FALSE
