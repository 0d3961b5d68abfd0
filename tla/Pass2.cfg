SPECIFICATION FairSpec
CONSTANTS
    WorkerCount = 2
    Threads = {t1, t2}
    DateCount = 4
    Empty = {4}
    TornChoices = {{}, {1}}
    MissingChoices = {{}, {3}}
    SharedBlocks = FALSE
    ResumeFlags = {TRUE, FALSE}
    NoDate = NoDate
    MaxFailures = 1
    MaxRuns = 2
INVARIANTS
    TypeOK
    DividedOnce
    FinishedIsWhole
    LitterBounded
PROPERTIES
    SecondOnlyOverwriting
    EventuallyConverted
CHECK_DEADLOCK FALSE
