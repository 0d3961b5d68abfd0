SPECIFICATION Spec
CONSTANTS
    WorkerCount = 1
    Threads = {t1, t2}
    DateCount = 2
    Empty = {}
    TornChoices = {{}}
    MissingChoices = {{}}
    SharedBlocks = TRUE
    ResumeFlags = {TRUE}
    NoDate = NoDate
    MaxFailures = 1
    MaxRuns = 2
INVARIANT
    NoSecondBlock
CHECK_DEADLOCK FALSE
