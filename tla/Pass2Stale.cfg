SPECIFICATION Spec
CONSTANTS
    WorkerCount = 2
    Threads = {t1, t2}
    DateCount = 4
    Empty = {}
    TornChoices = {{}}
    MissingChoices = {{}}
    SharedBlocks = TRUE
    ResumeFlags = {FALSE}
    NoDate = NoDate
    MaxFailures = 1
    MaxRuns = 2
INVARIANT
    AllDatesConverted
CHECK_DEADLOCK FALSE
