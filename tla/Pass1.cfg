SPECIFICATION FairSpec
CONSTANTS
    Threads = {t1, t2}
    Metrics = {"a", "b", "c", "x"}
    NoMetric = NoMetric
    Convertible = {"a", "b", "c"}
    DaysOf <- MCDaysOf
    Dates = {1, 2}
    Ranges = {{1}, {1, 2}}
    ResumeChoices = {TRUE}
    MaxFailures = 2
    MaxRuns = 3
INVARIANTS
    TypeOK
    RecordedHasData
    DoneIsComplete
    BoundedRework
PROPERTIES
    RecordedIsFinal
    FilesAreLogs
    RunEnds
    EventuallyConverted
CHECK_DEADLOCK FALSE
