SPECIFICATION Spec
CONSTANTS
    Threads = {t1, t2}
    Metrics = {"a", "b"}
    NoMetric = NoMetric
    Convertible = {"a", "b"}
    DaysOf <- MCDaysOf
    Dates = {1, 2}
    Ranges = {{1, 2}}
    ResumeChoices = {TRUE, FALSE}
    MaxFailures = 1
    MaxRuns = 2
INVARIANT
    OverwritingRunConverts
CHECK_DEADLOCK FALSE
