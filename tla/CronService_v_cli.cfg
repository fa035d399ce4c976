SPECIFICATION Spec
CONSTANTS
    backup = backup
    reminder = reminder
    Job <- MCJobs
    OneTime <- MCOneTime
    Interval <- MCInterval
    Generations = 1
    MaxTime = 2
    MaxFaults = 0
    Reload = FALSE
    Commands = 1
CHECK_DEADLOCK FALSE
INVARIANT AddedSurvives
