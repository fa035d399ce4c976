SPECIFICATION FairSpec
CONSTANTS
    backup = backup
    reminder = reminder
    Job <- MCJobs
    OneTime <- MCOneTime
    Interval <- MCInterval
    Generations = 3
    MaxTime = 3
    MaxFaults = 1
    Reload = FALSE
    Commands = 0
CHECK_DEADLOCK FALSE
INVARIANT FileSound
PROPERTY DueRuns
