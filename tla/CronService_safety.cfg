SPECIFICATION Spec
CONSTANTS
    backup = backup
    reminder = reminder
    Job <- MCJobs
    OneTime <- MCOneTime
    Interval <- MCInterval
    Generations = 2
    MaxTime = 2
    MaxFaults = 0
    Reload = TRUE
    Commands = 1
CHECK_DEADLOCK FALSE
 
PROPERTY RemovedNeverStarts
