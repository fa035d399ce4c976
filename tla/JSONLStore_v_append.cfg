SPECIFICATION Spec
CONSTANTS
    MaxMsg = 3
    MaxFaults = 1
    TornWrites = TRUE
    NoSummary = NoSummary
    s1 = s1
    Summary <- MCSummary
    KeepLast <- MCKeepLast
    Damaged = Damaged
INVARIANT CrashSafeAppend
