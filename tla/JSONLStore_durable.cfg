SPECIFICATION Spec
CONSTANTS
    MaxMsg = 4
    MaxFaults = 2
    TornWrites = FALSE
    NoSummary = NoSummary
    s1 = s1
    Summary <- MCSummary
    KeepLast <- MCKeepLast
    Damaged = Damaged
INVARIANTS SkipWithinFile PromisedVisible
PROPERTY ImplementsSessionLog
