SPECIFICATION FairSpec
CONSTANTS
    p1 = p1
    p2 = p2
    k1 = k1
    k2 = k2
    Publisher <- MCPublisher
    Closer <- MCCloser
    Topics <- MCTopics
    Capacity = 1
    MaxSend = 1
CHECK_DEADLOCK FALSE
INVARIANTS EachMessageOnce CloseSound
PROPERTY BusLive
