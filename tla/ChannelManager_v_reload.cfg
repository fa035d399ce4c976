SPECIFICATION FairSpec
CONSTANTS
    Channel <- MCChannel
    Internal <- MCInternal
    Lane <- MCText
    MediaSender <- MCNone
    Messages = 1
    Dest <- MCNoCli
    LaneOf <- MCSecondMedia
    Chunks <- MCFirstLong
    Direct <- MCNone
    Capacity = 1
    MaxRetries = 1
    Generations = 2
CHECK_DEADLOCK FALSE
PROPERTY ReloadDelivers
