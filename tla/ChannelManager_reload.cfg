SPECIFICATION Spec
CONSTANTS
    Channel <- MCChannel
    Internal <- MCInternal
    Lane <- MCLanes
    MediaSender <- MCChannel
    Messages = 3
    Dest <- MCNoCli
    LaneOf <- MCSecondMedia
    Chunks <- MCFirstLong
    Direct <- MCNone
    Capacity = 1
    MaxRetries = 0
    Generations = 2
CHECK_DEADLOCK FALSE
INVARIANTS Accounted QuietAfterStop
