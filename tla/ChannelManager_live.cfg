SPECIFICATION FairSpec
CONSTANTS
    Channel <- MCChannel
    Internal <- MCInternal
    Lane <- MCLanes
    MediaSender <- MCNone
    Messages = 4
    Dest <- MCFirstCli
    LaneOf <- MCLastMedia
    Chunks <- MCSecondLong
    Direct <- MCDirect
    Capacity = 1
    MaxRetries = 1
    Generations = 1
CHECK_DEADLOCK FALSE
 
PROPERTY ManagerLive
