SPECIFICATION FairSpec
CONSTANTS
    Nodes = {1, 2}
    Requests = {1, 2, 3, 4, 5, 6}
    From <- Odd1
    To <- Odd2
    TooLong <- Nothing
    Conns = {1, 2}
    None = None
    BufferSize = 1
    BroadcastSize = 1
    MaxFaults = 0
PROPERTY EverySendEnds
CHECK_DEADLOCK FALSE
