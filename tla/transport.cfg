SPECIFICATION FairSpec
CONSTANTS
    Nodes = {1, 2}
    Requests = {1, 2, 3}
    From <- AllFrom1
    To <- AllTo2
    TooLong <- FirstReply
    Conns = {1, 2, 3, 4, 5, 6}
    None = None
    BufferSize = 2
    BroadcastSize = 2
    MaxFaults = 1
INVARIANT TypeOK
INVARIANT FewConnections
PROPERTY ImplementsNetwork
PROPERTY EverySendEnds
CHECK_DEADLOCK FALSE
