SPECIFICATION Spec
CONSTANTS
    Nodes = {1, 2}
    Requests = {1, 2, 3, 4}
    From <- AllFrom1
    To <- AllTo2
    TooLong <- Nothing
    Conns = {1, 2, 3, 4, 5}
    None = None
    BufferSize = 1
    BroadcastSize = 1
    MaxFaults = 1
INVARIANT OneConnection
CHECK_DEADLOCK FALSE
