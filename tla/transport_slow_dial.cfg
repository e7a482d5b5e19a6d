SPECIFICATION Spec
CONSTANTS
    Nodes = {1, 2, 3}
    Requests = {1, 2}
    From <- AllFrom1
    To <- Own
    TooLong <- Nothing
    Conns = {1, 2, 3, 4}
    None = None
    BufferSize = 1
    BroadcastSize = 1
    MaxFaults = 0
INVARIANT NoWaitForOthers
CHECK_DEADLOCK FALSE
