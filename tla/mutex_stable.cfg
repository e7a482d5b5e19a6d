SPECIFICATION Spec
CONSTANTS
    m = m
    a = a
    b = b
    c1 = c1
    c2 = c2
    c3 = c3
    Nodes = {m, a, b}
    Clients = {c1, c2, c3}
    Home <- SpreadHome
    Requests = {r1, r2, r3, r4}
    Free = Free
    InitialMaster = m
    MaxAttempts = 2
SYMMETRY RequestSymmetry
INVARIANTS
    TypeOK
    MutualExclusion
    OneToken
    NoIdleQueue
PROPERTY ImplementsFifoLock
CHECK_DEADLOCK FALSE
