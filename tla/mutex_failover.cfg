SPECIFICATION FailoverSpec
CONSTANTS
    m = m
    a = a
    b = b
    c1 = c1
    c2 = c2
    c3 = c3
    Nodes = {m, a}
    Clients = {c1, c2}
    Home <- PairHome
    Requests = {r1, r2, r3}
    Free = Free
    InitialMaster = m
    MaxAttempts = 1
CONSTRAINT FewMessages
SYMMETRY RequestSymmetry
INVARIANTS OnePlace GrantNeverBlocks
PROPERTY HolderKept
CHECK_DEADLOCK FALSE
