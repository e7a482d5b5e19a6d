SPECIFICATION TimelySpec
CONSTANTS
    m = m
    a = a
    b = b
    c1 = c1
    c2 = c2
    c3 = c3
    Nodes = {m, a, b}
    Clients = {c1, c2, c3}
    Home <- RemoteHome
    Requests = {r1, r2, r3}
    Free = Free
    InitialMaster = m
    MaxAttempts = 1
PROPERTY RemoteWaiterServed
CHECK_DEADLOCK FALSE
