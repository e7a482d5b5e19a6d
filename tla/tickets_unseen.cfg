SPECIFICATION Spec
CONSTANTS
    n1 = n1
    n2 = n2
    n3 = n3
    e1 = e1
    e2 = e2
    Nodes = {n1, n2, n3}
    Engineers = {e1, e2}
    Sucursal <- OneEach
    Ids = {i1}
    None = None
    Raisers = {n2}
    Closers = {}
    Tasks = {t1}
    MaxAttempts = 1
    MaxCrashes = 1
    MaxCloses = 3
INVARIANT DeadTicketsReassigned
CHECK_DEADLOCK FALSE
