SPECIFICATION Spec
CONSTANTS
    n1 = n1
    n2 = n2
    n3 = n3
    e1 = e1
    e2 = e2
    Nodes = {n1, n2, n3}
    Engineers = {e1, e2}
    Sucursal <- OneEach
    Ids = {i1}
    None = None
    Raisers = {n2}
    Closers = {n2}
    Tasks = {t1}
    MaxAttempts = 2
    MaxCrashes = 1
    MaxCloses = 1
INVARIANTS OneTicketPerRaise CopiesOnlyOfGivenUp
CHECK_DEADLOCK FALSE
