SPECIFICATION TimelySpec
CONSTANTS
    n1 = n1
    n2 = n2
    n3 = n3
    e1 = e1
    e2 = e2
    Nodes = {n1, n2, n3}
    Engineers = {e1, e2}
    Sucursal <- OneEach
    Ids = {i1, i2}
    None = None
    Raisers = {n1, n2}
    Closers = {n1, n2}
    Tasks = {}
    MaxAttempts = 1
    MaxCrashes = 0
    MaxCloses = 3
SYMMETRY IdSymmetry
INVARIANT IdleAreFree
CHECK_DEADLOCK FALSE
