SPECIFICATION CompleteSpec
CONSTANTS
    Nodes = {1, 2}
    Engineers = {1, 2, 3}
    Sucursal <- SucursalOf
    Seeded = {1, 2}
    InitialMaster = 1
    FirstCounters = {0}
    MaxDevices = 1
    MaxOverlap = 1
    MaxAttempts = 2
    MaxChanges = 1
INVARIANT NothingDropped
CHECK_DEADLOCK FALSE
