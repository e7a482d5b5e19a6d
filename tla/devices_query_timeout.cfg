SPECIFICATION Spec
CONSTANTS
    Nodes = {1, 2}
    Engineers = {1, 2, 3}
    Sucursal <- SucursalOf
    Seeded = {1, 2}
    InitialMaster = 1
    FirstCounters = {0}
    MaxDevices = 2
    MaxOverlap = 1
    MaxAttempts = 2
    MaxChanges = 0
INVARIANT EvenSpread
CHECK_DEADLOCK FALSE
