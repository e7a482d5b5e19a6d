SPECIFICATION CompleteSpec
CONSTANTS
    Nodes = {1, 2}
    Engineers = {1, 2, 3}
    Sucursal <- SucursalOf
    Seeded = {1, 2}
    InitialMaster = 1
    FirstCounters = {0, 1}
    MaxDevices = 3
    MaxOverlap = 2
    MaxAttempts = 2
    MaxChanges = 1
INVARIANT AppliedIsStored
CHECK_DEADLOCK FALSE
