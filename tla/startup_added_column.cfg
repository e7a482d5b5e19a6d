SPECIFICATION NodeSpec
CONSTANTS
    Nodes = {1}
    InitialMaster = 1
    MaxCrashes = 0
    MaxRestarts = 0
    MaxSuspicions = 0
    Seed <- SmallSeed
    Starts = {0}
    Elsewhere = {}
    MaxStarts = 2
    MaxInserts = 3
INVARIANT MigrationsCanBeRepeated
CHECK_DEADLOCK FALSE
