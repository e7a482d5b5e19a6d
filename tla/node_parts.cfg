SPECIFICATION NodeSpec
CONSTANTS
    Nodes = {1, 2, 3, 4}
    InitialMaster = 1
    MaxCrashes = 1
    MaxRestarts = 0
    MaxSuspicions = 0
    Seed <- SmallSeed
    Starts = {0, 2, 5}
    Elsewhere = {4, 6}
    MaxStarts = 4
    MaxInserts = 3
INVARIANTS SchemaMatchesVersion SeederDrawsNewIds
INVARIANTS OnlyHastyAnnounce RestAfterOneDeath
CHECK_DEADLOCK FALSE
