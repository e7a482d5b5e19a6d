SPECIFICATION TimelySpec
CONSTANTS
    Nodes = {1, 2, 3}
    InitialMaster = 1
    MaxCrashes = 1
    MaxRestarts = 1
    MaxSuspicions = 0
INVARIANT SettledOnLowest
CHECK_DEADLOCK FALSE
