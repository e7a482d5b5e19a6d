SPECIFICATION TimelySpec
CONSTANTS
    Nodes = {1, 2, 3}
    InitialMaster = 1
    MaxCrashes = 2
    MaxRestarts = 0
    MaxSuspicions = 0
INVARIANT SettledOnLive
CHECK_DEADLOCK FALSE
