SPECIFICATION TimelySpec
CONSTANTS
    Nodes = {1, 2, 3, 4}
    InitialMaster = 1
    MaxCrashes = 1
    MaxRestarts = 0
    MaxSuspicions = 0
INVARIANT OnlyLowestAnnounces
CHECK_DEADLOCK FALSE
