SPECIFICATION TimelySpec
CONSTANTS
    Nodes = {1, 2, 3}
    InitialMaster = 1
    MaxCrashes = 1
    MaxRestarts = 0
    MaxSuspicions = 0
INVARIANT DeadAreRedistributed
CHECK_DEADLOCK FALSE
