SPECIFICATION FairTimelySpec
CONSTANTS
    Nodes = {1, 2, 3}
    InitialMaster = 1
    MaxCrashes = 1
    MaxRestarts = 1
    MaxSuspicions = 1
INVARIANTS TypeOK RunningHasTimer
PROPERTY EventuallyLive
CHECK_DEADLOCK FALSE
