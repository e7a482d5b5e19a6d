SPECIFICATION FairSpec
CONSTANTS
    Nodes = {m, a, b}
    Master = m
    Goroutines = {1, 2}
    NoGoroutine = 0
    MaxMissed = 2
    MaxUnderWay = 1
    MaxCrashes = 1
    MaxRestarts = 1
INVARIANTS TypeOK WaiterIsReachable OneReaction ViewMatchesCount
PROPERTIES DeathIsNoticed DeathIsRedistributed
CHECK_DEADLOCK FALSE
