SPECIFICATION Spec
CONSTANTS
    Calls = {q1}
    Peers = {p1, p2, p3}
INVARIANT TypeOK
INVARIANT CompleteInTime
INVARIANT NoUselessWait
PROPERTY EveryCallReturns
CHECK_DEADLOCK FALSE
