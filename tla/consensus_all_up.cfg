SPECIFICATION TimelySpec
CONSTANTS
    n1 = n1
    n2 = n2
    n3 = n3
    n4 = n4
    c1 = c1
    c2 = c2
    Nodes = {n1, n2, n3}
    Calls = {c1, c2}
    Caller <- TwoCallers
    Rounds = {r1, r2}
    NoRound = NoRound
    MaxAttempts = 2
    Failing = {}
PROPERTY EveryNodeApplies
CHECK_DEADLOCK FALSE
