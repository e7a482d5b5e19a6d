SPECIFICATION Spec
CONSTANTS
    n1 = n1
    n2 = n2
    n3 = n3
    n4 = n4
    c1 = c1
    c2 = c2
    Nodes = {n1, n2, n3}
    Calls = {c1, c2}
    Caller <- TwoCallers
    Rounds = {r1, r2}
    NoRound = NoRound
    MaxAttempts = 2
    Failing = {c2}
CONSTRAINT FewMessages
SYMMETRY RoundSymmetry
INVARIANTS TypeOK CommitHasQuorum
PROPERTY ImplementsAtomicCommit
CHECK_DEADLOCK FALSE
