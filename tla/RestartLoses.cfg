SPECIFICATION Spec
CONSTANTS
    Nil = Nil
    p1 = p1
    p2 = p2
    c1 = c1
    c2 = c2
    Process = {p1, p2}
    Client = {c1, c2}
    Config <- MCShared
    MaxClock = 2
    MaxRestarts = 1
    MaxCalls = 3
    Time <- MCTime
    Replica <- MCReplica
    Value <- MCValue
    Cutoff <- MCCutoff
INVARIANT LastWriteWins
CHECK_DEADLOCK FALSE
