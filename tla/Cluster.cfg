SPECIFICATION Spec
CONSTANTS
    Nil = Nil
    p1 = p1
    p2 = p2
    c1 = c1
    c2 = c2
    Process = {p1, p2}
    Client = {c1, c2}
    Config <- MCConfig
    MaxClock = 2
    MaxRestarts = 1
    MaxCalls = 4
    Time <- MCTime
    Replica <- MCReplica
    Value <- MCValue
    Cutoff <- MCCutoff
SYMMETRY Symmetry
INVARIANTS
    TypeOK
    WritesShown
    AddsCounted
    SequentialReads
    LeaseHolds
    LastWriteWinsLocally
PROPERTIES
    LogSpec
CHECK_DEADLOCK FALSE
