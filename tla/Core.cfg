SPECIFICATION Spec
CONSTANTS
    Nil = Nil
    Loop = Loop
    Closer = Closer
    w1 = w1
    w2 = w2
    r1 = r1
    f1 = f1
    o1 = o1
    o2 = o2
    o3 = o3
    sk = sk
    ck = ck
    hk = hk
    SampleKey = {sk}
    CounterKey = {ck}
    SketchKey = {}
    Modes = {TRUE, FALSE}
    Writer = {w1, w2}
    Caller = {}
    Reader = {}
    Pending = {o1, o2}
    StoreFaults = TRUE
    MaxClock = 2
    Me <- MCMe
    Replica <- MCReplica
    Value <- MCValue
    Time <- MCTime
    Cutoff <- MCCutoff
SYMMETRY Symmetry
INVARIANTS
    TypeOK
    DistinctStamps
    NoSilentLoss
    AtMostOnce
PROPERTIES
    NeverOlder
    LedgerSpec
CHECK_DEADLOCK FALSE
