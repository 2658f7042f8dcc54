SPECIFICATION Spec
CONSTANTS
    Nil = Nil
    Loop = Loop
    Closer = Closer
    w1 = w1
    w2 = w2
    r1 = r1
    f1 = f1
    o1 = o1
    o2 = o2
    o3 = o3
    sk = sk
    ck = ck
    hk = hk
    SampleKey = {sk}
    CounterKey = {ck}
    SketchKey = {}
    Modes = {TRUE}
    Writer = {w1}
    Caller = {}
    Reader = {}
    Pending = {o1, o2}
    StoreFaults = FALSE
    MaxClock = 2
    Me <- MCMe
    Replica <- MCReplica
    Value <- MCValue
    Time <- MCTime
    Cutoff <- MCCutoff
SYMMETRY Symmetry
INVARIANTS
    CloseFlushes
CHECK_DEADLOCK FALSE
