SPECIFICATION Spec
CONSTANTS
    Nil = Nil
    Loop = Loop
    Closer = Closer
    w1 = w1
    w2 = w2
    r1 = r1
    f1 = f1
    o1 = o1
    o2 = o2
    o3 = o3
    sk = sk
    ck = ck
    hk = hk
    SampleKey = {sk}
    CounterKey = {}
    SketchKey = {}
    Modes = {TRUE}
    Writer = {w1, w2}
    Caller = {f1}
    Reader = {}
    Pending = {o1, o2, o3}
    StoreFaults = TRUE
    MaxClock = 3
    Me <- MCMe
    Replica <- MCReplica
    Value <- MCValue
    Time <- MCOneSecond
    Cutoff <- MCNever
SYMMETRY Symmetry
INVARIANTS
    ExclusivePending
    FlushSettles
CHECK_DEADLOCK FALSE
