SPECIFICATION Spec
CONSTANTS
    SegmentSize = 2
    Word = 16
    Span = 2
    MaxDelta = 2
    MaxClock = 4
    Time <- MCTime
    Replica <- MCReplica
    Value <- MCValue
    Cutoff <- MCCutoff
INVARIANTS
    WellFormed
    RedeliveryHarmless
    EachPartOnce
    ReferenceAgrees
    FirstAndLast
    SketchesInOrder
    LeavesTheLoop
PROPERTIES
    LogSpec
