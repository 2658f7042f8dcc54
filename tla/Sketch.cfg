SPECIFICATION Spec
CONSTANTS
    Nil = Nil
    Observation <- MCObservation
    Bucket = {b1, b2}
    MinKey <- MCMinKey
    MaxKey = 8
    MaxBins = 2
    MaxFolded = 4
    MaxRead = 2
INVARIANTS
    StoredDecodes
    BucketsCanonical
    ViewCanonical
    QuantileAccurate
