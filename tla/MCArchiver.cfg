SPECIFICATION Spec
CONSTANTS
    id1 = id1
    id2 = id2
    garbage = garbage
    ClientMsgIDs <- TwoIDs
    Garbage = garbage
    StoreKinds <- BothStores
    BatchSize = 2
    CacheMax = 2
    MayFail = TRUE
    MaxLog = 3
    MaxCrashes = 1
SYMMETRY IDSymmetry
INVARIANT ShownIsStored
INVARIANT StoredOnce
PROPERTY OffsetBehindBatch
CHECK_DEADLOCK FALSE
