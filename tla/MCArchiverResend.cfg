SPECIFICATION FairSpec
CONSTANTS
    id1 = id1
    id2 = id2
    garbage = garbage
    ClientMsgIDs <- TwoIDs
    Garbage = garbage
    StoreKinds <- MySQLOnly
    BatchSize = 2
    CacheMax = 2
    MayFail = FALSE
    MaxLog = 3
    MaxCrashes = 0
CHECK_DEADLOCK FALSE
PROPERTY EveryMessageStored
