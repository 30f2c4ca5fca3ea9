SPECIFICATION IngestSpec
CONSTANTS
    id1 = id1
    id2 = id2
    reply = reply
    old = old
    garbage = garbage
    ClientMsgIDs <- MCIds
    Garbage = garbage
    StoreKinds <- MongoOnly
    BatchSize = 2
    CacheMax = 2
    MayFail = FALSE
    MaxLog = 3
    MaxCrashes = 0
    Connections = {1}
    Agent = 9
    IdsOf <- MCIdsOf
    NoId = none
    Nodes = {n1}
    Foreign <- MCForeign
    AsyncModes = {TRUE, FALSE}
    MaxSends = 2
    MaxFaults = 1
INVARIANT LiveAgrees
 
CHECK_DEADLOCK FALSE
