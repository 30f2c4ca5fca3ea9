SPECIFICATION FairSpec
CONSTANTS
    c1 = c1
    c2 = c2
    c3 = c3
    r1 = r1
    r2 = r2
    s1 = s1
    s2 = s2
    Clients <- OneClient
    Rooms <- TwoRooms
    Shards <- TwoShards
    RoomShard <- RoomPerShard
    UserShard <- UsersOnOne
    ForwardCap = 1
    KillCap = 4
    SendCap = 1
    PoolSize = 1
    FanoutThreshold = 1
    FanoutBatchSize = 1
    MaxMsgs = 2
CHECK_DEADLOCK FALSE
PROPERTY AcceptedIsServed
 
