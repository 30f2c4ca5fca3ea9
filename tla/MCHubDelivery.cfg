SPECIFICATION Spec
CONSTANTS
    c1 = c1
    c2 = c2
    c3 = c3
    r1 = r1
    r2 = r2
    s1 = s1
    s2 = s2
    Clients <- ThreeClients
    Rooms <- OneRoom
    Shards <- OneShard
    RoomShard <- OneRoomOnOne
    UserShard <- UsersOnOne
    ForwardCap = 1
    KillCap = 1
    SendCap = 1
    PoolSize = 2
    FanoutThreshold = 2
    FanoutBatchSize = 2
    MaxMsgs = 2
INVARIANT NobodyForgotten
INVARIANT RoomOrder
PROPERTY ServesRoomFeed
SYMMETRY ClientSymmetry
CHECK_DEADLOCK FALSE
