SPECIFICATION HistorySpec
CONSTANTS
    IdEpoch = 1
    SeqRange = 2
    MaxClock = 3
    Tokens = {"a"}
    MaxLimit = 2
    SearchDefault = 1
    FetchMax = 2
    FetchDefault = 1
    Mentions = {"@agent"}
    HourLen = 2
    DayLen = 3
    Messages = {1, 2, 3}
    MsgRoom <- MCMsgRoom
    MsgSender <- MCMsgSender
    MsgType <- MCMsgType
    MsgText <- MCMsgText
    RoomTypes <- MCRoomTypes
    Stores = {"mysql", "mongo"}
    Keywords = {"a", "@agent"}
    DefaultLimit = 1
    RoomLatestMax = 2
    MaxLag = 1
    MaxWalks = 1
    MaxEvents = 1
INVARIANTS
    WalkComplete
    LatestFollowsStore
    
PROPERTIES
    IdsIncrease
CHECK_DEADLOCK FALSE
