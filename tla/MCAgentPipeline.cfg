SPECIFICATION Spec
CONSTANTS
    Workers = {w1, w2}
    garbage = garbage
    none = none
    Starts <- MCStarts
    Garbage = garbage
    Bindings = {1, 2}
    RoomOf <- MCRoomOf
    BotOf <- MCBotOf
    FirstBindings = {1}
    Configs <- MCConfigs
    NoConfig = none
    BatchSize = 2
    Decisions = {"approved", "removal", "needs_review"}
    MaxChunks = 1
    MaxEvents = 1
INVARIANTS
    AnsweredOnce
    IndexedIsApproved
PROPERTY RecordsSettle
CHECK_DEADLOCK FALSE
