SPECIFICATION AdminSpec
CONSTANTS
    Requests = {r1, r2}
    MaxRequests = 3
    MaxFaults = 1
    Users = {1, 2}
    ManagedUsers = {1}
    UserActions = {"ban", "role_moderator"}
    Connections = {"c1", "c2"}
    ConnUser <- MCConnUser
    None = "none"
    FlagFields = {"enabled"}
    ValueFields = {"top_k"}
    Inputs <- MCInputs
    EventIds = {1, 2}
    EventRow <- MCEventRow
    ModerationActions = {"ban", "revoke", "confirmed", "approve"}
    Today = 4
    FileUsers = {1, 2}
    Keys = {1, 2}
    KeyOwner <- MCKeyOwner
    FileRooms = {1}
    FileMembers <- MCFileMembers
    ScanLimit = 1
    ListLimit = 2
    UserRow <- MCUserRow
    Rooms = {1, 2, 3}
    RoomRow <- MCRoomRow
    ToolCallRow <- MCToolCallRow
    ErrorRow <- MCErrorRow
    RAGRow <- MCRAGRow
    MaxPageSize = 3
    DefaultPageSize = 2
    Memberships <- MCMemberships
    AskedQueries <- MCAskedQueries
    WalkSize = 1
INVARIANTS
    AuditReplays
    OnlineFollowsOwner
    HistoryIntact
    ReviewsConsistent
    
    DownloadsAuthorized
    AuditWalkComplete
    
SYMMETRY RequestSymmetry
CHECK_DEADLOCK FALSE
