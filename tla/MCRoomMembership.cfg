SPECIFICATION Spec
CONSTANTS
    u1 = u1
    u2 = u2
    r1 = r1
    h1 = h1
    h2 = h2
    none = none
    None = none
    Users <- TwoUsers
    Rooms <- OneRoom
    Handlers <- TwoHandlers
    Runtimes <- BothRuntimes
    MayFail = TRUE
    MaxRequests = 3

INVARIANT SubscriptionsFollow
CHECK_DEADLOCK FALSE
