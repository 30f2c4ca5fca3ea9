SPECIFICATION FairSpec
CONSTANTS
    c1 = c1
    c2 = c2
    u1 = u1
    r1 = r1
    ctl1 = ctl1
    ctl2 = ctl2
    none = none
    None = none
    Clients <- TwoClients
    Users <- OneUser
    Rooms <- OneRoom
    Controllers <- OneController
    UserOf <- SameUser
    Ops <- AllOps
INVARIANT NoLostSubscription
INVARIANT OnlineEntryIsLive
INVARIANT ClosedIsDetached
PROPERTY EntryRemovedByOwner
PROPERTY CallsReturn
PROPERTY ClosedConnectionEnds
