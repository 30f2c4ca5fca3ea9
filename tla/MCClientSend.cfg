SPECIFICATION FairSendSpec
CONSTANTS
    p1 = p1
    p2 = p2
    q1 = q1
    q2 = q2
    Senders <- TwoSenders
    Closers <- TwoClosers
    ChanCap = 2
    MaxSends = 2
INVARIANT NoPanic
INVARIANT DrainFindsPayloads
INVARIANT StreamIntact
INVARIANT ClosedAfterLast
PROPERTY CallersReturn
PROPERTY PumpEnds
CHECK_DEADLOCK FALSE
