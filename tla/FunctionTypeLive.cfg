SPECIFICATION FairSpec
CONSTANTS
    Id = {i1}
    Payload = {a, b}
    Sender = {s1, s2}
    Chan = {c1, c2, c3}
    GC = GC
    None = None
    MsgChannelSize = 1
    MaxIdHandlers = 0
    HasExecutor = FALSE
    MaxLingering = 2
PROPERTIES AcceptedIsHandled ClosedHandlerEnds LockIsReleased
