SPECIFICATION Spec
CONSTANTS
    Id = {i1, i2}
    Payload = {a, b}
    Sender = {s1, s2}
    Chan = {c1, c2, c3}
    GC = GC
    None = None
    MsgChannelSize = 1
    MaxIdHandlers = 2
    HasExecutor = FALSE
    MaxLingering = 2
SYMMETRY Symmetry
INVARIANTS NoChannelPanic AcceptedIsQueued
CHECK_DEADLOCK FALSE
