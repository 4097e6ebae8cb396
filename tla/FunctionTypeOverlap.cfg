SPECIFICATION Spec
CONSTANTS
    Id = {i1}
    Payload = {a, b}
    Sender = {s1}
    Chan = {c1, c2}
    GC = GC
    None = None
    MsgChannelSize = 1
    MaxIdHandlers = 0
    HasExecutor = FALSE
    MaxLingering = 1
INVARIANTS SequentialPerId
