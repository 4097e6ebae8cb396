SPECIFICATION FairSpec
CONSTANTS
    c1 = c1
    Client = {c1}
    Handler = Handler
    n1 = n1
    n2 = n2
    n3 = n3
    StoreValue = {n1, n2, n3}
    None = None
    MaxTime = 2
    MaxUpdates = 3
    Events = {"other", "fail", "restart"}
INVARIANTS UnneededIsWritten QuietAgrees
PROPERTIES OwnWritesMoveForward NeededIsWritten
