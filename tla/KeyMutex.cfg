SPECIFICATION FairSpec
CONSTANTS
    Process = {p1, p2, p3}
    Key = {k1}
    Mutex = {x1, x2, x3, x4, x5}
    None = None
PROPERTIES LockProgress ImplementsKeyLock
INVARIANTS MutualExclusion NoPanic
