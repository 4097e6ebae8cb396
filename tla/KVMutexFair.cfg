SPECIFICATION FairSpec
CONSTANTS
    c1 = c1
    c2 = c2
    c3 = c3
    Client = {c1, c2}
    Process = {c1, c2}
    OneProcess = c1
    ProcessOf <- OneProcessForAll
    Rev = {1, 2, 3, 4, 5}
    None = None
    EntryExists = FALSE
    Lifetime = 1
    MaxTime = 3
    Failures = {"crash"}
PROPERTIES FreeIsTaken WaiterSeesRelease DeadLockIsTakenOver
