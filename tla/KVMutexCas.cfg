SPECIFICATION Spec
CONSTANTS
    c1 = c1
    c2 = c2
    c3 = c3
    Client = {c1, c2, c3}
    Process = {c1, c2, c3}
    OneProcess = c1
    ProcessOf <- ClientsAreProcesses
    Rev = {1, 2, 3, 4, 5, 6, 7}
    None = None
    EntryExists = TRUE
    Lifetime = 2
    MaxTime = 2
    Failures = {"call", "watch", "crash"}
SYMMETRY Symmetry
INVARIANTS MutualExclusion
