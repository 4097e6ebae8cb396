SPECIFICATION Spec
CONSTANTS
    None = None
    a = a
    b = b
    Tx = {a, b}
    Name <- Names
    Start <- Graphs
    TxCalls <- FirstAndSecond
    Clones <- Selections
    Flaky <- Unsure
    Modes = {"merge"}
    MaxSessions = 2
    MaxFailures = 1
INVARIANTS OneSessionAtATime
PROPERTIES TransactionsAreIsolated OnlyAskedIsDeleted CallsActOnTheView CommitIsExact
SYMMETRY TxNames
CHECK_DEADLOCK FALSE
