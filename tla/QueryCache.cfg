SPECIFICATION FairSpec
CONSTANTS
    a = a
    b = b
    c = c
    t = t
    u = u
    x = x
    Vertex = {a, b, c}
    Type = {t, u}
    AnyType = AnyType
    NoType = NoType
    Feature = {x}
    Graphs <- SomeGraphs
    Queries <- SomeQueries
    None = None
    Failed = Failed
    Failures = {"lost", "redelivery", "timeout"}
    MaxRedelivered = 1
INVARIANTS NoPanic
PROPERTIES ImplementsQuery QueryEnds
CHECK_DEADLOCK FALSE
