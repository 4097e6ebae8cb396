SPECIFICATION FairSpec
CONSTANTS
    a = a
    b = b
    c = c
    t = t
    u = u
    x = x
    Vertex = {a, b, c}
    Type = {t, u}
    AnyType = AnyType
    NoType = NoType
    Feature = {x}
    Graphs <- AllGraphs
    Queries <- SomeQueries
    None = None
    Failed = Failed
    Failures = {"lost", "timeout"}
INVARIANTS AnswerHasMeaning CountersMatch
PROPERTIES ImplementsQuery QueryEnds
CHECK_DEADLOCK FALSE
