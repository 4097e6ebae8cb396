SPECIFICATION FairSpec
CONSTANTS
    t = t
    u = u
    o = o
    p = p
    x = x
    y = y
    None = None
    Type <- TypeIds
    Object <- ObjectIds
    LinkType = {x, y}
    Start <- Graphs
    MaxCalls = 3
    MaxFailures = 1
INVARIANTS ObjectsAreWhole LinksAreDeclared
PROPERTIES CreationIsAnnounced CascadeIsReachability CallsEnd
CHECK_DEADLOCK FALSE
