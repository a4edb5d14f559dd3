SPECIFICATION FairSpec
CONSTANTS
    w1 = w1
    w2 = w2
    w3 = w3
    b1 = b1
    b2 = b2
    b3 = b3
    b4 = b4
    None = None
    Workers = {w1, w2, w3}
    Main = w1
    Blocks = {b1, b2, b3, b4}
    MARK_BATCH = 2
    Graphs <- MCGraphs
    RootLists <- MCRootLists
INVARIANTS
    TypeOK
    MarkIsExact
    OneTracer
    IdleCountIsExact
    NoLostWakeup
PROPERTIES
    MarkImplemented
    AllReturn
