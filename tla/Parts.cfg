CONSTANTS
    Effect = {e1, e2}
    Key = {k1, k2}
    MaxReads = 2
    All = All
    Id <- Phases
    Item = {x1, x2, x3}
    MaxId = 9
    Channel = {p, q}
    Context = {c, d}
    MaxDepth = 5
    Receiver = {r1, r2}
    NoKey = NoKey
    Outside = Outside
    NoRef = NoRef
    MaxObjects = 4
    MaxCalls = 2
SPECIFICATION Spec
INVARIANTS
    ChangesReachReaders
    RunsAreDue
    QueuesKeepOrder
    ContextsAreLentOnce
    RefsStayValid
PROPERTIES
    WaitersAreWoken
CHECK_DEADLOCK FALSE
