CONSTANTS
    t1 = t1
    t2 = t2
    e1 = e1
    Task = {}
    Effect = {e1}
    Phase <- OnePhase
    PhaseOf <- PhaseOfAll
    Config <- AnyPhase
    Key = {k1, k2}
    None = None
    All = All
    Use = {"flush", "drop"}
    Hold = {e1}
    MaxActions = 1
    MaxNotifys = 0
    MaxDiscards = 0
    MaxRuntimes = 2
SPECIFICATION Spec
INVARIANTS
    DropDefersClearing
