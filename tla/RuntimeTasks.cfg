CONSTANTS
    t1 = t1
    t2 = t2
    e1 = e1
    Task = {t1, t2}
    Effect = {}
    Phase <- Phases
    PhaseOf <- PhaseOfAll
    Config <- SomePhases
    Key = {k1, k2}
    None = None
    All = All
    Use = {"action", "actions", "flush", "context", "lend", "drop"}
    Hold = {}
    MaxActions = 1
    MaxNotifys = 0
    MaxDiscards = 0
    MaxRuntimes = 2
SPECIFICATION Spec
INVARIANTS
    KeysAgree
    RemovalFreesNoFuture
    WokenIsPending
    TasksEndWithRuntime
PROPERTIES
    EntryGoesWithItsWakes
    ActionsKeepOrder
