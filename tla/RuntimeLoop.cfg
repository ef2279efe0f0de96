CONSTANTS
    t1 = t1
    t2 = t2
    e1 = e1
    Task = {t1}
    Effect = {e1}
    Phase <- OnePhase
    PhaseOf <- PhaseOfAll
    Config <- AnyPhase
    Key = {k1, k2}
    None = None
    All = All
    Use = {"flush", "lend", "discards"}
    Hold = {e1}
    MaxActions = 1
    MaxNotifys = 1
    MaxDiscards = 1
    MaxRuntimes = 1
SPECIFICATION LoopSpec
INVARIANTS
    ParkedMeansIdle
PROPERTIES
    FlushLeavesOnlyWoken
    TasksFinish
    EffectsCatchUp
