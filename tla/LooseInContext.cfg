CONSTANTS
    State <- DiamondState
    Scan <- DiamondScan
    Effect <- DiamondEffect
    Dedup = {"a"}
    Keep = {}
    Spawner = {}
    Value <- Bit
    NoValue <- NoBit
    NextRead <- DiamondNextRead
    Result <- DiamondResult
    Done = "done"
    Rank <- DiamondRank
    MaxReads = 2
    MaxActions = 0
    MaxNotifys = 1
    LooseEnds = {"idle", "sc"}
SPECIFICATION Spec
INVARIANTS
    GetsAreCurrent
CHECK_DEADLOCK FALSE
