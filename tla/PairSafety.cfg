CONSTANTS
    State <- PairState
    Scan <- DiamondScan
    Effect <- PairEffect
    Dedup = {"a"}
    Keep = {"b"}
    Spawner = {"e"}
    Value <- Bit
    NoValue <- NoBit
    NextRead <- PairNextRead
    Result <- DiamondResult
    Done = "done"
    Rank <- PairRank
    MaxReads = 2
    MaxActions = 1
    MaxNotifys = 0
    LooseEnds = {"idle"}
SPECIFICATION Spec
INVARIANTS
    DirtyEffectIsQueuedOnce
    EffectsAreCurrent
PROPERTIES
    KeptCacheStays
