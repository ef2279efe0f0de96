CONSTANTS
    State <- PairState
    Scan <- DiamondScan
    Effect <- DiamondEffect
    Dedup = {"a"}
    Keep = {}
    Spawner = {}
    Value <- Bit
    NoValue <- NoBit
    NextRead <- PairNextRead
    Result <- DiamondResult
    Done = "done"
    Rank <- PairRank
    MaxReads = 2
    MaxActions = 0
    MaxNotifys = 0
    LooseEnds = {"idle"}
SPECIFICATION LoopSpec
PROPERTIES
    CallsReturn
    EffectsCatchUp
