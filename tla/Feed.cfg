CONSTANTS
    Reader = {r1, r2}
    NoCursor = NoCursor
    Gone = Gone
    NoView = NoView
    Nobody = Nobody
    Models <- BothModels
    Edits <- EditsOf
    Release <- ReleaseOf
    Resolve <- ResolveOf
    Initial <- InitialOf
    Empty <- EmptyOf
    View <- ViewOf
    Replay <- ReplayOf
    Stored <- StoredOf
    Live <- LiveOf
    Names <- NamesOf
    Frees <- FreesOf
    AgeMod = 4
    MaxHistory = 2
    MaxQueued = 2
    MaxGuards = 2
    VecKey = {k1, k2, k3, k4}
    Value = {0, 1}
    MaxItems = 3
    SlabKey = {k1,k2,k3,k4}
    Item = {0,1}
SYMMETRY Symmetry
CONSTRAINT FewWithVec
SPECIFICATION Spec
INVARIANTS
    ReadersAreCounted
    SlabHoldsWhatIsNamed
PROPERTIES
    CompactionCatchesUp
    ImplementsSnapshots
