SPECIFICATION FairSpec
CONSTANTS
    Run = {r1, r2}
    Asked <- Shapes
    Clips = 2
    PoolSize = 2
    MaxCrashes = 1
INVARIANTS TypeOK StoredIsWholeAndOwn NoOrphanProcess LeftoverIsAnUpscale
PROPERTY RunEnds
