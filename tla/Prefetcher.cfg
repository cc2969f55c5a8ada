CONSTANTS
    t1 = t1
    t2 = t2
    layer0 = layer0
    Threads <- MCThreads
    Layers <- MCLayers
    Resident = {}
    InitDepth = 4
    SetDepths = {2, 8}
    QueueCap = 2
    RecentN = 10
    SizeMod = 16
    MaxIssued = 4
SPECIFICATION Spec
INVARIANTS
    TypeOK
    DepthWithinRaceBound
