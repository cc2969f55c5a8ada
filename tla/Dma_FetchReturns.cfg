CONSTANTS
    p1 = p1
    p2 = p2
    NoDesc = NoDesc
    Procs <- MCProcs
    RingSize = 3
    MaxBatch = 4096
    KmallocFails = FALSE
    PageCounts = {1}
    MaxHandles = 2
SPECIFICATION Spec
PROPERTY
    FetchReturns
