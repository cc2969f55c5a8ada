CONSTANTS
    PageSize = 2
    L1Size = 2
    HotThreshold = 1
    MaxAllocSize = 3
    VaLimit = 18
    MaxListLen = 4
    MaxOffset = 3
    NumLayers = 2
    QueueCap = 2
    MaxIssued = 13
    MaxCalls = 2
    MaxClientCalls = 3
SPECIFICATION Spec
\* cxl_access blocks for ever inside promote_to_l1 once it evicts: the
\* process really stops there.
CHECK_DEADLOCK FALSE
INVARIANT
    HandlesLive
