CONSTANTS
    PageSize = 2
    L1Size = 2
    HotThreshold = 1
    MaxAllocSize = 4
    VaLimit = 6
    MaxListLen = 2
SPECIFICATION Spec
\* promote_to_l1 deadlocks its thread when it evicts (see PromoteEvict):
\* the manager really stops there.
CHECK_DEADLOCK FALSE
INVARIANT
    L1WithinCapacity
