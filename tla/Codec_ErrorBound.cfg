CONSTANTS
    Vals <- MCVals
    MaxLen = 3
    RunCap = 2
    MaxStat = 2
    PageSize = 2
    TlbSize = 2
    AddrMod = 8
    PhysBase = 16
    VAddrs <- MCVAddrs
SPECIFICATION Spec
INVARIANT
    ErrorBound
