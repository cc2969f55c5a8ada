CONSTANTS
    a1 = a1
    a2 = a2
    Lines <- MCLines
    DriverPresent = TRUE
    MaxStat = 2
    MaxBatch = 2
SPECIFICATION Spec
INVARIANTS
    TypeOK
    StatsBalance
PROPERTIES
    Refinement
