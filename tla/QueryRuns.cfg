CONSTANTS
    s1 = s1
    s2 = s2
    t1 = t1
    t2 = t2
    None = None
    Sessions <- MCSessions
    Home <- MCHome
    MaxRuns = 2
    MaxPieces = 4
    TextOf <- MCTextOf
    MaxSwitch = 1
    MaxLost = 1
SYMMETRY MCSymmetry
SPECIFICATION Spec
INVARIANTS
    TypeOK
    RunningIsTrue
    StatementsOnce
    PlanBesideItsResult
CHECK_DEADLOCK FALSE
