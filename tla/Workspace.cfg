CONSTANTS
    a = a
    b = b
    h1 = h1
    h2 = h2
    db = db
    q1 = q1
    None = None
    NoFile = NoFile
    Blank = Blank
    Typed = Typed
    Cfgs <- MCCfgs
    Hostings <- MCHostings
    Databases <- MCDatabases
    Clicks <- MCClicks
    Works <- MCWorks
    MaxActs = 3
SPECIFICATION Spec
INVARIANTS
    TypeOK
    StoreIsCoherent
    WorkSaved
    TwinsOnlyByRace
PROPERTIES
    RestoreEnds
CHECK_DEADLOCK FALSE
