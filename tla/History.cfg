CONSTANTS
    p1 = p1
    p2 = p2
    p3 = p3
    a = a
    b = b
    Procs <- MCProcs
    Instances <- MCInstances
    InstOf <- MCInstOf
    NoProc = NoProc
    MaxPerDay = 2
    OldEntries <- MCOld
    MaxEntries = 3
SPECIFICATION HistorySpec
INVARIANTS
    HistoryTypeOK
PROPERTIES
    NoEntryLost
    CallsReturn
