CONSTANTS
    p1 = p1
    p2 = p2
    p3 = p3
    a = a
    b = b
    Procs <- MCAlone
    Instances <- MCOne
    InstOf <- MCAloneOf
    NoProc = NoProc
    MaxPerDay = 2
    OldEntries <- MCOld
    MaxEntries = 3
SPECIFICATION HistorySpec
INVARIANTS
    DeletedIsGone
