CONSTANTS
    dev = dev
    prod = prod
    c1 = c1
    c2 = c2
    x = x
    y = y
    z = z
    None = None
    Gone = Gone
    Conns <- MCConns
    Pks <- MCPks
    Cols <- MCCols
    Vals <- MCVals
    Start <- MCStart
    NewRows <- MCNewRows
    Remakes <- MCRemakes
    MaxSaves = 2
    MaxActs = 4
SPECIFICATION EditSpec
INVARIANTS
    EditTypeOK
    SentForItsRow
    ShownIsSaved
SYMMETRY MCSymmetry
CHECK_DEADLOCK FALSE
