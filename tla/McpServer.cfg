CONSTANTS
    m1 = m1
    m2 = m2
    r1 = r1
    c1 = c1
    Managers <- MCManagers
    NoManager = NoManager
    Requests <- MCRequests
    ConnIDs <- MCConnIDs
    AnyConn = AnyConn
    Kinds <- MCKinds
    Ports = {1, 2}
    DefaultPort = 1
    Updates <- MCUpdates
    Calls <- MCCalls
    MaxServers = 3
    MaxTokens = 1
    MaxFails = 1
SYMMETRY MCSymmetry
SPECIFICATION McpSpec
INVARIANTS
    McpTypeOK
    ServedIsSaved
    RevokedIsOver
\* After a reset the application quits: then nothing need happen any more.
CHECK_DEADLOCK FALSE
