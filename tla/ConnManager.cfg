CONSTANTS
    p1 = p1
    p2 = p2
    c1 = c1
    Procs <- MCProcs
    Cfgs <- MCCfgs
    NoCfg = NoCfg
    Tunneled <- MCCfgs
    MaxPools = 3
SPECIFICATION Spec
INVARIANTS
    TypeOK
    RegisteredUsable
PROPERTIES
    OnlyOverwriteLeaks
    DetachedIsClosed
