SPECIFICATION Spec
CONSTANTS
    Instances = {i1}
    Groups = {a, b, c}
    Conns = {k}
    Root = root
    Absent = absent
    MaxOps = 3
SYMMETRY Symm
INVARIANTS
    TypeOK
    ConnsGrouped
    NoCycle
    OrphanOnlyByDepth
CHECK_DEADLOCK FALSE
