CONSTANTS
    i1 = i1
    i2 = i2
    Instances <- MCAlone
    MaxSaves = 5
    MaxDamage = 2
SPECIFICATION Spec
INVARIANTS
    TypeOK
    OneValid
    EmptyOnlyAfterCut
