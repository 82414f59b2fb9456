CONSTANTS
    p1 = p1
    p2 = p2
    q1 = q1
    a = a
    b = b
    Procs <- MCProcs
    Instances <- MCInstances
    InstanceOf <- MCInstanceOf
    Entries = {e1}
    None = None
    Cut = Cut
    Torn = Torn
    MaxCalls = 4
    MaxCrashes = 1
SPECIFICATION Spec
INVARIANTS
    TypeOK
    LoadsUnlessShared
PROPERTIES
    EachCallAtomic
CHECK_DEADLOCK FALSE
