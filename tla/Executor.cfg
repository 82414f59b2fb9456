SPECIFICATION Spec
CONSTANTS
    Procs = {p1, p2}
    Cancels = {q1}
    Tabs = {tab}
    Singles = {conn}
    Databases = {db}
    NoDb = nodb
    Conns = {c1}
    Ctxs = {x1, x2, x3}
    None = None
    MaxStmts = 2
INVARIANTS
    TypeOK
    RunsInItsDatabase
    OnlyItsKey
    Cancellable
PROPERTY QueriesReturn
