CONSTANTS
    dev = dev
    prod = prod
    d1 = d1
    d2 = d2
    x = x
    Raw = Raw
    Mangled = Mangled
    Null = Null
    Word = Word
    Gone = Gone
    None = None
    Conns <- MCConns
    Dbs <- MCDbs
    Places <- MCPlaces
    DefaultDb <- MCDefaultDb
    Pks <- MCPks
    Vals <- MCVals
    Texts <- MCTexts
    WordKeys <- MCWordKeys
    KeySent <- MCKeySent
    ValSent <- MCValSent
    Written <- MCWritten
    Start <- MCStart
    Limits = {1, 2}
    MaxIdle = 1
    MaxActs = 4
SPECIFICATION Spec
INVARIANTS
    TypeOK
    GoesToItsTarget
PROPERTIES
    SyncedRowsAreEqual
CHECK_DEADLOCK FALSE
