SPECIFICATION FairSpec
CONSTANTS
    r1 = r1
    r2 = r2
    r3 = r3
    b = b
    ZeroHash = ZeroHash
    None = None
    Records = {r1, r2, r3, b}
    Version <- MCVersion
    Prev <- MCPrev
    Authentic <- AuthenticRecords
    Pointers <- Offered
    Calls = {t1, t2}
    maxDepth = 2
INVARIANTS
    ValidatedHistory
    HistoryHeld
PROPERTIES
    PointerAdvances
    StoreReturns
