SPECIFICATION Spec
CONSTANTS
    Callers = {c1, c2, c3}
    Titles <- MCTitles
    Batches <- MCBatches
    Conns = {k1, k2}
    Nobody = Nobody
    MaxCalls = 3
INVARIANTS
    FreeConnsAreClean
    ListedInOrderSaved
PROPERTIES
    ImplementsLedger
    CallsEnd
CHECK_DEADLOCK FALSE
