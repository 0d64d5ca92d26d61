\* A schema with one table of each kind, two migrations, a pool of two connections.
SPECIFICATION Spec
CONSTANTS
    archive = archive
    codes   = codes
    ledger  = ledger
    log     = log
    rights  = rights
    users   = users
    TableOrder <- MCTableOrder
    KeepTables <- MCKeepTables
    IdColumn   <- MCIdColumn
    Audits     <- MCAudits
    Seeds      <- MCSeeds
    AutoId = 3
    Conns  = {c1, c2}
INVARIANTS
    LeftoverIsExplained
    OnlySeedsAreRecorded
    SeededRowsAreKept
    FreeSessionsCheckForeignKeys
