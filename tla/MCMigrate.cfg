SPECIFICATION Spec
CONSTANTS
    r1 = r1
    r2 = r2
    g1 = g1
    Runner <- Runners
    Gate <- Gates
    Version <- Versions
    Image <- Images
    NoTx <- NoTxs
    Order <- Orders
    Nil = Nil
INVARIANTS
    TypeOK
    ListStaysCurrent
    SchemaMatchesRecord
    SuccessMeansMigrated
    ReportIsHonest
    GateTellsTheTruth
PROPERTIES
    NoLateVersions
    LockIsReleased
\* Every run and every gate ends.
CHECK_DEADLOCK FALSE
