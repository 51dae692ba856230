SPECIFICATION MysqlSpec
CONSTANTS
    Drivers = {"Trino"}
    Attempts = {a1}
    Keys = {k1}
    None = None
    MyConns = 2
    MyStatements <- MysqlTransaction
    MyBacklog = 1
    MyBatches = 1
    MyEvents = 6
    TrQueries = 1
    TrPages = 1
    TrLimit = 1
    PgBounds = {"b"}
    PgRuns = 1
    PgStatements = 1
    ImportLines = 1
    ImportBatch = 1
    KeyEvents = 1
    SourceRows = 1
    FetchRows = 1
    WriteRows = 1
CHECK_DEADLOCK FALSE
INVARIANTS NotOverNothing
