SPECIFICATION CellsSpec
CONSTANTS
    Drivers = {"Postgres", "Mysql", "Trino"}
    Attempts = {a1, a2}
    Keys = {k1, k2}
    None = None
    MyConns = 2
    MyStatements <- MysqlStatements
    MyBacklog = 1
    MyBatches = 2
    MyEvents = 3
    TrQueries = 2
    TrPages = 3
    TrLimit = 1
    PgBounds = {"b"}
    PgRuns = 2
    PgStatements = 3
    ImportLines = 4
    ImportBatch = 2
    KeyEvents = 3
    SourceRows = 3
    FetchRows = 2
    WriteRows = 2
SYMMETRY Symmetric
CHECK_DEADLOCK FALSE
INVARIANTS
    TrueWord
    SessionsTrue
    ImportTrue
    TransferTrue
    AuthOnRecord
    ValuesKept
    CellsTrue
PROPERTIES
    Replaces
    TablesKept
