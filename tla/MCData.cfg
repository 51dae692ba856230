SPECIFICATION DataSpec
CONSTANTS
    Host = {h1, h2}
    Cli = {c1, c2}
    Older = {c2}
    Latest = 2
    FileRows = {r1, r2}
    MaxStarts = 3
    None = None
    SavedRows <- FourKinds
    GivenTokens <- ThreeReaches
    McpAsked = 1
    McpEdits = 1
    GivenSettings <- Families
    KnownServers <- Databases
    ConnectPages = 1
SYMMETRY Symmetric
CHECK_DEADLOCK FALSE
INVARIANTS LogIsChain MarkersTrue EditsKept McpConfined SecretsGuarded AliasTrue
PROPERTIES WordKept
