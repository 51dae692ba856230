SPECIFICATION FairSpec
CONSTANTS
    Runs = {r1, r2}
    LongOps = {}
    Sessions = {s1}
    EntryIds = {e1}
    Tunnels = {t1}
    Creds = {c1}
    Lanes = {query}
    Cap <- CapOne
    IdleMax = 1
    MaxParked = 1
    Kind = "mysql"
    UsesTunnel = TRUE
    None = None
PROPERTIES PoolSettles
