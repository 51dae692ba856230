SPECIFICATION Spec
CONSTANTS
    Runs = {r1}
    LongOps = {x1}
    Sessions = {s1, s2}
    EntryIds = {e1}
    Tunnels = {t1, t2}
    Creds = {c1}
    Lanes = {query}
    Cap <- CapOne
    IdleMax = 1
    MaxParked = 1
    Kind = "postgres"
    UsesTunnel = TRUE
    None = None
SYMMETRY Symmetric
INVARIANTS TunnelsHeld CountsAreTrue
