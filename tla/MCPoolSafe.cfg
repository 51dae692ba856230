SPECIFICATION Spec
CONSTANTS
    Runs = {r1, r2}
    LongOps = {}
    Sessions = {s1, s2}
    EntryIds = {e1, e2}
    Tunnels = {}
    Creds = {c1, c2}
    Lanes = {query}
    Cap <- CapOne
    IdleMax = 1
    MaxParked = 1
    Kind = "mysql"
    UsesTunnel = FALSE
    None = None
SYMMETRY Symmetric
INVARIANTS SoleOwner OwnCredential NothingStranded CancelStaysHome
