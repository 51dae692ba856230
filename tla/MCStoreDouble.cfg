SPECIFICATION Spec
CONSTANTS
    Stores = {s1, s2}
    Readers = {}
    Pool = {}
    MaxChunks = 1
    Budget = 1
    LowWater = 0
    DecodedCap = 1
    EvictKeep = 0
    SpillOn = TRUE
    Overlap = {"spill"}
    None = None
CHECK_DEADLOCK FALSE
INVARIANTS AccountsTrue
