SPECIFICATION StoresSpec
CONSTANTS
    Stores = {s1, s2}
    Readers = {r1, r2}
    Pool = {}
    MaxChunks = 2
    Budget = 2
    LowWater = 1
    DecodedCap = 2
    EvictKeep = 1
    SpillOn = TRUE
    Overlap = {}
    None = None
    CloseReaders = {q1}
    ClosePool = {}
    CloseChunks = 1
    CloseBudget = 1
    CloseLowWater = 0
    CloseDecodedCap = 1
    CloseKeep = 0
SYMMETRY Symmetric
CHECK_DEADLOCK FALSE
INVARIANTS AccountsTrue BudgetHeld RowsBacked NoFileLeft
