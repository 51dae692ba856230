SPECIFICATION ResultsSpec
CONSTANTS
    MaxChunks = 2
    MaxViews = 2
    Pool = {x1, x2}
    Finisher = f
    EmptyOnly = FALSE
    Calls = {c1, c2}
    MaxRows = 3
    Limits = {2}
    None = None
CHECK_DEADLOCK FALSE
INVARIANTS
    NothingMissed
    RunTold
PROPERTIES
    CatchesUp
    StopEnds
