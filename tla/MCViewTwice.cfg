SPECIFICATION Spec
CONSTANTS
    MaxChunks = 2
    MaxViews = 1
    Pool = {x1}
    Finisher = f
    EmptyOnly = FALSE
CHECK_DEADLOCK FALSE
INVARIANTS RowsOnce
