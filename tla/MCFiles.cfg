SPECIFICATION FilesSpec
CONSTANTS
    Plans <- AllPlans
    Retries = 2
    Exports = {e1, e2}
    ExportRows = 3
    ExportLimits = {0, 2}
    ExportTogether = {"streamed"}
SYMMETRY Symmetric
CHECK_DEADLOCK FALSE
INVARIANTS
    ReportTrue
    WriteOnce
    InsideFence
    ExportTrue
    HelperTrue
    SqlTrue
    EditorTrue
    FilesTrue
PROPERTY StagedOwn
