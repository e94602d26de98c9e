SPECIFICATION ExportSpec
CONSTANTS
    N = 2
    W = 2
    Namespaced = {}
    Namespaces = {}
    ConfigNamespaces <- MCNoNamespaces
    Paged = TRUE
    MaxItems = 1
    MaxPages = 2
    PoolMayFail = TRUE
    Options <- MCOptions
    StepsMayFail = TRUE
INVARIANTS
    ExportTypeOK
    ResultsFinalWhenRead
    SuccessMeansAllDone
    ListErrorsInSummary
PROPERTIES
    SummaryPrinted
    ExportReturns
