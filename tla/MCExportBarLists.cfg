SPECIFICATION ExportSpec
CONSTANTS
    N = 2
    W = 2
    Namespaced = {}
    Namespaces = {}
    ConfigNamespaces <- MCNoNamespaces
    Paged = FALSE
    MaxItems = 1
    MaxPages = 1
    PoolMayFail = FALSE
    Options <- MCBarLists
    StepsMayFail = FALSE
PROPERTIES
    SummaryPrinted
CHECK_DEADLOCK FALSE
