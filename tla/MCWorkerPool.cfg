SPECIFICATION Spec
CONSTANTS
    N = 3
    W = 2
    n1 = n1
    n2 = n2
    Namespaced <- MCNamespaced
    Namespaces = {n1, n2}
    ConfigNamespaces <- MCTwoNamespaces
    Paged = FALSE
    MaxItems = 1
    MaxPages = 2
    PoolMayFail = TRUE
INVARIANTS
    PoolTypeOK
    WgCountsUnfinished
    NoSendOnClosedOut
    OutHasRoom
    NoSharedKind
PROPERTIES
    NothingAfterClose
    FinishedIsFinal
    ImplementsJob
    RunExportReturns
