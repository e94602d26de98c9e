SPECIFICATION Spec
CONSTANTS
    Index <- MCIndex
    Files <- MCFiles
    Original <- MCOriginal
    Refs <- MCRefs
    Namespace <- MCNamespace
    ExportFields <- MCExportFields
    ArgLists <- MCArgLists
    AllFiles <- MCAllFiles
    AesKeys = {"k1", "k2"}
    Settings <- MCSettings
    Clusters <- MCClusters
    MaxCommands = 1
INVARIANTS
    OwnersUpdated
CHECK_DEADLOCK FALSE
