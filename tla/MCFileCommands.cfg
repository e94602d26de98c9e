SPECIFICATION Spec
CONSTANTS
    Index <- MCIndex
    Files <- MCFiles
    Original <- MCOriginal
    Refs <- MCRefs
    Namespace <- MCNamespace
    ExportFields <- MCExportFields
    ArgLists <- MCArgLists
    AllFiles <- MCAllFiles
    AesKeys = {"k1", "k2"}
    Settings <- MCSettings
    Clusters <- MCClusters
    MaxCommands = 3
INVARIANTS
    FilesTypeOK
    ContentKept
    LostOnlyByFailure
    OneKeyPerFile
    DoneWhenOk
    NeverRefused
    StaleReported
CHECK_DEADLOCK FALSE
