SPECIFICATION Spec
CONSTANTS
    ConfigFiles <- MCNamespaceFiles
    FlagSets <- MCNoFlags
    EnvKeys = {"none"}
    ValidKeys = {"k1"}
    DefaultKinds <- MCDefaultKinds
    Trim <- MCTrim
    ApiResources <- MCApiResources
    Instances <- MCInstances
INVARIANTS
    NamespaceRespected
CHECK_DEADLOCK FALSE
