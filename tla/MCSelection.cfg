SPECIFICATION Spec
CONSTANTS
    ConfigFiles <- MCConfigFiles
    FlagSets <- MCFlagSets
    EnvKeys <- MCEnvKeys
    ValidKeys = {"k1"}
    DefaultKinds <- MCDefaultKinds
    Trim <- MCTrim
    ApiResources <- MCApiResources
    Instances <- MCInstances
INVARIANTS
    SelectionTypeOK
    SecretsCovered
    NamespacesJoined
    ExportsTheSelection
    ExportedOnce
CHECK_DEADLOCK FALSE
