SPECIFICATION Spec
CONSTANTS
    Sources <- MCSources
    Configs <- MCConfigs
    AesKeys = {"k1", "k2"}
    Value <- MCValue
    Half = 8
    Index <- MCIndex
INVARIANTS
    FieldsTypeOK
    ExcludedFieldsGone
    OthersUntouched
    PreservedWhenApart
    SecretsHidden
    DecryptInverts
    SlicesSorted
CHECK_DEADLOCK FALSE
