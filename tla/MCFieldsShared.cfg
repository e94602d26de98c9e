SPECIFICATION Spec
CONSTANTS
    Sources <- MCSecretOnly
    Configs <- MCShared
    AesKeys = {"k1"}
    Value <- MCValue
    Half = 8
    Index <- MCIndex
INVARIANTS
    PreservedFieldsKept
CHECK_DEADLOCK FALSE
