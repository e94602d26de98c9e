SPECIFICATION Spec
CONSTANTS
    Exporters = {"a", "b"}
    Dirs = {"ta", "tb", "archives"}
    Config <- MCConfig
    BaseMatch <- MCBaseMatch
    MaxDay = 3
INVARIANTS
    ArchivesTypeOK
    UploadFindsArchive
PROPERTIES
    RetentionRespected
    OldArchivesGone
    UploadedWhenOk
