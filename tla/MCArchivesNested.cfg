SPECIFICATION Spec
CONSTANTS
    Exporters = {"a"}
    Dirs = {"ta", "tb", "archives"}
    Config <- MCNestedTarget
    BaseMatch <- MCOne
    MaxDay = 3
PROPERTIES
    OldArchivesGone
