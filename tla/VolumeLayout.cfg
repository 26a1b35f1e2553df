SPECIFICATION Spec
CONSTANTS
    Drives <- MCDrives
    Foreign <- MCForeign
    AllocUnits = {0, 1, 4096}
    NearStart = {1, 2, 3, 341}
    MaxFormats = 2
    MaxCalls = 3
INVARIANTS
    FormatMounts
    VolumeInside
    FreshCount
PROPERTIES
    EntriesApart
    EntriesWhole
