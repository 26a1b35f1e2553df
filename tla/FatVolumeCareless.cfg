SPECIFICATION FairSpec
CONSTANTS
    n_fatent = 4
    NumSlots = 2
    FatPerSector = 3
    DirPerSector = 1
    Names = {"a", "b"}
    Handles = {"h1"}
    MaxSize = 2
    FsInfo = FALSE
    Exclusive = FALSE
    Functions <- UpdatesAndSeeks
    Faults = {}
INVARIANTS
    WindowCoherent
PROPERTIES
    FunctionsEnd
