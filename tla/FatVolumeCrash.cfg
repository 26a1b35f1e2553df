SPECIFICATION Spec
CONSTANTS
    n_fatent = 5
    NumSlots = 2
    FatPerSector = 3
    DirPerSector = 1
    Names = {a, b}
    Handles = {h1, h2}
    MaxSize = 2
    FsInfo = FALSE
    Exclusive = TRUE
    Functions <- UpdatesAndSeeks
    Faults = {"crash"}
SYMMETRY Interchangeable
INVARIANTS
    NoCrossLink
    SyncedSurvives
