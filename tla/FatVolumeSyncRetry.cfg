SPECIFICATION Spec
CONSTANTS
    n_fatent = 5
    NumSlots = 2
    FatPerSector = 2
    DirPerSector = 1
    Names = {a, b}
    Handles = {h1}
    MaxSize = 2
    FsInfo = FALSE
    Exclusive = TRUE
    Functions <- OpenWriteSync
    Faults = {"io"}
SYMMETRY Interchangeable
INVARIANTS
    SyncedSurvives
