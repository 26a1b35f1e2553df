SPECIFICATION Spec
CONSTANTS
    n_fatent = 5
    NumSlots = 2
    FatPerSector = 2
    DirPerSector = 1
    Names = {a, b}
    Handles = {h1}
    MaxSize = 2
    FsInfo = FALSE
    Exclusive = TRUE
    Functions <- WritesAndSeeks
    Faults = {"io", "crash"}
SYMMETRY Interchangeable
INVARIANTS
    FilOnChain
    NoCrossLink
    NoDangling
    SizeCovered
PROPERTIES
    MediumFollows
