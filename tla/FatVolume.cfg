SPECIFICATION Spec
CONSTANTS
    n_fatent = 6
    NumSlots = 2
    FatPerSector = 4
    DirPerSector = 1
    Names = {a, b}
    Handles = {h1, h2}
    MaxSize = 3
    FsInfo = TRUE
    Exclusive = TRUE
    Functions <- AllFunctions
    Faults = {}
SYMMETRY Interchangeable
INVARIANTS
    TypeOK
    FilesApart
    FreeCountExact
    NoLostCluster
    CleanWhenClosed
