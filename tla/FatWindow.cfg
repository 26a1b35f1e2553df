SPECIFICATION Spec
CONSTANTS
    FatSectors <- MCFatSectors
    OtherSectors <- MCOtherSectors
    Contents <- MCContents
    FsInfoSector = "fsinfo"
    NoSector = "none"
    Faults = {"io", "crash"}
INVARIANTS
    WindowInv
    WindowTruth
PROPERTIES
    Refinement
    MirrorAfterPrimary
