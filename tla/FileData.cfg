\* One file of up to two clusters of two sectors of two bytes, word aligned
\* requests, failing transfers and power loss.
SPECIFICATION Spec
CONSTANTS
    SS = 2
    csize = 2
    NumClusters = 2
    MaxSize = 6
    Lengths = {3, 4}
    Aligned = {TRUE}
    Faults = {"io", "crash"}
INVARIANTS
    BufferCoherent
PROPERTIES
    OwnSectors
    Refinement
