\* Requests whose memory is not word aligned.
SPECIFICATION Spec
CONSTANTS
    SS = 2
    csize = 2
    NumClusters = 2
    MaxSize = 6
    Lengths = {1, 4}
    Aligned = {TRUE, FALSE}
    Faults = {}
INVARIANTS
    BufferCoherent
