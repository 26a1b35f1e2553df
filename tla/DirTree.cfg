SPECIFICATION Spec
CONSTANTS
    Names <- Names3
    Long <- LongOf
    Basis <- BasisOf
    NS_LFN <- LongNames
    NS_LOSS <- LongNames
    Sum <- SumOf
    Paths <- Paths4
    MaxSeq = 3
    SecEntries = 2
    csize = 2
    n_rootdir = 4
    n_fatent = 4
    Types = {"FAT16", "FAT32"}
    Faults = {"once", "dead", "power"}
    MaxFaults = 1
    MaxCalls = 5
CHECK_DEADLOCK FALSE
VIEW NoHistory
INVARIANTS
    TablesApart
    NamesUnique
PROPERTIES
    Promise
