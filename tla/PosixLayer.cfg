\* The volume lock under the calls of fatfs.c: two tasks, mounts, a drive that
\* goes away, killed processes and a lock that cannot be created.
SPECIFICATION FairSpec
CONSTANTS
    Tasks = {"t1", "t2"}
    Objects = {"o1"}
    Nobody = "nobody"
    NoObject = "none"
    MaxMounts = 2
    MaxLeaks = 1
    MaxLoc = 1
    Faults = {"eject", "kill", "create"}
INVARIANTS
    TypeOK
    MutualExclusion
    LockBalance
    TransfersAtLoc
    HandlesOwned
PROPERTIES
    MountedUnderLock
    BodyNotKilled
    CallsReturn
