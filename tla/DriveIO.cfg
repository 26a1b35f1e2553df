SPECIFICATION FairSpec
CONSTANTS
    Blocks <- MCBlocks
    Contents <- MCContents
    MAX_RETRIES = 3
    wait_busy_timeout_count = 2
    Faults = {"io", "ioctl", "shared"}
INVARIANTS
    DriveInv
PROPERTIES
    Service
    CallsEnd
