\* Two request threads, a registry of two, more scans than it can keep.
SPECIFICATION FairSpec
CONSTANTS
    Clients = {c1, c2}
    MaxScans = 4
    MaxJobs = 2
    TTL = 1
    MaxTime = 3
    MaxFaults = 1
INVARIANTS
    RegistryHolds
PROPERTIES
    ScansAreFound
    ScanReportsItsEnd
CHECK_DEADLOCK FALSE
