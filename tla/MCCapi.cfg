SPECIFICATION Spec
CONSTANTS
    Names = {"a", "b"}
    InodesCount = 8
    InodesPerGroup = 4
    FirstInode = 3
    MAX_LINKS = 4
    DirNlink = TRUE
    Grows = {0, 2}
    GenMod = 16
    Seed = 7
    Paths <- MCPaths
    VolStarts <- MCStarts
    MaxOps = 2
    MaxHandles = 1
    Kept = {6}
    Threads = {th}
    Sizes = {0, 2}
    EntryOrder <- MCOrder
    MaxMounts = 1
INVARIANTS LinksExact TreeShape CountersExact HandleExact ListingComplete
PROPERTY UnreplayedUntouched
CHECK_DEADLOCK FALSE
