CONSTANTS
    Files = {f1, f2}
    Directories <- MCDirectories
    DirectoryOf <- MCDirectoryOf
    DoneDirectory = "run"
    WatchSpecs <- MCWatchSpecs
    Removable = {f1}
    OtherRanks = TRUE
    MaxTime = 3
    MaxWrites = 2
    MaxRemovals = 1
SPECIFICATION FairSpec
INVARIANTS
    TypeOK
    ReportsAreWrites
    StopsForTouchOnly
    ThrowsForRemovalOnly
    NothingOverlooked
PROPERTIES
    NewsIsReported
    TouchIsSeen
CHECK_DEADLOCK FALSE
