CONSTANTS
    Files = {f1}
    Directories <- MCDirectories
    DirectoryOf <- MCDirectoryOf
    DoneDirectory = "run"
    WatchSpecs <- MCWatchSpecs
    Removable = {}
    OtherRanks = FALSE
    MaxTime = 3
    MaxWrites = 1
    MaxRemovals = 0
SPECIFICATION FairSpec
PROPERTIES
    AnyTouchStops
CHECK_DEADLOCK FALSE
