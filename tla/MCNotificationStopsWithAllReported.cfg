CONSTANTS
    Files = {f1}
    Directories <- MCDirectories
    DirectoryOf <- MCDirectoryOf
    DoneDirectory = "run"
    WatchSpecs <- MCWatchSpecs
    Removable = {}
    OtherRanks = FALSE
    MaxTime = 3
    MaxWrites = 1
    MaxRemovals = 0
SPECIFICATION Spec
INVARIANTS
    StopsWithAllReported
CHECK_DEADLOCK FALSE
