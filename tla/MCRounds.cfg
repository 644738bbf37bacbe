CONSTANTS
    Ranks = {r0, r1, r2}
    Root = r0
    Inporters = {r0, r1}
    Files <- MCTwoFiles
    ReadyConversion <- MCNoConversion
    SendBuffer = 1
    MaxDoneTime = 1
    MaxRewrites = 1
SPECIFICATION FairSpec
INVARIANTS
    TypeOK
    NothingLost
    RoundsDoNotMix
    InportersAgree
    InportersInStep
PROPERTIES
    ImplementsCoordinator
    ProcessedAgainOnLeaving
    OlderFilesProcessed
    AllDoneAllExit
CHECK_DEADLOCK FALSE
