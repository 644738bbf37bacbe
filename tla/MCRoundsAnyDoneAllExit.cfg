CONSTANTS
    Ranks = {r0, r1}
    Root = r0
    Inporters = {r0, r1}
    Files <- MCTwoFiles
    ReadyConversion <- MCNoConversion
    SendBuffer = 1
    MaxDoneTime = 1
    MaxRewrites = 0
SPECIFICATION FairSpec
PROPERTIES
    AnyDoneAllExit
CHECK_DEADLOCK FALSE
