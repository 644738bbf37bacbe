CONSTANTS
    Ranks = {r0, r1}
    Root = r0
    Files <- MCFiles
    ReadyConversion <- MCReadyConversion
    MaxTick = 4
SPECIFICATION Spec
INVARIANTS
    TypeOK
    OnlyNewestWithheld
    WritersAreReporters
    AnnouncedDelivered
    SignalsNotDelivered
    DoneFlushes
PROPERTIES
    NeverTwice
    KeepsPromise
CHECK_DEADLOCK FALSE
