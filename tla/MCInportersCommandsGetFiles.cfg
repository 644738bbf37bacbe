CONSTANTS
    TotalSize = 3
    Intervals <- MCIntervals
    FilesInOrder <- MCFiles
    Format <- MCFormat
    Layers <- MCLayers
    Arrays <- MCArrays
    Removable = {}
    PipelineSpecs <- MCTakesAny
    MaxDeliveries = 2
    MaxTimeStep = 6
SPECIFICATION Spec
INVARIANTS
    CommandsGetFiles
CHECK_DEADLOCK FALSE
