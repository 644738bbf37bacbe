CONSTANTS
    TotalSize = 3
    Intervals <- MCIntervals
    FilesInOrder <- MCFiles
    Format <- MCFormat
    Layers <- MCLayers
    Arrays <- MCArrays
    Removable = {}
    PipelineSpecs <- MCPipelines
    MaxDeliveries = 2
    MaxTimeStep = 6
SPECIFICATION Spec
INVARIANTS
    DataKept
CHECK_DEADLOCK FALSE
