CONSTANTS
    TotalSize = 3
    Intervals <- MCIntervals
    FilesInOrder <- MCFiles
    Format <- MCFormat
    Layers <- MCLayers
    Arrays <- MCArrays
    Removable = {}
    PipelineSpecs <- MCPipelines
    MaxDeliveries = 1
    MaxTimeStep = 6
SPECIFICATION Spec
INVARIANTS
    NewFilesAreNew
CHECK_DEADLOCK FALSE
