CONSTANTS
    TotalSize = 3
    Intervals <- MCIntervals
    FilesInOrder <- MCFiles
    Format <- MCFormat
    Layers <- MCLayers
    Arrays <- MCArrays
    Removable = {3}
    PipelineSpecs <- MCPipelines
    MaxDeliveries = 2
    MaxTimeStep = 6
SPECIFICATION FairSpec
INVARIANTS
    TypeOK
    FilesAccountedFor
    Drained
    CatalystInStep
    SameFields
    PartsCoverFile
    TimeStepsArePasses
PROPERTIES
    ProcessReturns
CHECK_DEADLOCK FALSE
