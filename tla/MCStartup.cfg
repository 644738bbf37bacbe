CONSTANTS
    FilesIn <- MCFilesIn
    Matches <- MCMatches
    Configurations <- MCConfigurations
    Directories <- MCDirectories
    DoneFiles <- MCDoneFiles
    DirectoryOf <- MCDirectoryOf
    FileNameOf <- MCFileNameOf
SPECIFICATION Spec
INVARIANTS
    TypeOK
    WatchesInputs
    LoopCanEnd
    EnumeratedFilesTaken
    ScriptsInitialised
    OptionsOverride
CHECK_DEADLOCK FALSE
