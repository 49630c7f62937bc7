SPECIFICATION QuietRestoreSpec
CONSTANTS
    Configs <- SDKTars
    FoundFiles <- EmptyDisk
    NumMounts = 1
    NumEntries = 2
    FilesMayShrink = FALSE
    MaxRuns = 2
PROPERTIES
    ImplementsCache
    ImplementsSharedCache
