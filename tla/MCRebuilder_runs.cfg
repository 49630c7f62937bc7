SPECIFICATION HangingSpec
CONSTANTS
    Configs <- AllConfigs
    NumMounts = 1
    NumEntries = 2
    FilesMayShrink = TRUE
    MaxRuns = 2
INVARIANTS
    TypeOK
    OkRunsLeaveWholeArchives
    OkMeansCached
    NoErrorLost
    StatsAfterWrite
    IInv
    ObjectsLeft
PROPERTIES
    NoOverrideKeeps
    RebuildReturns
    ArchiverEnds
