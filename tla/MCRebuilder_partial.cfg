SPECIFICATION Spec
CONSTANTS
    Configs <- KeepOnFilesystem
    NumMounts = 1
    NumEntries = 1
    FilesMayShrink = FALSE
    MaxRuns = 2
INVARIANT OkMeansComplete
