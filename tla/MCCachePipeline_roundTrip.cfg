SPECIFICATION RoundTripSpec
CONSTANTS
    Configs <- Config
    FoundFiles <- EmptyDisk
    NumMounts = 2
    NumEntries = 2
    FilesMayShrink = FALSE
    MaxRuns = 2
INVARIANT MountsComeBack
PROPERTIES
    HealthyRunsSucceed
    HealthyRestoreSucceeds
    WritesReleased
