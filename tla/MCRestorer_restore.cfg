SPECIFICATION HangingRestoreSpec
CONSTANTS
    Configs <- RestoreConfigs
    FoundFiles <- SomeDisk
    NumMounts = 1
    NumEntries = 2
INVARIANTS
    RestoreTypeOK
    RestoresInv
    OkMeansExtracted
PROPERTIES
    QuietAfterReturn
    RestoreReturns
