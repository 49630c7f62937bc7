SPECIFICATION TreeSpec
CONSTANTS
    Trees <- SomeTrees
    Disks <- SomeDisks
    MountLists <- SomeMountLists
    MaxBlocks = 2
    MaxHops = 2
INVARIANTS
    TreeTypeOK
    TreesComeBack
    FreshRestoresSucceed
    ArchivedIsThere
PROPERTY KeepsTheRest
