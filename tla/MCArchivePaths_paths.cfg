SPECIFICATION PathSpec
CONSTANTS
    Dirs <- SomeDirs
    MountPaths <- AnyMount
    Roots <- AnyRoot
    Files <- SomeFiles
INVARIANTS
    PathTypeOK
    MountsBelowReturn
    NamesApart
