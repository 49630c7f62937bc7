SPECIFICATION PathSpec
CONSTANTS
    Dirs <- SomeDirs
    MountPaths <- AbsoluteMounts
    Roots <- DefaultRoot
    Files <- SomeFiles
INVARIANT RoundTrip
