SPECIFICATION BuildsSpec
CONSTANTS
    b1 = b1
    b2 = b2
    b3 = b3
    Builds = {b1, b2, b3}
    Nobody = Nobody
    Configs <- ReplacedInPlace
    NumMounts = 1
    MaxBlocks = 2
SYMMETRY AnyBuild
INVARIANT RestoresOneObject
