CONSTANTS
    p1 = p1
    p2 = p2
    k1 = k1
    k2 = k2
    Procs = {p1, p2}
    Packages = {k1, k2}
    Uses <- SomeUses
    Blocks = 2
    Inodes = {i1, i2, i3, i4}
    None = None
    Alphabet <- AbbC
    Key <- AbbCKey
    Feeds <- SomeFeeds
    Direct <- AOrB
    NoPackage = NoPackage
SPECIFICATION Parts
INVARIANTS CacheInv GraphInv
PROPERTIES DependenciesAreLocked WorkEnds
