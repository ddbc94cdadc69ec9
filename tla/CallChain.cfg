CONSTANTS
    Asms = {"main", "dep"}
    Root = "main"
    Natives = {"task", "ctor", "cctor", "new"}
    MaxDepth = 1
    MaxInstrs = 3
    GoStack = 6
SPECIFICATION FairSpec
CHECK_DEADLOCK FALSE
INVARIANTS ResolverIsMine DepthBounded
PROPERTIES ErrorsAreNotLost CallEnds
