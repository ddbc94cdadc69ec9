CONSTANTS
    Asms <- Loaded
    Names <- NameSet
    Procs <- TwoProcs
    Declares <- OwnTypes
    Native <- Natives
    Base <- AExtendsB
    Field <- Fields
    HasImpl <- BImplements
    Packages <- EPQR
    PackageDeps <- RPEQ
    Attachable <- GUsesP
    Calls <- SomeCalls
    AttachLate = FALSE
    MaxDepth = 1
    MaxFrames = 8
    None = None
    Unknown = Unknown
SPECIFICATION FairSpec
INVARIANT ResolveInv
PROPERTIES RightDeclaration CallsReturn
