CONSTANTS
    Asms <- Loaded
    Names <- NameSet
    Procs <- TwoProcs
    Declares <- OwnTypes
    Native <- Natives
    Base <- AExtendsB
    Field <- Fields
    HasImpl <- BImplements
    Packages <- EPQR
    PackageDeps <- PQCycle
    Attachable <- NothingAttachable
    Calls <- ForAOfP
    AttachLate = FALSE
    MaxDepth = 1
    MaxFrames = 8
    None = None
    Unknown = Unknown
SPECIFICATION FairSpec
CHECK_DEADLOCK FALSE
INVARIANT NoOverflow
