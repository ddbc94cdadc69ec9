CONSTANTS
    Procs <- TwoProcs
    Conts <- Containers
    Kind <- KindOf
    Slots <- Cells
    In <- InOf
    Body <- Chain
    NoFactory <- NoDelegate
    MayFail <- Throws
    Offered <- Used
    MaxCalls = 2
    NoOp = NoOp
    Nobody = Nobody
    Unset = Unset
    Null = Null
    Failed = Failed
SPECIFICATION FairSpec
CHECK_DEADLOCK FALSE
INVARIANT IInv
PROPERTIES ImplementsOnceMap OperationsReturn
