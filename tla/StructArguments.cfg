CONSTANTS
    MaxDepth = 2
    Shared = {}
    Lists = {}
    Nums = {0, 1}
    MaxItems = 2
    Nil = Nil
    New = New
    NoItem = NoItem
    NoNum = NoNum
SPECIFICATION Spec
PROPERTY CallersKeepTheirLocals
