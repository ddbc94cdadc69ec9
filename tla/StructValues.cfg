CONSTANTS
    MaxDepth = 2
    Shared = {}
    Lists = {"element"}
    Nums = {0, 1}
    MaxItems = 2
    Nil = Nil
    New = New
    NoItem = NoItem
    NoNum = NoNum
SPECIFICATION BoundedSpec
INVARIANT SlotsAreSeparate
PROPERTIES ImplementsValues
