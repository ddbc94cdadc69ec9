CONSTANTS
    Keys = {1, 2, 3}
    Data = {1, 2}
    MaxItems = 3
    Lists = {l, m}
    Nodes = {n1, n2, n3, n4}
    Nil = Nil
    NoData = NoData
    Txs = {t1}
    Words = 4
    MaxRows = 2
    MaxOpens = 1
    Contents <- SomeContents
    Pieces <- SomePieces
    Size = 5
    Chunk = 2
    MaxLength = 3
    MaxChanges = 2
SPECIFICATION Parts
CHECK_DEADLOCK FALSE
INVARIANTS StructuresAreSound AllOrNothing ReadersTellTheTable
PROPERTIES ImplementsContract ImplementsLists
