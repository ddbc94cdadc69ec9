CONSTANTS
    Contents = {}
    Pieces = {}
    Size = 5
    Chunk = 2
    MaxLength = 0
    MaxChanges = 0
SPECIFICATION Spec
INVARIANT ReadsToTheEnd
CHECK_DEADLOCK FALSE
