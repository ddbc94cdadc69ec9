CONSTANTS
    A = A
    B = B
    C = C
    Procs = {p1, p2}
    Types = {A, B, C}
    None = None
    Body <- AcyclicBody
    Panics = {A}
    Callers = {p1, p2}
    FieldTypes <- IntOrObject
    Values <- SomeValues
    Default <- ZeroOrNull
    MaxIncrements = 2
    Nobody = Nobody
    Methods <- AllMethods
    Exceptions <- ExceptionClasses
    Matches <- IsAssignable
SPECIFICATION Parts
INVARIANTS StaticsAreWhole StaticsInv UnwindInv
PROPERTIES EveryAccessReturns ImplementsAbs IsARegister AccessReturns HandlersRunInOrder MethodsEnd
