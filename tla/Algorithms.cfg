SPECIFICATION Families
CHECK_DEADLOCK FALSE
CONSTANTS
    Byte = 16
    Depth = 4
INVARIANT QueriesAreStandard ArithmeticIsTheCLIs CodeMeansItsSource NamesDenoteTypes CallsReachTheirOverload ReadsWhatWasWritten TreesComputeTheirMeaning ReflectionTellsTheDeclarations TextsAreStandard RightMethodRuns
