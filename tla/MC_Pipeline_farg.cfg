\* -f 0.5 given explicitly; glibc build.
CONSTANTS
    PafPool <- MCPafPool
    MaxAlns = 3
    IntBits = 8
    StrayEnd = {0}
    NoArg = NoArg
    FArg = 500
    InitCap = 2
    NotFound = NotFound
    NoSeq = NoSeq
    NullName = NullName
SPECIFICATION Spec
\* The model stops where kt_for() takes over, or where align_gaps()
\* returns on an empty array.
CHECK_DEADLOCK FALSE
INVARIANT FilterUsesFraction
