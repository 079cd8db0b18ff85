\* Default -f, with and without -a; two PAF records naming a and x with
\* different lengths; glibc build.
CONSTANTS
    PafPool <- MCStalePool
    MaxAlns = 2
    IntBits = 8
    StrayEnd = {0}
    NoArg = NoArg
    FArg = NoArg
    InitCap = 2
    NotFound = NotFound
    NoSeq = NoSeq
    NullName = NullName
SPECIFICATION Spec
\* The model stops where kt_for() takes over, or where align_gaps()
\* returns on an empty array.
CHECK_DEADLOCK FALSE
INVARIANT SentinelsBoundGroups
