\* Default max_cov 0.5 and a 3-bit int: coordinate 4 = 2^(IntBits-1) wraps
\* to -4, the scale model of a position at or past 2^31 in a 32-bit int.
CONSTANTS
    PafPool <- MCPafPool
    MaxAlns = 4
    CovNum = 1
    CovDen = 2
    IntBits = 3
    StrayEnd = {0}
    InitCap = 2
    NotFound = NotFound
    NoSeq = NoSeq
    NullName = NullName
SPECIFICATION Spec
\* The run ends when the filter has returned.
CHECK_DEADLOCK FALSE
INVARIANT GreedySelection
