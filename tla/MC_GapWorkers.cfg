\* Two threads, three groups: worker 0 runs groups 0 and 2 with the same
\* buffers while worker 1 runs group 1.
CONSTANTS
    LArg = 1000
    MArg = 3000
    IntBits = 4
    MaxOvl = 1
    QLen = 8
    TLen = 8
    NThreads = 2
    NGroups = 3
    GroupSets <- MCGroupSets
    None = None
SPECIFICATION Spec
\* kt_for() returns once every worker is done.
CHECK_DEADLOCK FALSE
INVARIANT StatsMatchOutput
PROPERTY AtomicPrinting
