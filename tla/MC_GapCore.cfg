\* -l 1 -m 3 -e 1 on sequences of 8 bases (scaled defaults: max_gap a few
\* times min_gap, flank as large as the alignments), with a 4-bit int
\* (-8..7) that holds both options, as a 32-bit int holds the defaults.
CONSTANTS
    LArg = 1000
    MArg = 3000
    IntBits = 4
    MaxOvl = 1
    QLen = 8
    TLen = 8
    Groups <- MCGroups
SPECIFICATION Spec
\* gap_core returns once its group is printed.
CHECK_DEADLOCK FALSE
INVARIANTS CandidatesComplete DominanceMinimal
