\* glibc build: a[-1] is the high word of the malloc chunk size, i.e. 0.
CONSTANTS
    Pos <- MCPos
    StrayEnd = {0}
SPECIFICATION Spec
INVARIANTS SpansWellFormed OverlapExact SearchesAgree
PROPERTY CoverRefinement
