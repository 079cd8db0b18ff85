\* Two threads; lastz exits 0 or is killed by SIGKILL; file operations
\* may fail; PUSH_BLOCK of one record; glibc stdio (fread of a full block
\* reads the descriptor directly).
\* Initial dictionary capacity 2 stands for 16, MaxSeqLen 10 for UINT32_MAX.
CONSTANTS
    InputFiles <- MCInputFiles
    TFastas <- MCTFastas
    QFastas <- MCQFastas
    MaxSeqLen = 10
    InitCap = 2
    NotFound = NotFound
    NoSeq = NoSeq
    NullName = NullName
    NThreads = 2
    SysStatus = {0, 9}
    IOOutcomes = {"ok", "fail"}
    PushBlock = 1
    DirectRead = TRUE
SPECIFICATION Spec
\* alnfill ends by exit(0) or exit(1).
CHECK_DEADLOCK FALSE
INVARIANTS TmpFilesExact SuccessMeansAligned DictsWellFormed DictsWithinCapacity SliceInSequence CleanOnSuccess MergedOutputExact
PROPERTY Terminates
