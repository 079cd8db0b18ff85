CONSTANTS
    InputFiles <- MCInputFiles
    TFastas <- MCTFastas
    QFastas <- MCQFastas
    MaxSeqLen = 10
    InitCap = 2
    NotFound = NotFound
    NoSeq = NoSeq
    NullName = NullName
    NThreads = 2
    SysStatus = {0, 256}
    IOOutcomes = {"ok"}
    PushBlock = 1
    DirectRead = TRUE
SPECIFICATION Spec
\* alnfill ends by exit(0) or exit(1).
CHECK_DEADLOCK FALSE
INVARIANT RetriedOnFailure
