CONSTANTS
    Thread = {t1, t2, t3}
    Sizes = {3}
    BufSize = 8
    MaxBufFree = 3
    WriteSize = 1
    MaxLsn = 15
SPECIFICATION Spec
INVARIANT RecordFits
CHECK_DEADLOCK FALSE
