CONSTANTS
    Worker = {w1, w2, w3}
    MinThreads = 3
    Concurrency = 3
    Timer = {}
    Grouped = {g, h}
    Limits = {1, 2}
    Null = Null
    Outcomes = {TRUE}
    MaxSubmits = 2
    UINT_MAX = 99
SPECIFICATION Spec
INVARIANT Drained
CHECK_DEADLOCK FALSE
