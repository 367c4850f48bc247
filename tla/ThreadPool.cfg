CONSTANTS
    Worker = {w1, w2}
    MinThreads = 1
    Concurrency = 1
    Timer = {a}
    Grouped = {g}
    Limits = {1, 2}
    Null = Null
    Outcomes = {TRUE, FALSE}
    MaxSubmits = 2
    UINT_MAX = 99
SPECIFICATION FairSpec
INVARIANT TypeOK
INVARIANT RefsExact
INVARIANT GroupBusy
INVARIANT TimerQuiet
PROPERTY TasksRun
PROPERTY ShutdownCompletes
CHECK_DEADLOCK FALSE
