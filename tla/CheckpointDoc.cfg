CONSTANTS
    Mtr = {t1, t2}
    Page = {p1, p2}
    Checkpointer = {c1}
    MaxLsn = 7
    MaxCompleting = 1
SPECIFICATION Spec
CHECK_DEADLOCK FALSE
INVARIANT CheckpointDurable
