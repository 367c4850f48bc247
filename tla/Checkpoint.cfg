CONSTANTS
    Mtr = {t1, t2}
    Page = {p1, p2}
    Checkpointer = {c1, c2}
    MaxLsn = 7
    MaxCompleting = 1
SPECIFICATION Spec
SYMMETRY CheckpointSymmetry
INVARIANT TypeOK
INVARIANT CheckpointCovered
INVARIANT InsertAboveCheckpoint
INVARIANT RecoveryExact
INVARIANT FlushListSorted
PROPERTY CheckpointMonotonic
CHECK_DEADLOCK FALSE
