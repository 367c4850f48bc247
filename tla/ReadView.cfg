CONSTANTS
    w1 = w1
    w2 = w2
    r1 = r1
    Trx = {w1, w2, r1}
    Writer = {w1, w2, r1}
    Reader = {r1}
    MaxTrxId = 4
    MaxRetry = 1
SPECIFICATION Spec
SYMMETRY WriterSymmetry
INVARIANT TypeOK
INVARIANT NoDirtyRead
INVARIANT SeesCommittedBefore
INVARIANT PurgeSafe
INVARIANT PurgeViewOldest
INVARIANT PurgedInOrder
CHECK_DEADLOCK FALSE
