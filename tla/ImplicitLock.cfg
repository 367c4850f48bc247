CONSTANTS
    Trx = {t1, t2, t3}
    MaxTrxId = 4
SPECIFICATION Spec
INVARIANT NoFalseNegatives
CHECK_DEADLOCK FALSE
