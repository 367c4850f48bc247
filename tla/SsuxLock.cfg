CONSTANT Thread = {t1, t2, t3}
SPECIFICATION FairSpec
INVARIANT TypeOK
INVARIANT Exclusion
INVARIANT WordsExact
INVARIANT NoLostWakeup
PROPERTY CallsReturn
