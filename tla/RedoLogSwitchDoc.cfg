SPECIFICATION Spec
CONSTANTS
    Thread = {t1, t2}
    Writer = {t1, t2}
    Maintainer = {t1, t2}
    NoThread = NoThread
    Callback = {c1}
    Dummy = Dummy
    NoCallback = NoCallback
    MaxCallbacks = 1
    WriteThrough = {TRUE, FALSE}
    MaxLsn = 2
SYMMETRY Symmetry
INVARIANT Durability
