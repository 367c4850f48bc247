SPECIFICATION FairSpec
CONSTANTS
    Thread = {t1, t2, t3}
    Writer = {t1, t2}
    Maintainer = {t3}
    NoThread = NoThread
    Callback = {c1}
    Dummy = Dummy
    NoCallback = NoCallback
    MaxCallbacks = 1
    WriteThrough = {FALSE}
    MaxLsn = 1
PROPERTIES CallsReturn CallbacksRun
