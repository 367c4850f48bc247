SPECIFICATION Spec
CONSTANTS
    Thread = {t1, t2, t3}
    NoThread = NoThread
    Callback = {c1, c2}
    Dummy = Dummy
    NoCallback = NoCallback
    MaxValue = 2
    MaxCallbacks = 1
SYMMETRY Symmetry
INVARIANTS TypeOK SingleLeader NoLostOrStaleWakeup NoStall CallbackOnceAndInTime CallbackNotLost
