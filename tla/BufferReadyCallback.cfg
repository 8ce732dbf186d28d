SPECIFICATION Spec
CONSTANTS
    t1 = t1
    Threads = {t1}
    MaxTrans = 2
PROPERTY CallbackOnReady
CHECK_DEADLOCK FALSE
