CONSTANTS
    t1 = t1
    t2 = t2
    Threads = {t1, t2}
    RingCap = 1
    MaxDrain = 1
SPECIFICATION Spec
PROPERTIES
    ForeignHandlerKept
