CONSTANTS
    t1 = t1
    t2 = t2
    Threads = {t1, t2}
    RingCap = 2
    MaxDrain = 2
SPECIFICATION Spec
INVARIANTS
    TypeOK
    TickAccountedOnce
    NoFatalSignal
PROPERTIES
    StopEnds
    TickReported
