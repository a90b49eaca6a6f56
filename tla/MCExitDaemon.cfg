CONSTANTS
    t1 = t1
    t2 = t2
    Pythons = {t1, t2}
    Cpu = "PySpy"
    MemEnabled = TRUE
    ChanCap = 1
    MaxSamples = 1
    Times = {0}
    UrlKinds = {"base"}
    Py313 = FALSE
    MaxCalls = 2
    Exits = {t1}
SPECIFICATION Spec
PROPERTY AtExitStopsAgent
CHECK_DEADLOCK FALSE
