CONSTANTS
    t1 = t1
    Pythons = {t1}
    Cpu = "PySpy"
    MemEnabled = TRUE
    ChanCap = 1
    MaxSamples = 1
    Times = {0}
    UrlKinds = {"base", "no_base"}
    Py313 = TRUE
SPECIFICATION AloneSpec
INVARIANT PushNeverBreaksThread
