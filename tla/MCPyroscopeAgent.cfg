CONSTANTS
    t1 = t1
    Pythons = {t1}
    Cpu = "PySpy"
    MemEnabled = TRUE
    ChanCap = 1
    MaxSamples = 2
    Times <- MCTimes
    UrlKinds = {"base", "no_base"}
    Py313 = TRUE
SPECIFICATION AloneSpec
INVARIANTS
    TypeOK
    NoDuplicateSamples
    NoLostSamples
    FlushOnStop
    RangesDisjoint
PROPERTIES
    StopReturns
    SamplesUploaded
