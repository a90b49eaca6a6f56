CONSTANTS
    t1 = t1
    t2 = t2
    Pythons = {t1, t2}
    Cpu = "Stack"
    MemEnabled = TRUE
    ChanCap = 1
    MaxSamples = 2
    Times = {0}
    UrlKinds = {"base"}
    Py313 = TRUE
    MaxCalls = 4
    Exits = {}
SPECIFICATION Spec
SYMMETRY MCSymmetry
INVARIANTS
    Accounting
    ForkIsWarned
    NoStaleSamples
PROPERTIES
    ImplementsLifecycle
