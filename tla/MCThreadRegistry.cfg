CONSTANTS
    n1 = n1
    n2 = n2
    n3 = n3
    n4 = n4
    i1 = i1
    i2 = i2
    k1 = k1
    k2 = k2
    None = None
    Threads = {n1, n2, n3, n4}
    Idents = {i1, i2}
    Tids = {k1, k2}
SPECIFICATION Spec
SYMMETRY MCSymmetry
INVARIANTS
    TypeOK
    LiveIsExact
    SampledIffRunning
