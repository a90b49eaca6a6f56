CONSTANTS
    N = 4
    UsizeMod = 8
    a = a
    b = b
    p1 = p1
    p2 = p2
    c1 = c1
    c2 = c2
    Values <- MCValues
    Producers <- MCProducers
    Consumers <- MCConsumers
    Records <- MCRecords
    OutLens = {1, 3}
SPECIFICATION QueuedSpec
SYMMETRY MCSymmetry
INVARIANTS
    TypeOK
    NoDataRace
    HandoverOrdered
    NoUnderflow
    NeverUnreachable
PROPERTY ImplementsRecordQueue
