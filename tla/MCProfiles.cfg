CONSTANTS
    Stacks <- MCStacks
    Invalid <- MCInvalid
    MaxValue = 2
    MaxSamples = 3
SPECIFICATION Spec
INVARIANTS
    TypeOK
    HeldIdsResolve
    ProfileFaithful
    OffIsClean
    NoInheritedWait
