CONSTANTS
    Memories <- MCMemories
    Unmapped = Unmapped
    Overflows = Overflows
    CodeType = 1
    MaxFrames = 2
    Rooms = {1, 2}
    LastLine = TRUE
    MaxOffset = 5
SPECIFICATION Spec
INVARIANTS
    TypeOK
    CompleteStack
    DroppedForAReason
PROPERTY
    HandlerReturns
CHECK_DEADLOCK FALSE
