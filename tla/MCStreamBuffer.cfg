\* Two additions fit between any two steps of an extraction; malloc can fail.
CONSTANTS
    Chunk = 2
    Reads = {1, 2, 3}
    MaxArrived = 9
    MemoryFails = TRUE
SPECIFICATION Spec
INVARIANTS TypeOK AddFits  AudioInOrder
PROPERTY ImplementsQueue
CHECK_DEADLOCK FALSE
