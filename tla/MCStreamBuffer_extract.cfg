\* The net thread adds to the buffer during an extraction.
CONSTANTS
    Chunk = 2
    Reads = {1, 2, 3}
    MaxArrived = 9
    MemoryFails = FALSE
SPECIFICATION Spec
INVARIANT ExtractFits
CHECK_DEADLOCK FALSE
