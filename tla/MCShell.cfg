CONSTANTS
    MemSize = 32
    BlockSize = 4
    FrameSize = 6
    Sizes = {3, 4, 5, 9}
    Scratchpad = 32
    MaxTextures = 3
    MaxLength = 2
    Cases <- InputCases
    MaxPos = 7
    SliderStep = 3
    MaxZoom = 2
    MaxOffset = 1
    FitsUpTo <- Unzoomed
    Pads <- PadKinds
    MaxPlugs = 3
\* The components end: changes are bounded, a NULL pointer is followed.
SPECIFICATION Spec
INVARIANTS TypeOK WindowsRight PicturesWhole 
PROPERTIES  KeysHeeded
CHECK_DEADLOCK FALSE
