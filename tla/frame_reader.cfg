\* Frames of this library and of others, in reads of any size.
SPECIFICATION Spec
CONSTANTS
    MaxFrameSize = 12
    OwnFrames <- Own
    ForeignFrames <- Foreign
    Reads = {0, 1, 8, 21}
    HandlersFail = TRUE
    MaxFrames = 3
INVARIANTS
    TypeOK
    NothingLeftWhole
    BufferBounded
PROPERTIES
    HandlesWhatWasSaid
    TooLargeIsFinal
