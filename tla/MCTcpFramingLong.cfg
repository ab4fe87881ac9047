CONSTANTS
    ByteBase = 2
    Message <- LongMessages
    MaxFrameSize = 12
    MaxPiece = 3
    MaxMessages = 2
SPECIFICATION Spec
CHECK_DEADLOCK FALSE
INVARIANTS
    FramesIntact
