CONSTANTS
    ByteBase = 2
    Message <- ShortMessages
    MaxFrameSize = 7
    MaxPiece = 3
    MaxMessages = 5
SPECIFICATION FairSpec
CHECK_DEADLOCK FALSE
INVARIANTS
    TypeOK
    InStep
PROPERTIES
    CarriesMessages
    OverflowOnlyUndrained
    EveryMessageReceived
