CONSTANTS
    a = a
    b = b
    c1 = c1
    Item <- MCItem
    Consumers <- MCConsumers
    NoItem = NoItem
    Capacity = 3
    MaxItems = 5
    MaxDropped = 2
SPECIFICATION FairSpec
INVARIANTS
    TypeOK
    NoSlotRace
    QueuedItemsIntact
    HighWaterMarkSound
PROPERTIES
    DropsOnlyWhenFull
    ImplementsFifo
    EveryItemDelivered
    PushUnblocks
