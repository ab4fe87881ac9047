CONSTANTS
    e1 = e1
    e2 = e2
    e3 = e3
    Entry <- MCEntry
    NONE = NONE
    MaxLevels = 2
    Quantity = {1, 3}
    QtyMod = 4
    PriceMod = 8
    IndexMod = 4
    RefPrice = {7}
    TickSize = {0, 2}
SPECIFICATION FairSpec
INVARIANTS
    TypeOK
    ListsMatchQueues
    TotalsMatch
    PricesRoundTrip
PROPERTIES
    EmptiedIsRight
    UnlinkReturns
