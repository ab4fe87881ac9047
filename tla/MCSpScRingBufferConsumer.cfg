CONSTANTS
    Item = {1, 2, 3, 4}
    Consumers = {c1, c2}
    NoItem = NoItem
    NoThread = NoThread
    Capacity = 3
    MaxItems = 4
    MaxPops = 4
    MaxDropped = 0
SPECIFICATION FairConsumerSpec
CONSTRAINTS
    InTurn
    FewWhenTooSoon
CHECK_DEADLOCK FALSE
INVARIANTS
    RestartKeepsOrder
    QuietAfterDestruction
PROPERTIES
    JoinReturns
    HandledUnlessStopped
