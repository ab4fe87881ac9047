CONSTANTS
    Item = {1, 2}
    Consumers = {c1, c2}
    NoItem = NoItem
    NoThread = NoThread
    Capacity = 3
    MaxItems = 2
    MaxPops = 2
    MaxDropped = 1
SPECIFICATION ConsumerSpec
CONSTRAINT InTurn
CHECK_DEADLOCK FALSE
INVARIANTS
    HandledInOrder
