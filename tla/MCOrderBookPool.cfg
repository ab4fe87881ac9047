CONSTANTS
    MaxOrders = 3
    NO_FREE_INDEX = 99
    MaxFrees = 2
SPECIFICATION Spec
CHECK_DEADLOCK FALSE
INVARIANTS
    AllocatesFreeEntry
