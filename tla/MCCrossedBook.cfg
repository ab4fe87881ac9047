CONSTANTS
    h1 = h1
    h2 = h2
    h3 = h3
    x = x
    Handle <- MCHandle
    NoHandle = NoHandle
    Symbol <- OneSymbol
    Book <- OneBook
    Hash <- SameBook
    Price = {1, 2}
    Quantity = {1, 2}
    MaxOrders = 4
    MaxDropped = 1
SPECIFICATION Spec
CHECK_DEADLOCK FALSE
INVARIANTS
    NoCrossedBook
