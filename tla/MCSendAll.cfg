CONSTANTS
    Order = {o1, o2}
    NoOrder = NoOrder
    Capacity = 2
    ReportSize = 2
    MaxOrders = 3
SPECIFICATION Spec
INVARIANT OnlyReportsSent
CHECK_DEADLOCK FALSE
