CONSTANTS
    o1 = o1
    Orders = {o1}
    NoId = NoId
    Copies = {1, 2, 3, 4, 5, 6, 7}
    MaxRetries = 2
    Prefetch = 2
    DebugStops = {2}
    MaxDebug = 0
    MaxFailures = 2
    MaxFaults = 0
SPECIFICATION Spec
INVARIANT DlqHoldsFailedTasks
