CONSTANTS
    r1 = r1  r2 = r2  r3 = r3
    k1 = k1  k2 = k2
    p1 = p1  p2 = p2  ghost = ghost
    None = None
    Keys = {k1, k2}
    Products = {p1, p2}
    Ghosts = {ghost}
    InitialStock <- MCStock
    Requests = {r1, r2, r3}
    Inbox <- MCInbox
    PoolSize = 2
    MaxFaults = 1
SPECIFICATION FairSpec
INVARIANTS TypeOK IInv StockConserved PoolAccounted 
PROPERTIES ImplementsLedger Answered
