CONSTANTS
    Orders = {1, 2, 3}
    Times = {1, 2}
    Ranges <- MCRanges
    Limits <- MCLimits
    FirstPages <- MCFirstPages
    MaxPage = 3
SPECIFICATION Spec
INVARIANTS TypeOK NothingMissed NothingRepeated PagesFull QuietWalk
