SPECIFICATION Spec
CONSTANTS
    Prices = {1, 2}
    MaxQty = 1
    Depths = {1, 2}
    ChanCap = 1
    MaxUpdates = 3
INVARIANTS PartOfMarket SpreadTrusted
CHECK_DEADLOCK FALSE
