CONSTANTS
    MaxReference = 2
    MaxShares = 2
    MaxPrice = 2
    MaxLocate = 2
    MaxVenueId = 2
    StockSymbol = {s1, s2}
    Listings = {l1}
    TradingState = {halted}
    Absent = Absent
    Keys <- MCKeys
    MaxListed = 2
    MaxResting = 3
    Messages <- MCMessages
SYMMETRY Symmetry
SPECIFICATION Spec
INVARIANTS
    LevelsMatchOrders
    DirectorySound
    BboIsBest
PROPERTY
    RefusedLeavesMarket
