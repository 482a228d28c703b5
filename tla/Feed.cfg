CONSTANTS
    MaxReference = 4
    MaxShares = 3
    MaxPrice = 30
    MaxLocate = 2
    MaxVenueId = 1
    StockSymbol <- SmallSymbols
    Listings = {l1}
    TradingState = {}
    Absent = Absent
    Cut = Cut
    MaxSequenceNumber = 5
    MaxMessageCount = 3
    BuilderConfig <- SmallMarket
    Venue = 1
    FirstConfigured = 0
    BatchSizes = {1, 2, 3, 4}
    MaxGenerated = 4
    MaxInFlight = 2
    MaxPackets = 4
    MaxRestarts = 1
SPECIFICATION Spec
INVARIANTS
    StreamHasNoHole
    SequenceNamesMessage
    
    SharesConserved
    StatsReconcile
CHECK_DEADLOCK FALSE
