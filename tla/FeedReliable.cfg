CONSTANTS
    MaxReference = 14
    MaxShares = 1000
    MaxPrice = 100000000
    MaxLocate = 3
    MaxVenueId = 1
    StockSymbol <- GeneratorSymbols
    Listings = {l1}
    TradingState = {}
    Absent = Absent
    Cut = Cut
    MaxSequenceNumber = 1000
    MaxMessageCount = 65535
    BuilderConfig <- GeneratorMarket
    Venue = 1
    FirstConfigured = 1
    BatchSizes = {1}
    MaxGenerated = 14
    MaxInFlight = 1
    MaxPackets = 20
    MaxRestarts = 0
SPECIFICATION SpecReliable
INVARIANT
    GeneratedStreamApplies
CHECK_DEADLOCK FALSE
