SPECIFICATION Spec
CONSTANTS
    Ids = {1, 2}
    SymbolOf <- CoinSymbol
    Allowed = {"X"}
    Requests = {"r"}
    Listed = {1, 2}
    Imported <- OnSaleBefore
    MaxSales = 3
    MaxQuoteMoves = 1
    MaxListMoves = 2
    MaxFailures = 1
CHECK_DEADLOCK FALSE
INVARIANTS
    PricesSound
PROPERTIES
    NoOlderQuote
    JobsGetThrough
