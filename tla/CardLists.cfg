SPECIFICATION ListsSpec
CONSTANTS
    Tokens = {1, 3}
    Holders = {1, 2}
    PageSize = 1
    Registry = {1}
    Databases <- NewOrUsed
    Held <- HeldBefore
    Sellers <- OnSaleBefore
    Budgets <- Scenarios
    Lists = {"all", "onSale", "held", "byPrice", "listed"}
    Viewer = 2
    PriceOf <- PriceOfHolder
    Limit = 1
CHECK_DEADLOCK FALSE
INVARIANTS
    ImportMirrors
    SyncExact
    SalesBacked
    WalkComplete
PROPERTIES
    ListFailsOnlyUncovered
    ListingsAddUp
    SellsConsumed
