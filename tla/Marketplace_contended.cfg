SPECIFICATION FairSpec
CONSTANTS
    NoCard = NoCard
    c1 = c1
    u1 = u1
    u2 = u2
    u3 = u3
    o1 = o1
    o2 = o2
    o3 = o3
    r1 = r1
    r2 = r2
    Cards = {c1}
    Users = {u1, u2, u3}
    Orders = {o1, o2, o3}
    OrderData <- MCOrderData
    Genesis <- MCGenesis
    Listed <- TwoListed
    ChainChoices <- ContendedChains
    Resubmits = FALSE
    Requests = {}
    MaxBlocks = 1
    MaxSales = 3
    MaxCrashes = 1
    MaxInFlight = 3
PROPERTIES
    ImplementsStore
    EveryBlockConsumed
CHECK_DEADLOCK FALSE
