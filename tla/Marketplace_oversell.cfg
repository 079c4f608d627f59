SPECIFICATION Spec
CONSTANTS
    NoCard = NoCard
    c1 = c1
    u1 = u1
    u2 = u2
    u3 = u3
    o1 = o1
    o2 = o2
    o3 = o3
    r1 = r1
    r2 = r2
    Cards = {c1}
    Users = {u1, u2, u3}
    Orders = {o1, o2, o3}
    OrderData <- MCOrderData
    Genesis <- MCScarce
    Listed <- NothingListed
    ChainChoices <- NoChains
    Resubmits = FALSE
    Requests = {r1, r2}
    MaxBlocks = 0
    MaxSales = 3
    MaxCrashes = 0
    MaxInFlight = 2
INVARIANTS
    NoOversell
CHECK_DEADLOCK FALSE
