SPECIFICATION Spec
CONSTANTS
    NoCard = NoCard
    c1 = c1
    u1 = u1
    u2 = u2
    u3 = u3
    Cards = {c1}
    Users = {u1, u2, u3}
    Amounts = {1, 2}
    NewCards <- MCNewCards
    MaxVersion = 2
    MaxAmount = 3
    MinTotal = 2
    MaxPending = 2
    Within <- MCWithin
SYMMETRY MCSymmetry
INVARIANTS
    TypeOK
    OneEntryPerHolder
    VersionFixesPositions
PROPERTIES
    PositionsChangeWithVersion
    NoResurrection
