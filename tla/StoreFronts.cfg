SPECIFICATION MCSpec
CONSTANTS
    f1 = f1
    f2 = f2
    u1 = u1
    u2 = u2
    c1 = c1
    c2 = c2
    c3 = c3
    k1 = k1
    k2 = k2
    s1 = s1
    r1 = r1
    r2 = r2
    Fronts = {f1, f2}
    Users = {u1, u2}
    Cards = {c1, c2, c3}
    Collections = {k1, k2}
    Owner <- OwnerOf
    CollectionOf <- CollectionIs
    FirstHolder <- HolderIs
    NoSlug = NoSlug
    None = None
    Bodies <- AskedBodies
    Requests = {r1, r2}
    MaxBegun = 3
    MaxTransfers = 1
    MaxFailures = 1
SYMMETRY Symmetric
CHECK_DEADLOCK FALSE
INVARIANTS
    CollectionsFollowCards
    PublishedUnderItsSlug
    EveryShownCardCounted
    PagesOfTheFront
