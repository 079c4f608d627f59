SPECIFICATION MCSpec
CONSTANTS
    a1 = a1
    a2 = a2
    s1 = s1
    c1 = c1
    r1 = r1
    r2 = r2
    NoSlug = NoSlug
    SameSlug = SameSlug
    NoAddress = NoAddress
    NoCard = NoCard
    Addresses = {a1, a2}
    Slugs = {s1}
    Cards = {c1}
    Requests = {r1, r2}
    q1 = q1
    q2 = q2
    Clients = {k1}
    ExternalIds = {x1, x2}
    MarketAddress = a2
    ClientRequests = {q1, q2}
    NoClient = NoClient
    NoExternal = NoExternal
    Bodies <- AskedBodies
    SignatureExpiresIn = 1
    MaxUsers = 3
    MaxBegun = 4
    MaxTime = 2
    MaxFailures = 1
SYMMETRY Symmetric
CONSTRAINT ClientsApart
CHECK_DEADLOCK FALSE
INVARIANTS
    AccountsSound
    ReactionsSound
    CountedOnce
    CollectiblesSound
