SPECIFICATION FairSpec
CONSTANTS
    u1 = u1
    u2 = u2
    s1 = s1
    a1 = a1
    a2 = a2
    NoSlug = NoSlug
    None = None
    NoLogo = NoLogo
    Users = {u1}
    Slugs = {s1}
    Addresses = {a1, a2}
    Requests = {1, 2}
    BlockChoices <- TokenBlocks
    MaxTokens = 2
    MaxUploads = 0
    MaxBlocks = 3
    MaxFailures = 1
CHECK_DEADLOCK FALSE
INVARIANTS
    CardsSound
    IdentifiersInOrder
PROPERTIES
    EveryDescribedTokenListed
