SPECIFICATION FairSpec
CONSTANTS
    u1 = u1
    u2 = u2
    s1 = s1
    a1 = a1
    a2 = a2
    NoSlug = NoSlug
    None = None
    NoLogo = NoLogo
    Users = {u1}
    Slugs = {s1}
    Addresses = {a1, a2}
    Requests = {1, 2}
    BlockChoices <- ContractBlocks
    MaxTokens = 0
    MaxUploads = 3
    MaxBlocks = 2
    MaxFailures = 1
CHECK_DEADLOCK FALSE
INVARIANTS
    AttachmentsSound
    UpdatesConfined
PROPERTIES
    EveryDescribedContractListed
