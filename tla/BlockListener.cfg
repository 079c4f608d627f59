SPECIFICATION FairSpec
CONSTANTS
    COUNT = 2
    StartBlock = 1
    Poison = {4}
    MaxHead = 4
    MaxFailures = 3
INVARIANTS
    CursorSound
    RepeatsOnlyAfterFailure
PROPERTIES
    DeliversInOrder
    EveryBlockHandled
    WedgesAtPoison
