SPECIFICATION FairSpec
CONSTANTS
    Names = {n1, n2}
    Requests = {r1, r2}
    Manual = Manual
    NoServer = NoServer
    SharePackages = FALSE
    MaxDisturbances = 1
CHECK_DEADLOCK FALSE
INVARIANTS
    TypeOK
    SequentialAnswersHold
    OverlapsNeverTear
PROPERTIES
    SequentialRequestsAreLocal
    RequestsEnd
