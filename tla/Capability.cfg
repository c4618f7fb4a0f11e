SPECIFICATION Spec
CONSTANTS
    Apps = {a1, a2}
    MAX_SQNUM = 3
    MaxEvents = 2
    MaxNotis = 3
INVARIANTS
    CommandReachesCallback
    AllocatedIsFreed
    VersionsAgree
PROPERTIES
    NumberIdentifiesMessage
    RateLimitEnds
CHECK_DEADLOCK FALSE
