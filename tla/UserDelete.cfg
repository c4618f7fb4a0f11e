SPECIFICATION DeleteSpec
CONSTANT
    MaxRequests = 3
INVARIANTS
    ResultIsTrue
PROPERTIES
    FlagIsOfOpenRequest
    CleanupReturns
