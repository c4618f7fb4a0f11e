SPECIFICATION Spec
CONSTANTS
    Msgs = {m1}
    PublishRetry = 1
    MaxInbox = 1
    MaxOutside = 1
    MaxWorks = 1
INVARIANTS
    PoppedIsOwned
    MessageIsAccounted
    
CHECK_DEADLOCK FALSE
