SPECIFICATION Spec
CONSTANTS
    Msgs = {m1}
    PublishRetry = 2
    MaxInbox = 2
    MaxOutside = 0
    MaxWorks = 1
INVARIANTS
    PacketRoundTrip
PROPERTIES
    PublishReturns
    DestroyReturns
CHECK_DEADLOCK FALSE
