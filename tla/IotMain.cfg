SPECIFICATION Spec
CONSTANTS
    MaxFaults = 2
    MaxCalls = 2
    MaxCleanups = 1
    MaxQueue = 12
    CriticalRejectMax = 1
INVARIANTS
    ProvisioningTimesOut
    LossIsNoticed
    
PROPERTIES
    ConnectionComesBack
CHECK_DEADLOCK FALSE
