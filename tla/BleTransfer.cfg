SPECIFICATION Spec
CONSTANTS
    Ordinary = {1}
    MaxMsgs = 2
    MaxSegments = 2
    MaxChunks = 2
    MaxRestarts = 1

    
    
PROPERTIES
    SkippedHasCause
CHECK_DEADLOCK FALSE
