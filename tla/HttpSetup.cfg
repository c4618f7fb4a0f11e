SPECIFICATION Spec
CONSTANTS
    Payloads = {p1}
    None = None
    MaxTokens = 1
    MaxInits = 2
PROPERTIES
    
    ConfirmationHasCause
    
CHECK_DEADLOCK FALSE
