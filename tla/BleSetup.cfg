SPECIFICATION Spec
CONSTANTS
    None = None
    PhoneSteps = {0, 1, 2, 3, 4, 5, 7, 8}
    MaxTokens = 1
    MaxRequests = 5
    MaxRestarts = 1
PROPERTIES
    OnboardedIsStored
    ConfirmationHasCause
    RequestIsAnswered
CHECK_DEADLOCK FALSE
