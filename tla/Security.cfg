SPECIFICATION SecuritySpec
CONSTANTS
    Variants = {"http", "ble", "x509"}
    MaxRequests = 3
    MaxSessions = 3
    Bytes = {0, 1, 63, 130, 248, 255}
    MaxBytes = 4
    Chars = {0, 63, 64, 65, 67, 68, 69}
    MaxChars = 5
    Uint = 65536
    RingSizes = {64, 48}
    StateSizes = {164, 168}
INVARIANTS
    Base64RoundTrip
    
    DumpIsLatestLog
    
PROPERTIES
    LossHasCause
CHECK_DEADLOCK FALSE
