SPECIFICATION Spec
CONSTANTS
    Ports = {"posix", "esp32", "bl602"}
    Medias = {"http", "ble"}
    MaxProvs = 2
    MaxFaults = 3
    MaxExtras = 1
INVARIANTS
    DoneIsWhole
    
    EntriesAreKept
CHECK_DEADLOCK FALSE
