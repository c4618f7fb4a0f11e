SPECIFICATION Spec
CONSTANTS
    Producers = {app, timer}
    MaxWorks = 4
INVARIANTS
    StatusMatchesPipe
    NoLostWakeup
PROPERTIES
    ImplementsMailbox
