SPECIFICATION QueueSpec
CONSTANTS
    Nodes = {n1, n2, n3, n4}
    Owners = {client, NoOwner}
    NoOwner = NoOwner
    NULL = NULL
    MaxSends = 5
INVARIANTS
    ListIsAllocated
    QueueUnlessTailFreed
CHECK_DEADLOCK FALSE
