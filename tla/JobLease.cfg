SPECIFICATION LeaseFairSpec
CONSTANTS
    a = a
    b = b
    c = c
    Owners = {a, b, c}
    Slots = {1, 2}
    Gone = Gone
    LeaseMs = 9
    HeartbeatMs = 3
    Late = 2
    Skew <- MCSkew
    Prompt = {a, b}
PROPERTIES
    ImplementsMutex
    LiveLeaseIsKept
    CrashedHolderIsReplaced
