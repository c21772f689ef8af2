SPECIFICATION Spec
CONSTANTS
    Ops = {1}
    Unsafe = {}
    Native = {1}
    Replies = {"invalid"}
    Expiring = {}
    FastClock = FALSE
    MaxPending = 2
    MaxEpoch = 2
    MaxCrashes = 1
    MaxRotations = 0
    MaxFaults = 1
INVARIANTS
    AtMostOnce
PROPERTIES
    SettledOnce
    EpochFence
CHECK_DEADLOCK FALSE
