SPECIFICATION Spec
CONSTANTS
    Ops = {1}
    Unsafe = {1}
    Native = {}
    Replies = {}
    Expiring = {1}
    FastClock = TRUE
    MaxPending = 1
    MaxEpoch = 2
    MaxCrashes = 1
    MaxRotations = 1
    MaxFaults = 1
INVARIANTS
    NeverRedelivered
    AckedIsStored
CHECK_DEADLOCK FALSE
