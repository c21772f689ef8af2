SPECIFICATION FairSpec
CONSTANTS
    Ops = {1}
    Unsafe = {1}
    Native = {1}
    Replies = {}
    Expiring = {1}
    FastClock = FALSE
    MaxPending = 2
    MaxEpoch = 2
    MaxCrashes = 0
    MaxRotations = 0
    MaxFaults = 1
PROPERTIES
    OutcomeSpec
    TerminalsAcknowledged
CHECK_DEADLOCK FALSE
