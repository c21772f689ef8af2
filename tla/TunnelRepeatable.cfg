SPECIFICATION Spec
CONSTANTS
    Ops = {1}
    Unsafe = {}
    Native = {}
    Replies = {"image"}
    Expiring = {}
    FastClock = FALSE
    MaxPending = 2
    MaxEpoch = 2
    MaxCrashes = 1
    MaxRotations = 0
    MaxFaults = 1
INVARIANTS
    AnswerDurable
PROPERTIES
    JournalImmutable
CHECK_DEADLOCK FALSE
