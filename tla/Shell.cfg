SPECIFICATION MCSpec
CONSTANTS
    Jobs = {1, 2, 3}
    Slot <- MCSlot
    Owner <- MCOwner
    Root <- OneRoot
    Prompt = {2}
    RetainLimit = 1
    MaxCancels = 1
    MaxEvents = 1
    MaxRestarts = 1
INVARIANTS
    SpawnedOnce
    OwnedWhileRunning
    NoUntrackedProcess
    RetainedBounded
PROPERTIES
    TerminalRowStays
    RootsFreed
CHECK_DEADLOCK FALSE
