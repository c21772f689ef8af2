SPECIFICATION ActsSpec
CONSTANTS
    Ops = {1, 2, 3}
    Key <- ReadKey
    FileOps = {3}
    Inside = {3}
    FirstMode = "project"
    MaxGeneration = 2
    ActKeys = {1, 2}
    Kinds = {"click", "fill", "select"}
    ActLimit = 1
    MaxChanges = 2
    MaxSent = 2
INVARIANTS
    PageSafe
PROPERTIES
    RevokedNeverPasses
    RevokedNeverSaves
    ModeStillAllows
    InputsInTime
CHECK_DEADLOCK FALSE
