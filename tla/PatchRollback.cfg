SPECIFICATION WorkSpec
CONSTANTS
    Absent <- MCAbsent
    Keys = {1, 2}
    Paths = {1, 2, 3}
    Sections <- MCSections
    Base <- MCBase
    Start <- MCStart
    Edits <- MCEdits
    MaxEdits = 1
    MaxCrashes = 1
    MaxRequests = 2
    Ops = {1, 2}
PROPERTIES
    NewerWorkPreserved
CHECK_DEADLOCK FALSE
