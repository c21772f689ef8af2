SPECIFICATION MCSpec
CONSTANTS
    Projects = {1, 2}
    Requests = {1, 2, 3}
    ProjectOf <- MCProjectOf
    KeyOf <- MCKeyOf
    OwnerOf <- MCOwnerOf
    DigestOf <- MCDigestOf
    Full = {1}
    External = {2}
    Files <- MCFiles
    MaxSessions = 1
    MaxEpoch = 2
    MaxEvents = 1
    MaxFaults = 1
INVARIANTS
    SurvivesReconnect
CHECK_DEADLOCK FALSE
