SPECIFICATION Spec
CONSTANTS
    Conns = {1, 2, 3}
    Projects = {1, 2}
    Folder <- MCFolder
    MaxDrops = 1
    MaxLocal = 1
    Calls = {1, 2, 3, 4}
    Key <- MCKey
    Action <- MCAction
    QueueLimit = 1
    Requests = {1, 2, 3, 4}
    MaxPairs = 4
    MaxNow = 8
    Leeway = 1
    MaxLife = 3
    RateLimit = 2
    RateWindow = 3
    IdleLimit = 2
    AbsoluteLimit = 4
    Forms = {1, 2}
    Enrolments = {1, 2, 3}
    NameOf <- MCName
    KeyOf <- MCKeyOf
    NProjects = 4
    PageLimits = {1, 2}
    MaxFlips = 2
INVARIANTS
    PresenceSafe
    AdmissionSafe
    GrantsSafe
    GuardsSafe
    ToolsAgree
PROPERTIES
    DeviceBackOnline
CHECK_DEADLOCK FALSE
