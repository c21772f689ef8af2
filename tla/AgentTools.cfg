SPECIFICATION Spec
CONSTANTS
    NFiles = 2
    MaxEdits = 3
    MaxGens = 2
    Uris = {1, 2}
    Tokens = {1, 2}
    MaxOpen = 1
    MaxTexts = 2
    MaxEpoch = 2
    Nodes = {1, 2, 3, 4}
    External = {4}
    Pairs2 <- MCPairs
    Limits = {1, 2, 3}
    MaxRequests = 3
    MaxLevels = 2
    Declared = {0, 2, 3}
    MaxManifests = 4
    MaxBuildRoots = 2
    TextFiles <- MCTexts
    ByteCaps = {1, 2, 3}
    Trees <- MCTrees
    FileCap = 3
    ScanCap = 4
    ChunkSizes = {1, 2}
    OutputLimit = 5
    PageSizes = {1, 3}
    RowPage = 2
    MaxProduced = 6
INVARIANTS
    CodeSafe
    DiagnosticsCurrent
    AnswersSound
    ReadsWhole
    OutputSafe
CHECK_DEADLOCK FALSE
