SPECIFICATION MCSpec
CONSTANTS
    Nodes = {a, b, c}
    MaxEdges = 3
    EdgeLists <- MCEdgeLists
    Thresholds <- MCThresholds
    Linted <- MCLinted
    Kind <- MCKind
    DirName <- MCDirName
    OwnPlugin = "own"
    Texts <- MCTexts
CHECK_DEADLOCK FALSE
INVARIANTS
    ReturnsReachable
    CyclesReported
    MissingIsAbsent
PROPERTY
    Returns
