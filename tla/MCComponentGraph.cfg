SPECIFICATION FlowSpec
CONSTANTS
    Comps = {"skillA", "skillB", "copyA", "command", "agent", "hooks", "mcp"}
    Names <- MCNames
    Type <- MCType
    Name <- MCName
    Parent <- MCParent
    Stem <- MCStem
    Contents <- MCContents
    Detections <- MCDetections
CHECK_DEADLOCK FALSE
INVARIANTS
    UnreachableIsUntriggered
    FlowsAreReported
