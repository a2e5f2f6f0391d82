SPECIFICATION Spec
CONSTANTS
    Names = {"a", "b"}
    Scripts <- MCScripts
    NoName = "none"
    Vars = {"A", "AB"}
    Prefixes <- MCPrefixes
    ShScripts <- MCShScripts
INVARIANTS FlowsReported ReportsBacked
CHECK_DEADLOCK FALSE
