SPECIFICATION Spec
CONSTANTS
    Results <- MCResults
    Comps = {"skill", "agent", "claude"}
    Key <- MCKey
    Scans <- MCScans
    Options <- MCOptions
    Workers = 2
CHECK_DEADLOCK FALSE
INVARIANTS
    ErrorsNeedDismissal
    ReviewIsWhole
    NoCallInFlight
PROPERTIES
    Ends
