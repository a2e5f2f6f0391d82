SPECIFICATION Spec
CONSTANTS
    Rules <- MCRules
    Effect <- MCEffect
    Paths <- MCPaths
    BaseName <- MCBaseName
    Globs <- MCGlobs
    Match <- MCMatch
    NoGlob = NoGlob
    BadGlob = BadGlob
    Universe <- MCUniverse
    PolicyFiles <- MCPolicyFiles
    Roots = {"here", "elsewhere"}
    ScanRoot = "here"
    Baselines <- MCBaselines
INVARIANTS
    EveryFindingAccounted
    FailIffDefect
    PassMeansAccepted
CHECK_DEADLOCK FALSE
