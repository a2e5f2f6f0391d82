SPECIFICATION ScanSpec
CONSTANTS
    Files = {"skill", "asset", "vendored", "note", "key", "workflow", "harness", "schema", "root", "helper"}
    Contents <- MCContents
    Size <- MCSize
    Absent = Absent
    Trees <- MCTrees
    Listed = {"skill", "harness"}
    Claimed = {"skill", "harness", "workflow"}
    Swept = {"skill", "note", "key"}
    Bare = {"root"}
    SkillMds = {"skill", "root"}
    Inside <- MCInside
    Skipped = {"vendored"}
    Scripts = {"helper", "vendored"}
    Refers <- MCRefers
    Excluded = {"key"}
    Deep = {"schema"}
    MaxFiles = 3
    MaxFileBytes = 2
    MaxTotalBytes = 4
    MaxEdits = 2
INVARIANTS
    StableComponentCovered
    RulesReadWhatWasHashed
    StableWithinLimits
