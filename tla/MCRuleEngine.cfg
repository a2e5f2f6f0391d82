SPECIFICATION Spec
CONSTANTS
    Queue <- MCQueue
    RuleSeq <- MCRuleSeq
    RuleIds <- MCRuleIds
    Files <- MCFiles
    Descriptors <- MCDescriptors
    Configs <- MCConfigs
    Directives <- MCDirectives
    Reachable <- MCReachable
    Contents <- MCContents
    AllLines = AllLines
    NoLine = NoLine
    NoSuchFile = NoSuchFile
    NoText = NoText
    Blank = Blank
INVARIANTS
    RuleTableAgrees
    SetupRuleReportsOnce
    OwnDirectiveHonoured
    BrokenIsNotClean
    ViewsShowWhatRuns
CHECK_DEADLOCK FALSE
