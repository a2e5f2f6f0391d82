SPECIFICATION Spec
CONSTANTS
    Ids <- MCIds
    Types = {"skill", "hooks"}
    Builtins <- MCBuiltins
    Dirs = {"cwd", "other"}
    Cwd = "cwd"
    YamlTrees <- MCYamlTrees
    PluginSets <- MCPluginSets
    Late <- MCLate
    Scans = {s1, s2}
    Requests <- MCRequests
CHECK_DEADLOCK FALSE
SYMMETRY ScanSymmetry
INVARIANTS
    TargetRulesStayLocal
    IndexIsCurrent
    SoundPluginsLoaded
PROPERTY
    NoRuleReplaced
