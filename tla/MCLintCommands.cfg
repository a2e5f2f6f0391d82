SPECIFICATION Spec
CONSTANTS
    Files <- MCFiles
    Texts <- MCTexts
    Blank = ""
    Trees <- MCTrees
    Edited <- MCEdited
    Catalog <- MCCatalog
    TargetRules = {"custom"}
    Meta <- MCMeta
    RecommendedOverrides <- MCRecommended
    StrictOverrides <- MCStrict
    SecurityOverrides <- MCSecurity
    Fires <- MCFires
    FiresAlone <- MCFiresAlone
    Quotes = {"secrets", "yara"}
    Unsteady = {"circular"}
    Orders <- MCOrders
    Told <- MCTold
    Fix <- MCFix
    NoFix = "nofix"
    Unparsable = {"tab"}
    Outside = {"user.json"}
    Unknown = {"user.json"}
    Options <- MCOptions
    MaxEdits = 1
    MaxRuns = 3
INVARIANTS NewFindingsFail QuietWhileUnchanged FixKeepsOtherLines CardMatchesExit
CHECK_DEADLOCK FALSE
