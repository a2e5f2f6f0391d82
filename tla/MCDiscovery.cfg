SPECIFICATION DiscoverySpec
CONSTANTS
    Files <- MCFiles
    Trees <- MCTrees
    Spellings <- MCSpellings
    Patterns <- MCPatterns
CHECK_DEADLOCK FALSE
INVARIANTS
    InventoryCovers
    ExcludesTakeOnlyTheirFiles
    OwnerIsAttributed
    RecursiveKeeps
