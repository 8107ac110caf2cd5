SPECIFICATION FairSpec
CONSTANTS
    Handlers = {h1, h2}
    Paths <- MCPaths
    Faults = TRUE
    Racing = TRUE
    MaxCollisions = 1
    MaxRestarts = 1
    None = None
INVARIANTS
    SubtreeKeys
    NamesakeKeys
PROPERTY GetKeyReturns
