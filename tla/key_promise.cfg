SPECIFICATION Spec
CONSTANTS
    Handlers = {h1}
    Paths <- MCPaths
    Faults = FALSE
    Racing = FALSE
    MaxCollisions = 0
    MaxRestarts = 0
    None = None
INVARIANT SubtreePromise
