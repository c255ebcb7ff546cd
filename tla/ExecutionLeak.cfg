CONSTANTS
    None = None
    NumTests = 2
    Hosts <- Browser
    Swallows = FALSE
    MaxHostility = 1
    MaxCalls = 4
    MaxDepth = 3
SPECIFICATION Spec
INVARIANTS
    Isolation
