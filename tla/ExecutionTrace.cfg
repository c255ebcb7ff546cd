CONSTANTS
    None = None
    NumTests = 1
    Hosts <- Browser
    Swallows = TRUE
    MaxHostility = 0
    MaxCalls = 4
    MaxDepth = 4
SPECIFICATION Spec
INVARIANTS
    TraceOfForeignException
