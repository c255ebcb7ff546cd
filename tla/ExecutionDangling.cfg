CONSTANTS
    None = None
    NumTests = 2
    Hosts <- NativeSharing
    Swallows = FALSE
    MaxHostility = 0
    MaxCalls = 2
    MaxDepth = 2
SPECIFICATION Spec
INVARIANTS
    CallbackExists
