CONSTANTS
    None = None
    NumTests = 2
    Hosts <- HostileHosts
    Swallows = TRUE
    MaxHostility = 2
    MaxCalls = 4
    MaxDepth = 4
SPECIFICATION Spec
INVARIANTS
    TypeOK
    EnvironmentOfRunningTest
    PassedOnByEscapes
    BlamesRightCall
    NoFalsePass
PROPERTIES
    AllTestsConclude
