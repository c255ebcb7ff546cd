CONSTANTS
    Classes <- ClassesByTurn
    Manners = {"owners", "sequential"}
    NumPointers = 2
    MaxCallbacks = 2
    MaxDepth = 2
    MaxRuns = 3
CHECK_DEADLOCK FALSE
SPECIFICATION Spec
INVARIANTS
    TypeOK
    NoUseAfterFree
    NoLeak
    OneOwner
    SegfaultsIfUsedAgain
