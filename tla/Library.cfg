SPECIFICATION Spec
CONSTANTS
    AlphabetSize = 26
    Alphabet <- TellingBytes
    MaxLength = 4
    MaxNumber = 1100
    EdgeNumbers <- Edges
    o1 = o1
    o2 = o2
    o3 = o3
    o4 = o4
    o5 = o5
    o6 = o6
    Objects <- SixObjects
    KindOf <- KindsOfSix
    Takes <- TakesOfSix
    References <- ReferencesOfSix
    KeyOrder <- TwoKeys
    Absent = Absent
    Root = o1
    Undefined = Undefined
INVARIANTS
    
    PiecesExact
    NumbersReadBack
    PlatformDoesNotShow
    InOrder
    EqualIfSameTree
    EachObjectOnce
CHECK_DEADLOCK FALSE
