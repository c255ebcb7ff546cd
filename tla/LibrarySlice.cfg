SPECIFICATION Spec
CONSTANTS
    AlphabetSize = 26
    Alphabet = {}
    MaxLength = 0
    MaxNumber = 6
    EdgeNumbers = {}
    o1 = o1
    o2 = o2
    o3 = o3
    o4 = o4
    o5 = o5
    o6 = o6
    Objects <- SixObjects
    KindOf <- KindsOfSix
    Takes <- TakesOfSix
    References <- ReferencesOfSix
    KeyOrder <- TwoKeys
    Absent = Absent
    Root = o1
    Undefined = Undefined
INVARIANTS
    EndIsExclusive
CHECK_DEADLOCK FALSE
