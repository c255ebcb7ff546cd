CONSTANTS
    m1 = m1
    m2 = m2
    v = v
    w = w
    Missing = Missing
    NoCount = NoCount
    SentinelMatcher <- MCSentinelMatcher
    Mocks <- TwoMocks
    ArgLists <- TwoArgLists
    MatcherLists <- ReentrantLists
    Undescribable <- None
    MaxExpectations = 2
    MaxCalls = 2
    MaxDepth = 3
    MaxTimes = 0
    MaxOneTime = 0
SPECIFICATION Spec
INVARIANTS
    TypeOK
    NewestMatchWins
