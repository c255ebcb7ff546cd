CONSTANTS
    m1 = m1
    m2 = m2
    v = v
    w = w
    Missing = Missing
    NoCount = NoCount
    SentinelMatcher <- MCSentinelMatcher
    Mocks <- OneMock
    ArgLists <- OddArgLists
    MatcherLists <- OddLists
    Undescribable <- BothV
    MaxExpectations = 2
    MaxCalls = 2
    MaxDepth = 3
    MaxTimes = 0
    MaxOneTime = 0
SPECIFICATION Spec
INVARIANTS
    ArityRespected
PROPERTIES
    TestEnds
