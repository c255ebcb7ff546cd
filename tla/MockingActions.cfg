CONSTANTS
    m1 = m1
    m2 = m2
    v = v
    w = w
    Missing = Missing
    NoCount = NoCount
    SentinelMatcher <- MCSentinelMatcher
    Mocks <- OneMock
    ArgLists <- OneArgList
    MatcherLists <- OneList
    Undescribable <- None
    MaxExpectations = 2
    MaxCalls = 3
    MaxDepth = 4
    MaxTimes = 1
    MaxOneTime = 2
SPECIFICATION Spec
INVARIANTS
    ActionOrder
    CallsAccounted
    Verdict
PROPERTIES
    ContractSpec
