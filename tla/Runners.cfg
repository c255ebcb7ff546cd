CONSTANTS
    Suites <- MCSuites
    NameOf <- MCNameOf
    Keys = {"x", "y_"}
    Skipped = {"y_"}
    NoPrototype = {4}
    NumScripts = 2
    Flags <- MCFlags
    MaxSteps = 4
    MaxMessages = 1
    PageKeys = {"x", "z"}
    PageSteps = 6
    Filters <- MCFilters
    Malformed <- MCMalformed
CHECK_DEADLOCK FALSE
SPECIFICATION RunnersSpec
INVARIANTS
    RunnersTypeOK
    ExitStatusHonest
    ReportsAgree
    NothingForgotten
    FilesComplete
    PageHonest
PROPERTIES
    Ends
    PageConcludes
