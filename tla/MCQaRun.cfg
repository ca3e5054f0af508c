CONSTANTS
    Requests <- AllRequests
    MaxSignals = 2
    MaxCases = 1
    Said <- SaidFor
SPECIFICATION Spec
CHECK_DEADLOCK FALSE
INVARIANTS
    NothingIsLeft
    ResultIsOfTheRun
PROPERTIES
    RunEnds
