CONSTANTS
    Runs <- AllRuns
    Sizes = {1, 2}
    MaxSends = 3
    MaxAnswers = 2
    MaxMessages = 4
    FetchLimit = 2
SPECIFICATION DriversSpec
CHECK_DEADLOCK FALSE
INVARIANTS
    EvidenceIsTheCases
    NothingIsLost
PROPERTIES
    SuiteEnds
