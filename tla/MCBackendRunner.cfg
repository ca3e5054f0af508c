CONSTANTS
    Calls <- TwoCalls
    Cap = 1
    Requests <- AllRequests
    Idle = 2
    Floor = 1
    Budget = 2
    MaxChat = 1
    MaxClock = 3
SPECIFICATION RunnerSpec
INVARIANTS
    LiveChildIsListed
    OutputBeatsTheReaper
PROPERTIES
    EveryCallReturns
