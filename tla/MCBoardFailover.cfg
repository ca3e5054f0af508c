CONSTANTS
    PoolSize = 2
    ReserveSize = 2
    codex = codex
    kCodex = kCodex
    NoProvider = NoProvider
    Seats <- MCSeats
    Keys <- MCKeys
    Providers <- MCProviders
    Key <- MCKey
    BaseChain <- MCBaseChain
    DefaultSelection <- MCSeats
    Streamed <- MCProviders
    RetryBudget = 0
    MaxConcurrency = 0
    WallCap = FALSE
SPECIFICATION BSpec
INVARIANTS
    EveryFailureIsBackfilled
    EachSeatTalliedOnce
    NothingLeaks
PROPERTIES
    BoardTerminates
    ImplementsContract
