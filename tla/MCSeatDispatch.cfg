CONSTANTS
    glm = glm
    glmPin = glmPin
    zai = zai
    oc = oc
    kGlm = kGlm
    NoProvider = NoProvider
    Seats <- MCSeats
    Keys <- MCKeys
    Providers <- MCProviders
    Key <- MCKey
    BaseChain <- MCBaseChain
    DefaultSelection <- MCDefaultSelection
    Streamed <- MCStreamed
    RetryBudget = 2
    MaxConcurrency = 1
    WallCap = TRUE
SPECIFICATION Spec
INVARIANTS
    FailsOnlyAfterFairTrials
PROPERTIES
    EverySeatReturns
