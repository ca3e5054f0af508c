CONSTANTS
    Pollers <- TwoPollers
    None = None
SPECIFICATION JobSpec
INVARIANTS
    PersistedUnknownIsDead
    ZeroMeansSuccess
PROPERTIES
    ResultsStick
    DeadJobsAreReported
