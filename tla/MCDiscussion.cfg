SPECIFICATION Spec
CONSTANTS
    Requests <- AllRequests
    Turnouts <- AllTurnouts
    MaxRuns = 3
CHECK_DEADLOCK FALSE
INVARIANTS
    ResumeContinues
    EndsForAReason
    TallyAddsUp
PROPERTIES
    DiscussionEnds
