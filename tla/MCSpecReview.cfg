CONSTANTS
    n1 = n1
    n2 = n2
    Notes <- TwoNotes
    MaxSubmits = 2
    MaxReplies = 1
    MaxRequests = 3
    FlockWorks = TRUE
    Handoffs <- EveryHandoff
    None = None
CHECK_DEADLOCK FALSE
SPECIFICATION Spec
INVARIANTS
    EachSubmitSpeaksForItself
PROPERTIES
    NotesSurvive
    EverySubmitReachesTheWatch
