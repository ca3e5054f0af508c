SPECIFICATION Spec
CONSTANTS
    t1 = t1
    t2 = t2
    t3 = t3
    Threads <- MCThreads
    Process <- MCProcess
    Unlucky = {t3}
    Keys <- MCKeys
    Schedule <- MCSchedule
    ResetAfter = 2
    Overrides <- MCOverrides
    MaxTime = 3
    Seats <- MCSeats
    Works <- MCWorks
CHECK_DEADLOCK FALSE
PROPERTIES
    NothingLearntIsLost
    SkipIsEarned
    EveryCallEnds
