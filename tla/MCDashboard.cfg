CONSTANTS
    p1 = p1
    p2 = p2
    st = st
    wm = wm
    b1 = b1
    b2 = b2
    Threads <- MCThreads
    Refreshers <- MCRefreshers
    Files = {1, 2}
    Gaps = {1, 9}
    RetryLimit = 2
    RecentRuns = 1
    Board <- MCBoard
    MaxCallWall = 6
    RecentN = 2
    Works <- MCWorks
SPECIFICATION Spec
CHECK_DEADLOCK FALSE
INVARIANTS
    NothingStaleLooksFresh
    AnswersAreTheirOwn
    PageTellsOutcomes
PROPERTIES
    PageCatchesUp
