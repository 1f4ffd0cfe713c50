SPECIFICATION DueSpec
CONSTANTS
    j1 = j1
    j2 = j2
    w1 = w1
    w2 = w2
    c1 = c1
    Job = {j1}
    Time = {0, 1, 2, 3, 4, 5}
    Worker = {w1, w2}
    Client = {}
    MaxConcurrentRuns = 2
    JobInputs <- Forbid
    StoreFaults = FALSE
    HistoryLimit = FALSE
    MaxRuns = 0
    MaxExits = 0
    Config <- Unlimited
    JobTimeout = 0
    MaxTime = 2
    MaxUpdates = 0
INVARIANT
    ForbidMeansOne
CHECK_DEADLOCK FALSE
