\* Two jobs, so that a slot whose key is taken meets one whose key is free.
SPECIFICATION DueFairSpec
CONSTANTS
    j1 = j1
    j2 = j2
    w1 = w1
    w2 = w2
    c1 = c1
    Job = {j1, j2}
    Time = {0, 1, 2, 3, 4, 5}
    Worker = {w1}
    Client = {}
    MaxConcurrentRuns = 1
    JobInputs <- Forbid
    StoreFaults = FALSE
    HistoryLimit = TRUE
    MaxRuns = 1
    MaxExits = 0
    Config <- AtMostOne
    JobTimeout = 2
    MaxTime = 1
    MaxUpdates = 0
PROPERTY
    DueIsHandled
CHECK_DEADLOCK FALSE
