\* One calendar job that is updated while its slots come due; no triggers.
SPECIFICATION DueFairSpec
CONSTANTS
    j1 = j1
    j2 = j2
    w1 = w1
    w2 = w2
    c1 = c1
    Job = {j1}
    Time = {0, 1, 2, 3, 4, 5}
    Worker = {w1}
    Client = {}
    MaxConcurrentRuns = 1
    JobInputs <- Calendar
    StoreFaults = FALSE
    HistoryLimit = FALSE
    MaxRuns = 0
    MaxExits = 0
    Config <- Unlimited
    JobTimeout = 0
    MaxTime = 2
    MaxUpdates = 1
PROPERTY
    DueGetsRun
CHECK_DEADLOCK FALSE
