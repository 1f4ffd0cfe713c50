SPECIFICATION Spec
CONSTANTS
    j1 = j1
    w1 = w1
    w2 = w2
    w3 = w3
    c1 = c1
    Job = {j1}
    Time = {0}
    Worker = {w1, w2, w3}
    Client = {c1}
    MaxConcurrentRuns = 2
    JobInputs <- NoRetry
    StoreFaults = FALSE
    HistoryLimit = FALSE
    MaxRuns = 1
    MaxExits = 1
PROPERTY
    FinalStatusIsFinal
CHECK_DEADLOCK FALSE
