\* One job that is updated once between three schedules while its slots come due.
SPECIFICATION DueSpec
CONSTANTS
    j1 = j1
    j2 = j2
    w1 = w1
    w2 = w2
    c1 = c1
    Job = {j1}
    Time <- Instants
    Worker = {w1}
    Client = {}
    MaxConcurrentRuns = 1
    JobInputs <- AnySchedule
    StoreFaults = FALSE
    HistoryLimit = FALSE
    MaxRuns = 0
    MaxExits = 1
    Config <- AtMostOne
    JobTimeout = 2
    MaxTime = 2
    MaxUpdates = 1
INVARIANTS
    DueTypeOK
    LogTellsSweep
PROPERTIES
    FreshSlot
    SkipNeedsLiveRun
    ImplementsQueue
CHECK_DEADLOCK FALSE
