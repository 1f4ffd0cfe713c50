\* One token and a retry, so that every signal comes while no token is free; one
\* cancel request, one end of the process; the retry limit of the job changes between
\* 0 and 1 meanwhile.  No symmetry: TLC's reduction is not sound for liveness.
SPECIFICATION FairSpec
CONSTANTS
    j1 = j1
    w1 = w1
    w2 = w2
    w3 = w3
    c1 = c1
    Job = {j1}
    Time = {0}
    Worker = {w1, w2}
    Client = {c1}
    MaxConcurrentRuns = 1
    JobInputs <- AtMostOneRetry
    StoreFaults = FALSE
    HistoryLimit = TRUE
    MaxRuns = 1
    MaxExits = 1
INVARIANTS
    RetriesFollowAttempts
PROPERTIES
    PendingIsTaken
    RunningIsClosed
    ImplementsQueue
CHECK_DEADLOCK FALSE
