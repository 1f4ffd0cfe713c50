\* One triggered run and its retry, two tokens, one cancel request, failing
\* transactions, one end of the process.
SPECIFICATION Spec
CONSTANTS
    j1 = j1
    w1 = w1
    w2 = w2
    w3 = w3
    c1 = c1
    Job = {j1}
    Time = {0}
    Worker = {w1, w2}
    Client = {c1}
    MaxConcurrentRuns = 2
    JobInputs <- OneRetry
    StoreFaults = TRUE
    HistoryLimit = FALSE
    MaxRuns = 1
    MaxExits = 1
SYMMETRY WorkerSymmetry
INVARIANTS
    TypeOK
    ClaimInv
    RetriesFollowAttempts
    LogTellsExecution
    RetryKeyFree
    TokensAreWorkers
    BatchFits
PROPERTIES
    ExecutedOnce
    NeverPendingAgain
\* The process may be down for good, or up with nothing left to do.
CHECK_DEADLOCK FALSE
