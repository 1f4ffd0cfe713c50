\* Two executions in up to two processes, with and without cleanup, and one
\* docker command or write that fails.  No symmetry: the run checks liveness.
SPECIFICATION FairSpec
CONSTANTS
    Execution = {1, 2}
    MaxConcurrentRuns = 1
    Cleanup = {TRUE, FALSE}
    OrphanRecovery = TRUE
    MaxStarts = 2
    MaxFaults = 1
INVARIANTS
    ExecutorTypeOK
    ContainerIsAttended
    FoundAreGone
    SuccessIsWhole
PROPERTIES
    LiveIsNotRecovered
    ContextEndsExecution
\* The process may be down for good.
CHECK_DEADLOCK FALSE
