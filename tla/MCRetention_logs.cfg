\* One run and one fault are enough for a log that no pass deletes.
SPECIFICATION Spec
CONSTANTS
    Run = {1}
    RunHistoryDays = 0
    SuccessLogDays = 1
    FailedLogDays = 1
    ArtifactDays = 1
    MaxLogBytesPerRun = 0
    MaxTotalStorageBytes = 0
    PageSize = 1
    MaxFaults = 1
    MaxTime = 2
    MaxSize = 1
PROPERTY
    ExpiredLogsGo
CHECK_DEADLOCK FALSE
