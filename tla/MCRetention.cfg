\* Rows, artifacts and logs of runs that failed expire after a day; a log of two
\* bytes is truncated to one, and two bytes are too many for the storage.
SPECIFICATION Spec
CONSTANTS
    Run = {1, 2}
    RunHistoryDays = 1
    SuccessLogDays = 0
    FailedLogDays = 1
    ArtifactDays = 1
    MaxLogBytesPerRun = 1
    MaxTotalStorageBytes = 1
    PageSize = 2
    MaxFaults = 1
    MaxTime = 2
    MaxSize = 2
INVARIANT
    RetentionTypeOK
PROPERTIES
    OpenFilesAreLeftAlone
    NoFileLosesItsRow
    OnlyAboveCap
CHECK_DEADLOCK FALSE
