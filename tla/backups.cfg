\* Two or three Backups, with a cache that keeps up and with one that lags; one
\* fault or one timer that is overtaken.
SPECIFICATION FairSpec
CONSTANTS
    CreationPeriod = 1
    RetentionPeriod = 2
    Lagging = {TRUE, FALSE}
    MaxTime = 4
    MaxBackups = 2
    MaxFaults = 1
INVARIANTS
    BackupTypeOK
    FinishedHasUpload
    NoOrphanUpload
    OneInProgress
PROPERTIES
    PeriodKept
    ExpiredGoes
    ScheduleGoesOn
CHECK_DEADLOCK FALSE
