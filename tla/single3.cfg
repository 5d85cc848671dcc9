\* One event in the life of three members: an update command, a renewed
\* certificate, or a failure.
SPECIFICATION CliSpec
CONSTANTS
    v1 = v1
    v2 = v2
    Versions = {v1, v2}
    FirstVersions = {v1}
    NoVersion = NoVersion
    Asked = {v2}
    Size = 3
    FromBackup = {FALSE}
    Deployed = {TRUE}
    Lagging = {}
    MaxTime = 2
    MaxFailures = 1
    MaxChanges = 0
    MaxRenewals = 1
    MaxEvents = 1
    MaxFaults = 0
INVARIANTS
    QuorumKept
    VersionTruth
PROPERTIES
    Converges
    ReportTruth
    CommandEnds
    PeerRenewalPickedUp
    NoNeedlessRestart
    RepairCompletes
\* With no event left to wait for, both controllers are idle: not an error.
CHECK_DEADLOCK FALSE
