\* The create command deploys a one-member cluster from a backup, every cache lags.
SPECIFICATION CliSpec
CONSTANTS
    v1 = v1
    v2 = v2
    Versions = {v1, v2}
    FirstVersions = {v1}
    NoVersion = NoVersion
    Asked = {}
    Size = 1
    FromBackup = {TRUE}
    Deployed = {FALSE}
    Lagging = {"cluster", "members", "pods"}
    MaxTime = 1
    MaxFailures = 0
    MaxChanges = 0
    MaxRenewals = 0
    MaxEvents = 0
    MaxFaults = 0
PROPERTIES
    
    ReportTruth
    
\* With no event left to wait for, both controllers are idle: not an error.
CHECK_DEADLOCK FALSE
