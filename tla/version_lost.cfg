\* The version is changed before the new cluster runs.
SPECIFICATION FairSpec
CONSTANTS
    v1 = v1
    v2 = v2
    Versions = {v1, v2}
    FirstVersions = {v1}
    NoVersion = NoVersion
    Size = 1
    FromBackup = {FALSE}
    Deployed = {FALSE}
    Lagging = {}
    MaxTime = 1
    MaxFailures = 0
    MaxChanges = 1
    MaxRenewals = 0
    MaxEvents = 1
    MaxFaults = 0
PROPERTIES
    Converges
\* With no event left to wait for, both controllers are idle: not an error.
CHECK_DEADLOCK FALSE
