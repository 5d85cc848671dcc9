\* A repair is interrupted between MemberAdd and its record.
SPECIFICATION FairSpec
CONSTANTS
    v1 = v1
    v2 = v2
    Versions = {v1, v2}
    FirstVersions = {v1}
    NoVersion = NoVersion
    Size = 3
    FromBackup = {FALSE}
    Deployed = {TRUE}
    Lagging = {}
    MaxTime = 2
    MaxFailures = 1
    MaxChanges = 0
    MaxRenewals = 0
    MaxEvents = 1
    MaxFaults = 1
PROPERTIES
    RepairEnds
\* With no event left to wait for, both controllers are idle: not an error.
CHECK_DEADLOCK FALSE
