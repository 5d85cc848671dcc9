\* Two of five members fail.
SPECIFICATION Spec
CONSTANTS
    v1 = v1
    v2 = v2
    Versions = {v1, v2}
    FirstVersions = {v1, v2}
    NoVersion = NoVersion
    Size = 5
    FromBackup = {FALSE}
    Deployed = {TRUE}
    Lagging = {}
    MaxTime = 2
    MaxFailures = 2
    MaxChanges = 0
    MaxRenewals = 0
    MaxEvents = 2
    MaxFaults = 0
INVARIANTS
    RepairOneAtATime
    DataKept
PROPERTIES
    LongestFailedFirst
    RepairsOneByOne
SYMMETRY VersionSymmetry
\* With no event left to wait for, both controllers are idle: not an error.
CHECK_DEADLOCK FALSE
