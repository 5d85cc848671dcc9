\* One of three members fails; one fault; the caches of clusters and members lag.
SPECIFICATION Spec
CONSTANTS
    v1 = v1
    v2 = v2
    Versions = {v1, v2}
    FirstVersions = {v1, v2}
    NoVersion = NoVersion
    Size = 3
    FromBackup = {FALSE}
    Deployed = {TRUE}
    Lagging = {"cluster", "members"}
    MaxTime = 2
    MaxFailures = 1
    MaxChanges = 0
    MaxRenewals = 0
    MaxEvents = 1
    MaxFaults = 1
INVARIANTS
    BrokenOnlyFailed
    NewPodCanStart
PROPERTIES
    NoHealthyWipe
    RepairsOneByOne
SYMMETRY VersionSymmetry
\* With no event left to wait for, both controllers are idle: not an error.
CHECK_DEADLOCK FALSE
