\* A one-member cluster from creation on: one fault, one version change, one renewal.
SPECIFICATION Spec
CONSTANTS
    v1 = v1
    v2 = v2
    Versions = {v1, v2}
    FirstVersions = {v1, v2}
    NoVersion = NoVersion
    Size = 1
    FromBackup = {FALSE}
    Deployed = {FALSE}
    Lagging = {}
    MaxTime = 1
    MaxFailures = 0
    MaxChanges = 1
    MaxRenewals = 1
    MaxEvents = 2
    MaxFaults = 1
INVARIANTS
    TypeOK
    NewPodCanStart
SYMMETRY VersionSymmetry
\* With no event left to wait for, both controllers are idle: not an error.
CHECK_DEADLOCK FALSE
