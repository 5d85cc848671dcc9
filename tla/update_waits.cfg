\* An update command that asks for new backup periods and no version.
SPECIFICATION CliSpec
CONSTANTS
    v1 = v1
    v2 = v2
    Versions = {v1, v2}
    FirstVersions = {v1}
    NoVersion = NoVersion
    Asked = {NoVersion}
    Size = 1
    FromBackup = {FALSE}
    Deployed = {TRUE}
    Lagging = {}
    MaxTime = 1
    MaxFailures = 0
    MaxChanges = 0
    MaxRenewals = 0
    MaxEvents = 1
    MaxFaults = 0
PROPERTIES
    CommandEnds
\* With no event left to wait for, both controllers are idle: not an error.
CHECK_DEADLOCK FALSE
