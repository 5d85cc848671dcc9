\* One member with one certificate is deleted while both controllers and
\* cert-manager are at work; one fault; the copy of the secrets may lag.
SPECIFICATION Spec
CONSTANTS
    Members = {m1}
    Suffixes = {peer}
    Lagging = {TRUE, FALSE}
    MaxWrites = 2
    MaxFaults = 1
INVARIANTS
    DeletionTypeOK
    NothingLeft
PROPERTIES
    DeletionEnds
    DeleteCommandEnds
\* With the cluster gone and the command ended nothing goes on: not an error.
CHECK_DEADLOCK FALSE
