SPECIFICATION Spec
CONSTANTS
    Docs <- OverwriteDocs
    Keys <- MCKeys
    Owners <- MCOwners
    Procs = {p1, p2}
    NoDoc = NoDoc
    NoRow = NoRow
    Doc <- MCDoc
    Ancestors <- MCAncestors
    MaxBackdate = 1
    MaxFutureSkew = 1
    Retention = 1
    ExemptModes = {FALSE}
    ConcurrentDuplicates = TRUE
    MaxTime = 3
INVARIANT DeletionPermanent
CHECK_DEADLOCK FALSE
