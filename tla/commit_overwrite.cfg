SPECIFICATION Spec
CONSTANTS
    Docs <- OverwriteDocs
    Keys <- MCKeys
    Owners <- MCOwners
    Procs = {p1, p2, p3}
    NoDoc = NoDoc
    NoRow = NoRow
    Doc <- MCDoc
    Ancestors <- MCAncestors
    MaxBackdate = 1
    MaxFutureSkew = 1
    Retention = 1
    ExemptModes = {FALSE}
    ConcurrentDuplicates = FALSE
    MaxTime = 3
SYMMETRY ProcSymmetry
INVARIANTS TypeOK DeletionPermanent
PROPERTIES GcSparesLive AcceptIfNewer
CHECK_DEADLOCK FALSE
