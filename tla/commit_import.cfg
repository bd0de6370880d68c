SPECIFICATION Spec
CONSTANTS
    Docs <- TreeDocs
    Keys <- MCKeys
    Owners <- MCOwners
    Procs = {p1, p2}
    NoDoc = NoDoc
    NoRow = NoRow
    Doc <- MCDoc
    Ancestors <- MCAncestors
    MaxBackdate = 1
    MaxFutureSkew = 1
    Retention = 1
    ExemptModes = {TRUE, FALSE}
    ConcurrentDuplicates = FALSE
    MaxTime = 2
SYMMETRY ProcSymmetry
INVARIANTS TombstoneCoversWindow
CHECK_DEADLOCK FALSE
